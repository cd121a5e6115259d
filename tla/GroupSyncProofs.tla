-------------------------- MODULE GroupSyncProofs --------------------------
(***************************************************************************)
(* Coordinated resolution: proofs for every set of heads and every bound.  *)
(* Most steps leave every job of every head as it was, end it, or take it  *)
(* out of the part that changes the zone (Kept); the invariants need to    *)
(* look closely only at the steps that begin a job or come to an act.  What*)
(* a job has been told holds until a later operation changes the zone      *)
(* (Holds), and an operation number has one meaning (OneMeaning).          *)
(***************************************************************************)
EXTENDS GroupSync, TLAPS, FiniteSetTheorems

(* What a step makes of a job it does not advance towards an act. *)
Kept(i, j) ==
  \/ j = i \/ j = Idle
  \/ /\ i \in Job /\ j \in Job /\ j.at \in {"fan", "wait"}
     /\ j.order = i.order /\ j.todo \subseteq i.todo

AllKept == \A g \in Heads, u \in Task : Kept(task[g][u], task'[g][u])

(* All jobs but one stay as they are. *)
Others(h, t) ==
  \A g \in Heads, u \in Task : <<g, u>> # <<h, t>> => task'[g][u] = task[g][u]

Tasks == [Heads -> [Task -> Job \cup {Idle}]]

-----------------------------------------------------------------------------
(* The inductive invariant                                                 *)

(* A request is for another head than its sender, and will be. *)
PeersOnly ==
  /\ \A order \in req : order.from # order.to
  /\ \A h \in Heads, t \in Task :
       task[h][t] \in Job => task[h][t].order.from \notin task[h][t].todo

(* A resting zone is off, and only looks at what others ask of it. *)
OffInv ==
  \A h \in resting : Off(h)

(* What a head works on is past what it has done, and where commands have  *)
(* not met, what looks beside an act is past that.                         *)
Ranked(h) ==
  /\ by[h].op <= op[h]
  /\ \A t \in Task : Busy(h, t) => task[h][t].order.op <= op[h]

InTurn(h) ==
  /\ \A t \in Task : Busy(h, t) => task[h][t].order.op > by[h].op
  /\ \A t, u \in Task :
       u # t /\ task[h][t].at = "act" /\ Busy(h, u)
       => task[h][u].at = "look" /\ task[h][u].order.op > task[h][t].order.op

LaterInv == \A h \in Heads : Ranked(h) /\ (h \notin excused => InTurn(h))

(* The dwell covers the last change, and an act has waited for it. *)
PacedInv ==
  spent.reboots = 0 =>
    \A h \in Heads :
      /\ recent[h] => dwell[h]
      /\ h \notin excused => \A t \in Task : task[h][t].at = "act" => ~recent[h]

SyncInv == TypeOK /\ PeersOnly /\ OffInv /\ LaterInv /\ PacedInv

-----------------------------------------------------------------------------
(* Jobs                                                                    *)

(* A task that does something has a job. *)
LEMMA WorkingHasJob ==
  ASSUME TypeOK, NEW h \in Heads, NEW t \in Task, task[h][t].at # "idle"
  PROVE  task[h][t] \in Job
<1>1. task[h][t] \in Job \cup {Idle}
  BY DEF TypeOK
<1>2. Idle.at = "idle"
  BY DEF Idle
<1> QED BY <1>1, <1>2

(* Jobs are not idle. *)
LEMMA JobIsNotIdle == \A j \in Job : j # Idle /\ j.at # "idle"
<1> SUFFICES ASSUME NEW j \in Job PROVE j # Idle /\ j.at # "idle"
  OBVIOUS
<1>1. j.at \in {"look", "act", "fan", "wait"}
  BY DEF Job
<1> QED BY <1>1 DEF Idle

(* A fresh job is one. *)
LEMMA BegunIsJob ==
  ASSUME NEW order \in Order
  PROVE  Begun(order) \in Job /\ Begun(order).at = "look" /\ Begun(order).order = order
<1>1. order.from \in Heads
  BY DEF Order
<1> QED BY <1>1 DEF Begun, Job

(* One job of one head is replaced. *)
LEMMA OneJob ==
  ASSUME task \in Tasks, NEW h \in Heads, NEW t \in Task,
         NEW j \in Job \cup {Idle},
         task' = [task EXCEPT ![h][t] = j]
  PROVE  /\ task' \in Tasks
         /\ task'[h][t] = j
         /\ Others(h, t)
<1>1. task'[h] = [task[h] EXCEPT ![t] = j]
  BY DEF Tasks
<1>2. \A g \in Heads : g # h => task'[g] = task[g]
  BY DEF Tasks
<1>3. task[h] \in [Task -> Job \cup {Idle}]
  BY DEF Tasks
<1>4. task'[h] \in [Task -> Job \cup {Idle}] /\ task'[h][t] = j
       /\ \A u \in Task : u # t => task'[h][u] = task[h][u]
  BY <1>1, <1>3
<1>5. task' = [g \in Heads |-> task'[g]]
  BY DEF Tasks
<1>6. \A g \in Heads : task'[g] \in [Task -> Job \cup {Idle}]
  BY <1>2, <1>4 DEF Tasks
<1>7. task' \in Tasks
  BY <1>5, <1>6 DEF Tasks
<1> QED BY <1>2, <1>4, <1>7 DEF Others

(* A result noted leaves a job that works on the same order. *)
LEMMA AnsweredIsJob ==
  ASSUME NEW i \in Job, NEW k \in Heads, NEW result \in Result
  PROVE  /\ Answered(i, k, result) \in Job
         /\ Answered(i, k, result).at = "fan"
         /\ Kept(i, Answered(i, k, result))
<1>1. Answered(i, k, result) \in Job
  BY DEF Answered, Job
<1>2. /\ Answered(i, k, result).at = "fan"
      /\ Answered(i, k, result).order = i.order
      /\ Answered(i, k, result).todo = i.todo
  BY DEF Answered, Job
<1> QED BY <1>1, <1>2 DEF Kept

(* One job of one head is replaced by one that Kept allows. *)
LEMMA OneJobKept ==
  ASSUME task \in Tasks, NEW h \in Heads, NEW t \in Task,
         NEW j \in Job \cup {Idle},
         Kept(task[h][t], j),
         task' = [task EXCEPT ![h][t] = j]
  PROVE  task' \in Tasks /\ task'[h][t] = j /\ AllKept
<1>1. task' \in Tasks /\ task'[h][t] = j /\ Others(h, t)
  BY OneJob
<1>2. ASSUME NEW g \in Heads, NEW u \in Task
      PROVE  Kept(task[g][u], task'[g][u])
  <2>1. CASE <<g, u>> = <<h, t>>
    <3>1. g = h /\ u = t
      BY <2>1
    <3> QED BY <1>1, <3>1
  <2>2. CASE <<g, u>> # <<h, t>>
    BY <1>1, <2>2 DEF Kept, Others
  <2> QED BY <2>1, <2>2
<1> QED BY <1>1, <1>2 DEF AllKept

(* Tell ends the work of h on the order, and moves at most one waiting     *)
(* coordinator on.                                                         *)
LEMMA TellKeeps ==
  ASSUME TypeOK, NEW h \in Heads, NEW t \in Task, NEW order \in Order,
         NEW result \in Result, Tell(h, t, order, result),
         order.from = h => task[h][t] \in Job
  PROVE  task' \in Tasks /\ AllKept /\ task'[h][t].at \notin {"look", "act"}
<1>0. task \in Tasks
  BY DEF TypeOK, Tasks
<1>1. CASE order.from = h
  <2> DEFINE j == Answered(task[h][t], h, result)
  <2>1. task' = [task EXCEPT ![h][t] = j]
    BY <1>1 DEF Tell
  <2>2. j \in Job /\ j.at = "fan" /\ Kept(task[h][t], j)
    BY <1>1, AnsweredIsJob
  <2> HIDE DEF j
  <2>3. task' \in Tasks /\ task'[h][t] = j /\ AllKept
    BY <1>0, <2>1, <2>2, OneJobKept
  <2> QED BY <2>2, <2>3
<1>2. CASE order.from # h /\ task' = [task EXCEPT ![h][t] = Idle]
  <2>1. Kept(task[h][t], Idle)
    BY DEF Kept
  <2>2. task' \in Tasks /\ task'[h][t] = Idle /\ AllKept
    BY <1>0, <1>2, <2>1, OneJobKept
  <2> QED BY <2>2 DEF Idle
<1>3. CASE /\ order.from # h /\ Awaits(order, h)
           /\ task' = [task EXCEPT ![h][t] = Idle,
                             ![order.from][order.by] = Answered(@, h, result)]
  <2> DEFINE f == order.from
             b == order.by
             c == task[f][b]
             j == Answered(c, h, result)
  <2>1. f \in Heads /\ b \in Task /\ f # h
    BY <1>3 DEF Order
  <2>2. c \in Job
    <3>1. c.at # "idle"
      BY <1>3 DEF Awaits
    <3> HIDE DEF f, b
    <3> QED BY <2>1, <3>1, WorkingHasJob
  <2>3. j \in Job /\ Kept(c, j)
    BY <2>2, AnsweredIsJob
  <2>4. DOMAIN task = Heads /\ \A g \in Heads : task[g] \in [Task -> Job \cup {Idle}]
    BY <1>0 DEF Tasks
  <2>5. task' = [task EXCEPT ![h] = [task[h] EXCEPT ![t] = Idle],
                             ![f] = [task[f] EXCEPT ![b] = j]]
    <3> DEFINE a == [task EXCEPT ![h][t] = Idle]
    <3>1. task' = [a EXCEPT ![f][b] = Answered(@, h, result)]
      BY <1>3
    <3>2. a = [task EXCEPT ![h] = [task[h] EXCEPT ![t] = Idle]]
      BY <2>4
    <3>3. a[f] = task[f]
      BY <2>1, <2>4
    <3> QED BY <3>1, <3>2, <3>3, <2>1, <2>4
  <2> HIDE DEF f, b, c, j
  <2>6. /\ DOMAIN task' = Heads
        /\ task'[h] = [task[h] EXCEPT ![t] = Idle]
        /\ task'[f] = [task[f] EXCEPT ![b] = j]
        /\ \A g \in Heads : g # h /\ g # f => task'[g] = task[g]
    BY <2>1, <2>4, <2>5
  <2>7. /\ task'[h] \in [Task -> Job \cup {Idle}] /\ task'[h][t] = Idle
        /\ \A u \in Task : u # t => task'[h][u] = task[h][u]
    BY <2>4, <2>6
  <2>8. /\ task'[f] \in [Task -> Job \cup {Idle}] /\ task'[f][b] = j
        /\ \A u \in Task : u # b => task'[f][u] = task[f][u]
    BY <2>1, <2>3, <2>4, <2>6
  <2>9. task' \in Tasks
    <3>1. \A g \in Heads : task'[g] \in [Task -> Job \cup {Idle}]
      BY <2>4, <2>6, <2>7, <2>8
    <3>2. task' = [g \in Heads |-> task'[g]]
      BY <2>5, <2>6
    <3> QED BY <3>1, <3>2 DEF Tasks
  <2>10. AllKept
    <3> SUFFICES ASSUME NEW g \in Heads, NEW u \in Task PROVE Kept(task[g][u], task'[g][u])
      BY DEF AllKept
    <3>1. CASE g = h
      BY <2>7, <3>1 DEF Kept
    <3>2. CASE g = f
      <4>1. CASE u = b
        BY <2>3, <2>8, <3>2, <4>1 DEF c
      <4>2. CASE u # b
        BY <2>8, <3>2, <4>2 DEF Kept
      <4> QED BY <4>1, <4>2
    <3>3. CASE g # h /\ g # f
      BY <2>6, <3>3 DEF Kept
    <3> QED BY <3>1, <3>2, <3>3
  <2> QED BY <2>7, <2>9, <2>10 DEF Idle
<1> QED BY <1>1, <1>2, <1>3 DEF Tell

-----------------------------------------------------------------------------
(* What each step does to the jobs                                         *)

(* Only heads come to rest. *)
LEMMA RestingAreHeads ==
  ASSUME TypeOK, [Next]_vars
  PROVE  resting' \subseteq Heads
BY DEF Next, Rest, TypeOK, vars

(* A task of h takes an order up: its own, or one from a peer that is past *)
(* all that h has worked on.                                               *)
Begins(h, t) ==
  /\ Others(h, t)
  /\ task'[h][t] \in Job /\ task'[h][t].at = "look"
  /\ op'[h] > op[h] /\ task'[h][t].order.op = op'[h]
  /\ \A g \in Heads : g # h => op'[g] = op[g]

(* A task of h comes from the look to the act. *)
Comes(h, t) ==
  /\ Others(h, t)
  /\ Busy(h, t) /\ task'[h][t] \in Job /\ task'[h][t].at = "act"
  /\ task'[h][t].order = task[h][t].order
  /\ h \notin excused' => \A u \in Task \ {t} : ~Busy(h, u)
  /\ ~dwell[h] /\ h \notin resting

(* Counting what is used up leaves the rest as it is. *)
LEMMA SpendCounts ==
  ASSUME TypeOK, NEW what \in {"starts", "commands", "lost", "reboots"}, NEW most,
         Spend(what, most) \/ Disturb(what, most)
  PROVE  /\ spent' \in [starts : Nat, commands : Nat, lost : Nat, reboots : Nat]
         /\ spent'.reboots = 0 => spent.reboots = 0
<1>1. spent' = [spent EXCEPT ![what] = @ + 1]
  BY DEF Spend, Disturb
<1>2. spent \in [starts : Nat, commands : Nat, lost : Nat, reboots : Nat]
  BY DEF TypeOK
<1> QED BY <1>1, <1>2

(* Start takes up an operation of its own. *)
LEMMA StartBegins ==
  ASSUME SyncInv, resting' \subseteq Heads,
         NEW h \in Heads, NEW t \in Task, NEW target \in Target,
         NEW strat \in Strategy, Start(h, t, target, strat)
  PROVE  TypeOK' /\ PeersOnly' /\ Begins(h, t)
<1> DEFINE order == [from |-> h, by |-> t, to |-> h, op |-> op[h] + 1,
                     target |-> target, strat |-> strat]
<1>1. TypeOK /\ PeersOnly /\ task \in Tasks
  BY DEF SyncInv, TypeOK, Tasks
<1>2. order \in Order /\ op' = [op EXCEPT ![h] = order.op] /\ op \in [Heads -> Nat]
  BY <1>1 DEF Order, Start, TypeOK
<1>3. task' = [task EXCEPT ![h][t] = Begun(order)]
  BY DEF Start
<1>4. /\ order.from = h /\ order.op = op[h] + 1
  OBVIOUS
<1> HIDE DEF order
<1>5. Begun(order) \in Job /\ Begun(order).at = "look" /\ Begun(order).order = order
  BY <1>2, BegunIsJob
<1>6. task' \in Tasks /\ task'[h][t] = Begun(order) /\ Others(h, t)
  BY <1>1, <1>3, <1>5, OneJob
<1>7. op' \in [Heads -> Nat] /\ op'[h] = order.op /\ op'[h] > op[h]
       /\ \A g \in Heads : g # h => op'[g] = op[g]
  BY <1>2, <1>4
<1>8. TypeOK'
  <2>1. spent' \in [starts : Nat, commands : Nat, lost : Nat, reboots : Nat]
    BY <1>1, SpendCounts DEF Start
  <2> QED BY <1>1, <1>6, <1>7, <2>1 DEF TypeOK, Start, Tasks
<1>9. PeersOnly'
  <2>1. order.from \notin Begun(order).todo
    BY DEF Begun
  <2> QED BY <1>1, <1>5, <1>6, <2>1 DEF PeersOnly, Others, Start
<1> QED BY <1>5, <1>6, <1>7, <1>8, <1>9 DEF Begins

(* What Kept allows takes no peer in. *)
LEMMA KeptPeers ==
  ASSUME PeersOnly, AllKept, req' \subseteq req
  PROVE  PeersOnly'
<1>1. ASSUME NEW h \in Heads, NEW t \in Task, task'[h][t] \in Job
      PROVE  task'[h][t].order.from \notin task'[h][t].todo
  <2>1. Kept(task[h][t], task'[h][t]) /\ task'[h][t] # Idle
    BY <1>1, JobIsNotIdle DEF AllKept
  <2> QED BY <1>1, <2>1 DEF Kept, PeersOnly
<1> QED BY <1>1 DEF PeersOnly

(* Serve takes up an order that is newer than all others here, or answers. *)
LEMMA ServeBegins ==
  ASSUME SyncInv, resting' \subseteq Heads, NEW h \in Heads, NEW order \in req, Serve(h, order)
  PROVE  TypeOK' /\ PeersOnly' /\ ((AllKept /\ op' = op) \/ Begins(h, "web"))
<1>1. TypeOK /\ PeersOnly /\ task \in Tasks /\ "web" \in Task
  BY DEF SyncInv, TypeOK, Tasks, Task
<1>2. order \in Order /\ order.from # h /\ op \in [Heads -> Nat] /\ order.op \in Nat
  BY <1>1 DEF Serve, PeersOnly, TypeOK, Order
<1>3. CASE /\ Newer(h, order.op)
           /\ op' = [op EXCEPT ![h] = order.op]
           /\ task' = [task EXCEPT ![h]["web"] = Begun(order)]
           /\ UNCHANGED spent
  <2>1. Begun(order) \in Job /\ Begun(order).at = "look" /\ Begun(order).order = order
    BY <1>2, BegunIsJob
  <2>2. task' \in Tasks /\ task'[h]["web"] = Begun(order) /\ Others(h, "web")
    BY <1>1, <1>3, <2>1, OneJob
  <2>3. op' \in [Heads -> Nat] /\ op'[h] = order.op /\ op'[h] > op[h]
         /\ \A g \in Heads : g # h => op'[g] = op[g]
    BY <1>2, <1>3 DEF Newer
  <2>4. req' \subseteq req
    BY DEF Serve
  <2>5. TypeOK'
    BY <1>1, <1>3, <2>2, <2>3, <2>4 DEF TypeOK, Serve, Tasks, histVars
  <2>6. PeersOnly'
    <3>1. order.from \notin Begun(order).todo
      BY DEF Begun
    <3> QED BY <1>1, <2>1, <2>2, <2>4, <3>1 DEF PeersOnly, Others
  <2> QED BY <1>2, <2>1, <2>2, <2>3, <2>5, <2>6 DEF Begins
<1>4. CASE Tell(h, "web", order, "stale") /\ UNCHANGED op
  <2>1. task' \in Tasks /\ AllKept
    BY <1>1, <1>2, <1>4, TellKeeps DEF Result
  <2>2. spent' \in [starts : Nat, commands : Nat, lost : Nat, reboots : Nat]
    BY <1>1, <1>4, SpendCounts DEF Tell, TypeOK
  <2>3. req' \subseteq req
    BY DEF Serve
  <2>4. TypeOK'
    BY <1>1, <1>4, <2>1, <2>2, <2>3 DEF TypeOK, Serve, Tasks, histVars
  <2>5. PeersOnly'
    BY <1>1, <2>1, <2>3, KeptPeers
  <2> QED BY <1>4, <2>1, <2>4, <2>5
<1> QED BY <1>3, <1>4 DEF Serve

(* Look answers, or comes to an act that nothing forbids. *)
LEMMA LookComes ==
  ASSUME SyncInv, resting' \subseteq Heads,
         NEW h \in Heads, NEW t \in Task, Look(h, t)
  PROVE  TypeOK' /\ PeersOnly' /\ (AllKept \/ Comes(h, t))
<1> DEFINE order == task[h][t].order
           plan == PlanOf(h, t)
           told == IF plan = "none" THEN "aligned" ELSE "dwell"
<1>1. TypeOK /\ PeersOnly /\ task \in Tasks /\ Busy(h, t)
  BY DEF SyncInv, TypeOK, Tasks, Look, Busy
<1>2. task[h][t] \in Job
  BY <1>1, WorkingHasJob DEF Busy
<1>3. order \in Order /\ plan \in {"none", "off", "flip"} /\ told \in Result
  BY <1>2 DEF Job, PlanOf, Plan, Result
<1>4. excused' \subseteq Heads /\ UNCHANGED <<want, seen, op, dwell, req, by, recent>>
  BY <1>1 DEF Look, Excuse, TypeOK
<1>5. CASE (plan = "none" \/ dwell[h]) /\ Tell(h, t, order, told)
  <2> HIDE DEF order, told
  <2>1. task' \in Tasks /\ AllKept
    BY <1>1, <1>2, <1>3, <1>5, TellKeeps
  <2>2. spent' \in [starts : Nat, commands : Nat, lost : Nat, reboots : Nat]
    BY <1>1, <1>5, SpendCounts DEF Tell, TypeOK
  <2>3. TypeOK'
    BY <1>1, <1>4, <2>1, <2>2 DEF TypeOK, Tasks
  <2>4. PeersOnly'
    BY <1>1, <1>4, <2>1, KeptPeers
  <2> QED BY <2>1, <2>3, <2>4
<1>6. CASE /\ plan # "none" /\ ~dwell[h]
           /\ task' = [task EXCEPT ![h][t] = [@ EXCEPT !.at = "act", !.plan = plan]]
           /\ UNCHANGED spent
  <2> DEFINE j == [task[h][t] EXCEPT !.at = "act", !.plan = plan]
  <2>1. task' = [task EXCEPT ![h][t] = j]
    BY <1>6
  <2>2. j \in Job /\ j.at = "act" /\ j.order = order /\ j.todo = task[h][t].todo
    <3> HIDE DEF plan
    <3> QED BY <1>2, <1>3 DEF Job
  <2>3. h \notin resting
    <3>1. SUFFICES ASSUME h \in resting PROVE plan = "none"
      BY <1>6
    <3>2. ~seen[h].on /\ order.from # h
      BY <1>1, <3>1 DEF SyncInv, OffInv, Off, Own, Busy, Look
    <3> QED BY <3>2 DEF PlanOf, Own, Plan
  <2>4. h \notin excused' => \A u \in Task \ {t} : ~Busy(h, u)
    BY DEF Look, Excuse
  <2> HIDE DEF j, plan
  <2>5. task' \in Tasks /\ task'[h][t] = j /\ Others(h, t)
    BY <1>1, <2>1, <2>2, OneJob
  <2>6. TypeOK'
    BY <1>1, <1>4, <1>6, <2>5 DEF TypeOK, Tasks
  <2>7. PeersOnly'
    BY <1>1, <1>2, <1>4, <2>2, <2>5 DEF PeersOnly, Others
  <2> QED BY <1>1, <1>6, <2>2, <2>3, <2>4, <2>5, <2>6, <2>7 DEF Comes
<1> QED BY <1>5, <1>6 DEF Look

(* What a plan makes of a zone is one. *)
LEMMA CommandedIsZone ==
  ASSUME NEW z \in Zone, NEW plan, NEW target \in Target
  PROVE  Commanded(z, plan, target) \in Zone
<1>1. ModeOf(target) \in Mode
  BY ModeAssumption DEF ModeOf
<1> QED BY <1>1 DEF Commanded, Zone

(* Act changes the zone of its head, and marks it. *)
LEMMA ActApplies ==
  ASSUME SyncInv, resting' \subseteq Heads,
         NEW h \in Heads, NEW t \in Task, Act(h, t)
  PROVE  /\ TypeOK' /\ PeersOnly' /\ AllKept
         /\ Busy(h, t) /\ task[h][t] \in Job /\ task'[h][t].at \notin {"look", "act"}
         /\ by' = [by EXCEPT ![h] = [op |-> task[h][t].order.op,
                                     from |-> task[h][t].order.from]]
         /\ UNCHANGED <<seen, op, req, excused>>
         /\ spent'.reboots = 0 => spent.reboots = 0
<1> DEFINE order == task[h][t].order
<1>1. TypeOK /\ PeersOnly /\ task \in Tasks /\ Busy(h, t)
  BY DEF SyncInv, TypeOK, Tasks, Act, Busy
<1>2. task[h][t] \in Job
  BY <1>1, WorkingHasJob DEF Busy
<1>3. order \in Order /\ order.op \in Nat /\ order.from \in Heads /\ order.target \in Target
  BY <1>2 DEF Job, Order
<1>4. Tell(h, t, order, "applied") /\ Apply(h, task[h][t])
       /\ UNCHANGED <<seen, op, req, excused>>
       /\ dwell' = [dwell EXCEPT ![h] = TRUE]
  BY DEF Act
<1> HIDE DEF order
<1>5. task' \in Tasks /\ AllKept /\ task'[h][t].at \notin {"look", "act"}
  BY <1>1, <1>2, <1>3, <1>4, TellKeeps DEF Result
<1>6. spent' \in [starts : Nat, commands : Nat, lost : Nat, reboots : Nat]
       /\ (spent'.reboots = 0 => spent.reboots = 0)
  BY <1>1, <1>4, SpendCounts DEF Tell, TypeOK
<1>7. want' \in [Heads -> Zone]
  <2>1. Commanded(want[h], task[h][t].plan, order.target) \in Zone
    BY <1>1, <1>3, CommandedIsZone DEF TypeOK
  <2>2. want' = [want EXCEPT ![h] = Commanded(want[h], task[h][t].plan, order.target)]
    BY <1>4 DEF Apply, order
  <2> QED BY <1>1, <2>1, <2>2 DEF TypeOK
<1>8. /\ by' = [by EXCEPT ![h] = [op |-> order.op, from |-> order.from]]
      /\ recent' = [recent EXCEPT ![h] = TRUE]
  BY <1>4 DEF Apply, order
<1>9. /\ by' \in [Heads -> [op : Nat, from : Heads \cup {Nobody}]]
      /\ recent' \in [Heads -> BOOLEAN]
  BY <1>1, <1>3, <1>8 DEF TypeOK
<1>10. TypeOK'
  BY <1>1, <1>4, <1>5, <1>6, <1>7, <1>9 DEF TypeOK, Tasks
<1>11. PeersOnly'
  BY <1>1, <1>4, <1>5, KeptPeers
<1> QED BY <1>1, <1>2, <1>4, <1>5, <1>6, <1>8, <1>10, <1>11 DEF order

(* Send moves a coordinator that is past its own act on. *)
LEMMA SendKeeps ==
  ASSUME SyncInv, resting' \subseteq Heads,
         NEW h \in Heads, NEW t \in Task, NEW k \in Heads, Send(h, t, k)
  PROVE  TypeOK' /\ PeersOnly' /\ AllKept
<1> DEFINE j == [task[h][t] EXCEPT !.at = "wait", !.peer = k, !.todo = task[h][t].todo \ {k}]
<1>1. TypeOK /\ PeersOnly /\ task \in Tasks
  BY DEF SyncInv, TypeOK, Tasks
<1>2. task[h][t] \in Job /\ k \in task[h][t].todo
  BY <1>1, WorkingHasJob DEF Send
<1>3. task' = [task EXCEPT ![h][t] = j]
  BY DEF Send
<1>4. j \in Job /\ Kept(task[h][t], j)
  <2>1. j \in Job
    BY <1>2 DEF Job
  <2>2. j.at = "wait" /\ j.order = task[h][t].order /\ j.todo \subseteq task[h][t].todo
    BY <1>2 DEF Job
  <2> QED BY <1>2, <2>1, <2>2 DEF Kept
<1> HIDE DEF j
<1>5. task' \in Tasks /\ AllKept
  BY <1>1, <1>3, <1>4, OneJobKept
<1> DEFINE order == [task[h][t].order EXCEPT !.to = k]
<1>6. order \in Order /\ order.from # order.to
  <2>1. task[h][t].order \in Order /\ task[h][t].order.from # k
    BY <1>1, <1>2 DEF Job, PeersOnly
  <2> QED BY <2>1 DEF Order
<1>7. req' \subseteq req \cup {order}
  BY DEF Send
<1>8. spent' \in [starts : Nat, commands : Nat, lost : Nat, reboots : Nat]
  BY <1>1, SpendCounts DEF Send, TypeOK
<1> HIDE DEF order
<1>9. TypeOK'
  BY <1>1, <1>5, <1>6, <1>7, <1>8 DEF TypeOK, Send, histVars, Tasks
<1>10. PeersOnly'
  <2>1. \A o \in req' : o.from # o.to
    BY <1>1, <1>6, <1>7 DEF PeersOnly
  <2>2. ASSUME NEW g \in Heads, NEW u \in Task, task'[g][u] \in Job
        PROVE  task'[g][u].order.from \notin task'[g][u].todo
    <3>1. Kept(task[g][u], task'[g][u]) /\ task'[g][u] # Idle
      BY <1>5, <2>2, JobIsNotIdle DEF AllKept
    <3> QED BY <1>1, <2>2, <3>1 DEF Kept, PeersOnly
  <2> QED BY <2>1, <2>2 DEF PeersOnly
<1> QED BY <1>5, <1>9, <1>10

(* Giving a peer up. *)
LEMMA TimeoutKeeps ==
  ASSUME SyncInv, resting' \subseteq Heads,
         NEW h \in Heads, NEW t \in Task, Timeout(h, t)
  PROVE  TypeOK' /\ PeersOnly' /\ AllKept
<1> DEFINE k == task[h][t].peer
           j == Answered(task[h][t], k, "unreachable")
<1>1. TypeOK /\ PeersOnly /\ task \in Tasks
  BY DEF SyncInv, TypeOK, Tasks
<1>2. task[h][t] \in Job
  BY <1>1, WorkingHasJob DEF Timeout
<1>3. task' = [task EXCEPT ![h][t] = j]
  BY DEF Timeout
<1>4. j \in Job /\ Kept(task[h][t], j)
  <2>1. \A i \in [Heads -> Result \cup {"none"}] :
          [i EXCEPT ![k] = "unreachable"] \in [Heads -> Result \cup {"none"}]
    BY DEF Result
  <2>2. j \in Job
    BY <1>2, <2>1 DEF Job, Answered
  <2>3. j.at = "fan" /\ j.order = task[h][t].order /\ j.todo = task[h][t].todo
    BY <1>2 DEF Job, Answered
  <2> QED BY <1>2, <2>2, <2>3 DEF Kept
<1> HIDE DEF j
<1>5. task' \in Tasks /\ AllKept
  BY <1>1, <1>3, <1>4, OneJobKept
<1>6. TypeOK'
  BY <1>1, <1>5 DEF TypeOK, Timeout, histVars, Tasks
<1>7. PeersOnly'
  BY <1>1, <1>5, KeptPeers DEF Timeout
<1> QED BY <1>5, <1>6, <1>7

(* The end of an operation. *)
LEMMA ReturnKeeps ==
  ASSUME SyncInv, resting' \subseteq Heads,
         NEW h \in Heads, NEW t \in Task, Return(h, t)
  PROVE  TypeOK' /\ PeersOnly' /\ AllKept
<1>1. TypeOK /\ PeersOnly /\ task \in Tasks
  BY DEF SyncInv, TypeOK, Tasks
<1>2. task' = [task EXCEPT ![h][t] = Idle] /\ Kept(task[h][t], Idle)
  BY DEF Return, Kept
<1>3. task' \in Tasks /\ AllKept
  BY <1>1, <1>2, OneJobKept
<1>4. TypeOK'
  BY <1>1, <1>3 DEF TypeOK, Return, histVars, Tasks
<1>5. PeersOnly'
  BY <1>1, <1>3, KeptPeers DEF Return
<1> QED BY <1>3, <1>4, <1>5

(* A reboot ends all work of a head. *)
LEMMA RebootKeeps ==
  ASSUME SyncInv, resting' \subseteq Heads, NEW h \in Heads, Reboot(h)
  PROVE  TypeOK' /\ PeersOnly' /\ AllKept
<1>1. TypeOK /\ PeersOnly /\ task \in Tasks
  BY DEF SyncInv, TypeOK, Tasks
<1>2. /\ task' \in Tasks
      /\ \A t \in Task : task'[h][t] = Idle
      /\ \A g \in Heads : g # h => task'[g] = task[g]
  BY <1>1 DEF Reboot, Tasks
<1>3. AllKept
  BY <1>2 DEF AllKept, Kept
<1>4. spent' \in [starts : Nat, commands : Nat, lost : Nat, reboots : Nat]
  BY <1>1, SpendCounts DEF Reboot
<1>5. want' \in [Heads -> Zone] /\ dwell' \in [Heads -> BOOLEAN]
       /\ req' \subseteq req /\ excused' \subseteq Heads
  BY <1>1 DEF TypeOK, Reboot
<1>6. TypeOK'
  BY <1>1, <1>2, <1>4, <1>5 DEF TypeOK, Reboot, Tasks
<1> QED BY <1>1, <1>3, <1>5, <1>6, KeptPeers

(* The steps that touch no job. *)
LEMMA RestKeeps ==
  ASSUME SyncInv, resting' \subseteq Heads, NEW h \in Heads,
         (\E z \in Zone : Command(h, z)) \/ Follow(h) \/ DwellOver(h)
  PROVE  TypeOK' /\ PeersOnly' /\ AllKept
<1>1. TypeOK /\ PeersOnly
  BY DEF SyncInv
<1>2. UNCHANGED <<task, req, op, by>>
  BY DEF Command, Follow, DwellOver, histVars
<1>3. AllKept
  BY <1>2 DEF AllKept, Kept
<1>4. spent' \in [starts : Nat, commands : Nat, lost : Nat, reboots : Nat]
  BY <1>1, SpendCounts DEF Command, Follow, DwellOver, TypeOK
<1>5. /\ want' \in [Heads -> Zone] /\ seen' \in [Heads -> Zone]
      /\ dwell' \in [Heads -> BOOLEAN] /\ recent' \in [Heads -> BOOLEAN]
      /\ excused' \subseteq Heads
  <2>1. CASE \E z \in Zone : Command(h, z)
    BY <1>1, <2>1 DEF TypeOK, Command
  <2>2. CASE Follow(h)
    BY <1>1, <2>2 DEF TypeOK, Follow, histVars
  <2>3. CASE DwellOver(h)
    BY <1>1, <2>3 DEF TypeOK, DwellOver
  <2> QED BY <2>1, <2>2, <2>3
<1>6. TypeOK'
  BY <1>1, <1>2, <1>4, <1>5 DEF TypeOK
<1> QED BY <1>1, <1>2, <1>3, <1>6, KeptPeers

-----------------------------------------------------------------------------
(* What each step does to the changes of a zone                            *)

(* Act changes one zone; all other steps change none that way. *)
Acts(h, t) == Act(h, t) /\ AllKept

NoAct == by' = by /\ excused \subseteq excused'

Working ==
  \/ AllKept /\ op' = op
  \/ \E h \in Heads, t \in Task :
       \/ Begins(h, t)
       \/ Comes(h, t) /\ op' = op

(* Every step is one of these, and keeps the types. *)
LEMMA StepKinds ==
  ASSUME SyncInv, [Next]_vars
  PROVE  /\ TypeOK' /\ PeersOnly'
         /\ \/ NoAct /\ Working
            \/ \E h \in Heads, t \in Task : Acts(h, t)
<1> resting' \subseteq Heads
  BY RestingAreHeads DEF SyncInv
<1>1. CASE UNCHANGED vars
  <2>1. TypeOK' /\ PeersOnly'
    BY <1>1 DEF SyncInv, TypeOK, PeersOnly, vars, ownVars, histVars
  <2> QED BY <1>1, <2>1 DEF NoAct, Working, AllKept, Kept, vars, ownVars, histVars
<1>2. ASSUME NEW h \in Heads, User(h)
      PROVE  TypeOK' /\ PeersOnly' /\ NoAct /\ Working
  <2>1. ASSUME NEW t \in Task, NEW target \in Target, NEW strat \in Strategy,
               Start(h, t, target, strat)
        PROVE  TypeOK' /\ PeersOnly' /\ NoAct /\ Working
    BY <2>1, StartBegins DEF NoAct, Working, Start
  <2>2. ASSUME NEW z \in Zone, Command(h, z)
        PROVE  TypeOK' /\ PeersOnly' /\ NoAct /\ Working
    <3>1. TypeOK' /\ PeersOnly' /\ AllKept
      BY <2>2, RestKeeps
    <3> QED BY <2>2, <3>1 DEF NoAct, Working, Command
  <2> QED BY <1>2, <2>1, <2>2 DEF User
<1>3. ASSUME NEW h \in Heads, NEW t \in Task, Work(h, t)
      PROVE  /\ TypeOK' /\ PeersOnly'
             /\ (NoAct /\ Working) \/ Acts(h, t)
  <2>1. CASE Look(h, t)
    <3>1. by' = by /\ op' = op /\ excused \subseteq excused'
      BY <2>1 DEF Look, Excuse
    <3> QED BY <2>1, <3>1, LookComes DEF NoAct, Working
  <2>2. CASE Act(h, t)
    BY <2>2, ActApplies DEF Acts
  <2>3. CASE \E k \in Heads : Send(h, t, k)
    BY <2>3, SendKeeps DEF NoAct, Working, Send, histVars
  <2>4. CASE Timeout(h, t)
    BY <2>4, TimeoutKeeps DEF NoAct, Working, Timeout, histVars
  <2>5. CASE Return(h, t)
    BY <2>5, ReturnKeeps DEF NoAct, Working, Return, histVars
  <2> QED BY <1>3, <2>1, <2>2, <2>3, <2>4, <2>5 DEF Work
<1>4. ASSUME NEW h \in Heads, ServeAny(h)
      PROVE  TypeOK' /\ PeersOnly' /\ NoAct /\ Working
  <2>1. PICK order \in req : Serve(h, order)
    BY <1>4 DEF ServeAny
  <2>2. by' = by /\ excused' = excused /\ "web" \in Task
    BY <2>1 DEF Serve, histVars, Task
  <2> QED BY <2>1, <2>2, ServeBegins DEF NoAct, Working
<1>5. ASSUME NEW h \in Heads, Follow(h) \/ DwellOver(h)
      PROVE  TypeOK' /\ PeersOnly' /\ NoAct /\ Working
  <2>1. TypeOK' /\ PeersOnly' /\ AllKept
    BY <1>5, RestKeeps
  <2> QED BY <1>5, <2>1 DEF NoAct, Working, Follow, DwellOver, histVars
<1>6. ASSUME NEW h \in Heads, Reboot(h)
      PROVE  TypeOK' /\ PeersOnly' /\ NoAct /\ Working
  <2>1. by' = by /\ op' = op /\ excused \subseteq excused'
    BY <1>6 DEF Reboot
  <2> QED BY <1>6, <2>1, RebootKeeps DEF NoAct, Working
<1> QED BY <1>1, <1>2, <1>3, <1>4, <1>5, <1>6 DEF Next, Other

(* A task that is busy afterwards is as it was, unless it has begun or come *)
(* to the act.                                                             *)
LEMMA BusyIsKept ==
  ASSUME AllKept, NEW h \in Heads, NEW t \in Task, task'[h][t].at \in {"look", "act"}
  PROVE  task'[h][t] = task[h][t]
<1>1. Kept(task[h][t], task'[h][t])
  BY DEF AllKept
<1>2. task'[h][t] # Idle
  BY DEF Idle
<1> QED BY <1>1, <1>2 DEF Kept

-----------------------------------------------------------------------------
(* Type correctness                                                        *)

LEMMA InitSync == ASSUME Init PROVE SyncInv
<1>1. \A h \in Heads, t \in Task : task[h][t] = Idle
  BY DEF Init
<1>2. \A h \in Heads, t \in Task : ~Busy(h, t) /\ task[h][t].at # "act"
  BY <1>1 DEF Busy, Idle
<1>3. TypeOK
  BY DEF Init, TypeOK
<1>4. PeersOnly
  BY <1>1, JobIsNotIdle DEF Init, PeersOnly
<1>5. OffInv
  BY <1>2 DEF Init, OffInv, Off
<1>6. LaterInv
  BY <1>2 DEF Init, LaterInv, Ranked, InTurn
<1>7. PacedInv
  BY <1>2 DEF Init, PacedInv
<1> QED BY <1>3, <1>4, <1>5, <1>6, <1>7 DEF SyncInv

-----------------------------------------------------------------------------
(* A zone that is off                                                      *)

(* What a step does to the zones: only a command of its own, or a task past *)
(* the look, changes one.                                                  *)
LEMMA OffZone ==
  ASSUME SyncInv, NEW g \in resting, NEW h \in Heads, Other(h) \/ (User(h) /\ h # g)
  PROVE  ~want'[g].on /\ ~seen'[g].on
<1>1. TypeOK /\ g \in Heads /\ Off(g) /\ ~want[g].on /\ ~seen[g].on
  BY DEF SyncInv, TypeOK, OffInv, Off
<1>2. want \in [Heads -> Zone] /\ seen \in [Heads -> Zone]
  BY <1>1 DEF TypeOK
<1>3. ASSUME NEW t \in Task, Work(h, t)
      PROVE  ~want'[g].on /\ ~seen'[g].on
  <2>1. CASE Act(h, t)
    <3>1. g # h
      <4>1. Busy(h, t) /\ task[h][t].at = "act"
        BY <2>1 DEF Act, Busy
      <4> QED BY <1>1, <4>1 DEF Off
    <3>2. want'[g] = want[g] /\ seen' = seen
      BY <1>1, <1>2, <2>1, <3>1 DEF Act, Apply
    <3> QED BY <1>1, <3>2
  <2>2. CASE want' = want /\ seen' = seen
    BY <1>1, <2>2
  <2> QED BY <1>3, <2>1, <2>2 DEF Work, Look, Send, Timeout, Return
<1>4. CASE Follow(h)
  BY <1>1, <1>2, <1>4 DEF Follow
<1>5. CASE Reboot(h)
  BY <1>1, <1>2, <1>5 DEF Reboot
<1>6. CASE ServeAny(h) \/ DwellOver(h)
  <2>1. want' = want /\ seen' = seen
    BY <1>6 DEF ServeAny, Serve, DwellOver
  <2> QED BY <1>1, <2>1
<1>7. ASSUME NEW z \in Zone, Command(h, z), h # g
      PROVE  ~want'[g].on /\ ~seen'[g].on
  BY <1>1, <1>2, <1>7 DEF Command
<1>8. ASSUME NEW t \in Task, NEW target \in Target, NEW strat \in Strategy,
             Start(h, t, target, strat)
      PROVE  ~want'[g].on /\ ~seen'[g].on
  <2>1. want' = want /\ seen' = seen
    BY <1>8 DEF Start
  <2> QED BY <1>1, <2>1
<1> QED BY <1>3, <1>4, <1>5, <1>6, <1>7, <1>8 DEF Other, User

(* Only its own user makes a head work on an order of its own.             *)
LEMMA OthersOrder ==
  ASSUME SyncInv, NEW g \in resting, NEW h \in Heads, Other(h) \/ (User(h) /\ h # g),
         NEW u \in Task, op'[g] # op[g]
  PROVE  task'[g][u] = task[g][u] \/ task'[g][u].order.from # g
<1>1. TypeOK /\ PeersOnly /\ g \in Heads /\ op \in [Heads -> Nat] /\ task \in Tasks
  BY DEF SyncInv, TypeOK, Tasks
<1>2. op' # op
  OBVIOUS
<1>3. CASE User(h) /\ h # g
  BY <1>1, <1>3 DEF User, Start, Command
<1>4. CASE Other(h)
  <2>1. PICK order \in req : Serve(h, order)
    BY <1>2, <1>4 DEF Other, Work, Look, Act, Send, Timeout, Return, ServeAny, Follow,
                      DwellOver, Reboot
  <2>2. /\ op' = [op EXCEPT ![h] = order.op]
        /\ task' = [task EXCEPT ![h]["web"] = Begun(order)]
    BY <1>2, <2>1 DEF Serve
  <2>3. g = h /\ order.from # h
    BY <1>1, <2>1, <2>2 DEF Serve, PeersOnly
  <2>4. Begun(order).order = order
    BY DEF Begun
  <2> QED BY <1>1, <2>2, <2>3, <2>4 DEF Tasks, Task
<1> QED BY <1>3, <1>4

(* A zone that has been seen to be off stays so, until its own user acts.  *)
LEMMA OffStep ==
  ASSUME SyncInv, [Next]_vars
  PROVE  OffInv'
<1>1. TypeOK /\ OffInv /\ resting \subseteq Heads
  BY DEF SyncInv, TypeOK
<1>2. CASE UNCHANGED vars
  BY <1>1, <1>2 DEF vars, ownVars, OffInv, Off, Busy, Own
<1>3. CASE Next
  <2>1. PICK h \in Heads : \/ User(h) /\ Rest(resting \ {h})
                           \/ Other(h) /\ Rest(resting)
    BY <1>3 DEF Next
  <2> SUFFICES ASSUME NEW g \in resting', ~Off(g)' PROVE FALSE
    BY DEF OffInv
  <2>2. g \in resting /\ g \in Heads /\ (Other(h) \/ (User(h) /\ h # g))
    BY <1>1, <2>1 DEF Rest
  <2>3. ~want'[g].on /\ ~seen'[g].on
    BY <2>2, OffZone
  <2>4. ASSUME NEW u \in Task, task'[g][u].at \in {"look", "act"}
        PROVE  task'[g][u].at = "look" /\ task'[g][u].order.from # g
    <3>1. ASSUME task'[g][u] = task[g][u]
          PROVE  task'[g][u].at = "look" /\ task'[g][u].order.from # g
      BY <1>1, <2>2, <2>4, <3>1 DEF OffInv, Off, Busy, Own
    <3>2. CASE AllKept
      BY <2>2, <2>4, <3>1, <3>2, BusyIsKept
    <3>3. ASSUME NEW k \in Heads, NEW t \in Task, Begins(k, t) \/ Comes(k, t)
          PROVE  task'[g][u].at = "look" /\ task'[g][u].order.from # g
      <4>1. CASE g = k /\ u = t
        <5>1. op'[g] # op[g] /\ task'[g][u].at = "look"
          BY <1>1, <2>2, <3>3, <4>1 DEF Begins, Comes, TypeOK
        <5> QED BY <2>2, <3>1, <5>1, OthersOrder
      <4>2. CASE ~(g = k /\ u = t)
        <5>1. task'[g][u] = task[g][u]
          BY <2>2, <3>3, <4>2 DEF Begins, Comes, Others
        <5> QED BY <3>1, <5>1
      <4> QED BY <4>1, <4>2
    <3> QED BY <3>2, <3>3, StepKinds DEF Working, Acts
  <2> QED BY <2>3, <2>4 DEF Off, Busy, Own
<1> QED BY <1>2, <1>3

-----------------------------------------------------------------------------
(* The order of operations                                                 *)

(* A job whose order is a number. *)
LEMMA OpIsNat ==
  ASSUME TypeOK, NEW h \in Heads, NEW t \in Task, Busy(h, t)
  PROVE  task[h][t].order.op \in Nat
<1>1. task[h][t] \in Job
  BY WorkingHasJob DEF Busy
<1> QED BY <1>1 DEF Job, Order

(* Where no zone is changed, taking an order up and coming to the act keep *)
(* what a head works on in turn.                                           *)
LEMMA WorkInTurn ==
  ASSUME SyncInv, NoAct, Working, TypeOK'
  PROVE  LaterInv'
<1>1. TypeOK /\ LaterInv /\ by' = by /\ excused \subseteq excused'
  BY DEF SyncInv, NoAct
<1>2. ASSUME NEW g \in Heads
      PROVE  by[g].op \in Nat /\ op[g] \in Nat /\ op'[g] \in Nat /\ by[g].op <= op[g]
  BY <1>1 DEF TypeOK, LaterInv, Ranked
<1>3. CASE AllKept /\ op' = op
  <2> SUFFICES ASSUME NEW g \in Heads
               PROVE  Ranked(g)' /\ (g \notin excused' => InTurn(g)')
    BY DEF LaterInv
  <2>1. \A u \in Task : task'[g][u].at \in {"look", "act"} => task'[g][u] = task[g][u]
    BY <1>3, BusyIsKept
  <2>2. Ranked(g)'
    BY <1>1, <1>3, <2>1 DEF LaterInv, Ranked, Busy
  <2>3. g \notin excused' => InTurn(g)'
    BY <1>1, <1>3, <2>1 DEF LaterInv, InTurn, Busy
  <2> QED BY <2>2, <2>3
<1>4. ASSUME NEW h \in Heads, NEW t \in Task, Begins(h, t), NEW g \in Heads
      PROVE  Ranked(g)' /\ (g \notin excused' => InTurn(g)')
  <2>1. CASE g # h
    <3>1. \A u \in Task : task'[g][u] = task[g][u]
      BY <1>4, <2>1 DEF Begins, Others
    <3>2. op'[g] = op[g]
      BY <1>4, <2>1 DEF Begins
    <3> QED BY <1>1, <3>1, <3>2 DEF LaterInv, Ranked, InTurn, Busy
  <2>2. CASE g = h
    <3>1. \A u \in Task : u # t => task'[g][u] = task[g][u]
      BY <1>4, <2>2 DEF Begins, Others
    <3>2. task'[g][t].at = "look" /\ task'[g][t].order.op = op'[g] /\ op'[g] > op[g]
      BY <1>4, <2>2 DEF Begins
    <3>3. \A u \in Task : Busy(g, u) => /\ task[g][u].order.op \in Nat
                                        /\ task[g][u].order.op <= op[g]
      BY <1>1, OpIsNat DEF LaterInv, Ranked
    <3>4. Ranked(g)'
      <4>1. by'[g].op <= op'[g]
        BY <1>1, <1>2, <3>2
      <4>2. \A u \in Task : task'[g][u].at \in {"look", "act"} => task'[g][u].order.op <= op'[g]
        BY <1>2, <3>1, <3>2, <3>3 DEF Busy
      <4> QED BY <4>1, <4>2 DEF Ranked, Busy
    <3>5. ASSUME g \notin excused'
          PROVE  InTurn(g)'
      <4>1. InTurn(g)
        BY <1>1, <3>5 DEF LaterInv
      <4>2. \A u \in Task : task'[g][u].at \in {"look", "act"} => task'[g][u].order.op > by'[g].op
        <5> SUFFICES ASSUME NEW u \in Task, task'[g][u].at \in {"look", "act"}
                     PROVE  task'[g][u].order.op > by'[g].op
          OBVIOUS
        <5>1. CASE u = t
          BY <1>1, <1>2, <3>2, <5>1
        <5>2. CASE u # t
          BY <1>1, <3>1, <4>1, <5>2 DEF InTurn, Busy
        <5> QED BY <5>1, <5>2
      <4>3. ASSUME NEW u \in Task, NEW v \in Task, v # u, task'[g][u].at = "act",
                   task'[g][v].at \in {"look", "act"}
            PROVE  task'[g][v].at = "look" /\ task'[g][v].order.op > task'[g][u].order.op
        <5>1. u # t /\ task'[g][u] = task[g][u] /\ Busy(g, u)
          BY <3>1, <3>2, <4>3 DEF Busy
        <5>2. CASE v = t
          BY <1>2, <3>2, <3>3, <5>1, <5>2
        <5>3. CASE v # t
          BY <3>1, <4>1, <4>3, <5>1, <5>3 DEF InTurn, Busy
        <5> QED BY <5>2, <5>3
      <4> QED BY <4>2, <4>3 DEF InTurn, Busy
    <3> QED BY <3>4, <3>5
  <2> QED BY <2>1, <2>2
<1>5. ASSUME NEW h \in Heads, NEW t \in Task, Comes(h, t), op' = op, NEW g \in Heads
      PROVE  Ranked(g)' /\ (g \notin excused' => InTurn(g)')
  <2>1. CASE g # h
    <3>1. \A u \in Task : task'[g][u] = task[g][u]
      BY <1>5, <2>1 DEF Comes, Others
    <3> QED BY <1>1, <1>5, <3>1 DEF LaterInv, Ranked, InTurn, Busy
  <2>2. CASE g = h
    <3>1. \A u \in Task : u # t => task'[g][u] = task[g][u]
      BY <1>5, <2>2 DEF Comes, Others
    <3>2. task'[g][t].at = "act" /\ task'[g][t].order = task[g][t].order /\ Busy(g, t)
      BY <1>5, <2>2 DEF Comes
    <3>3. Ranked(g)'
      BY <1>1, <1>5, <3>1, <3>2 DEF LaterInv, Ranked, Busy
    <3>4. ASSUME g \notin excused'
          PROVE  InTurn(g)'
      <4>1. InTurn(g)
        BY <1>1, <3>4 DEF LaterInv
      <4>2. \A u \in Task : u # t => task'[g][u].at \notin {"look", "act"}
        BY <1>5, <2>2, <3>1, <3>4 DEF Comes, Busy
      <4> QED BY <1>1, <3>2, <4>1, <4>2 DEF InTurn, Busy
    <3> QED BY <3>3, <3>4
  <2> QED BY <2>1, <2>2
<1> QED BY <1>3, <1>4, <1>5 DEF Working, LaterInv

(* The act that changes a zone: its order is past what the zone has seen,  *)
(* and what else the head works on is past the act.                        *)
LEMMA ActInTurn ==
  ASSUME SyncInv, resting' \subseteq Heads,
         NEW h \in Heads, NEW t \in Task, Act(h, t)
  PROVE  LaterInv' /\ (h \notin excused => by'[h].op > by[h].op)
<1>1. /\ TypeOK /\ LaterInv /\ op' = op /\ excused' = excused /\ AllKept
      /\ Busy(h, t) /\ task[h][t].at = "act" /\ task'[h][t].at \notin {"look", "act"}
      /\ by' = [by EXCEPT ![h] = [op |-> task[h][t].order.op,
                                  from |-> task[h][t].order.from]]
  BY ActApplies DEF SyncInv, Act
<1>2. by'[h].op = task[h][t].order.op /\ \A g \in Heads : g # h => by'[g] = by[g]
  BY <1>1 DEF TypeOK
<1>3. \A g \in Heads, u \in Task :
        task'[g][u].at \in {"look", "act"} => task'[g][u] = task[g][u] /\ Busy(g, u)
  BY <1>1, BusyIsKept DEF Busy
<1>4. ASSUME NEW g \in Heads
      PROVE  Ranked(g)' /\ (g \notin excused' => InTurn(g)')
  <2>1. CASE g # h
    BY <1>1, <1>2, <1>3, <2>1 DEF LaterInv, Ranked, InTurn, Busy
  <2>2. CASE g = h
    <3>1. Ranked(g)'
      <4>1. by'[g].op <= op'[g]
        BY <1>1, <1>2, <2>2 DEF LaterInv, Ranked
      <4>2. \A u \in Task : task'[g][u].at \in {"look", "act"} => task'[g][u].order.op <= op'[g]
        BY <1>1, <1>3 DEF LaterInv, Ranked
      <4> QED BY <4>1, <4>2 DEF Ranked, Busy
    <3>2. ASSUME g \notin excused'
          PROVE  InTurn(g)'
      <4>1. InTurn(g)
        BY <1>1, <3>2 DEF LaterInv
      <4>2. \A u \in Task : task'[g][u].at \in {"look", "act"} =>
              u # t /\ task'[g][u].at = "look" /\ task'[g][u].order.op > by'[g].op
        BY <1>1, <1>2, <1>3, <2>2, <4>1 DEF InTurn
      <4> QED BY <4>2 DEF InTurn, Busy
    <3> QED BY <3>1, <3>2
  <2> QED BY <2>1, <2>2
<1>5. h \notin excused => by'[h].op > by[h].op
  BY <1>1, <1>2 DEF LaterInv, InTurn
<1> QED BY <1>4, <1>5 DEF LaterInv

(* Other steps change no zone on behalf of an operation. *)
LEMMA LaterStep ==
  ASSUME SyncInv, [Next]_vars
  PROVE  /\ LaterInv'
         /\ \A h \in Heads \ excused' : by'[h] # by[h] => by'[h].op > by[h].op
<1> resting' \subseteq Heads
  BY RestingAreHeads DEF SyncInv
<1>1. CASE NoAct /\ Working
  BY <1>1, WorkInTurn, StepKinds DEF NoAct
<1>2. ASSUME NEW h \in Heads, NEW t \in Task, Acts(h, t)
      PROVE  /\ LaterInv'
             /\ \A g \in Heads \ excused' : by'[g] # by[g] => by'[g].op > by[g].op
  <2>1. Act(h, t)
    BY <1>2 DEF Acts
  <2>2. /\ excused' = excused
        /\ \A g \in Heads : g # h => by'[g] = by[g]
    BY <2>1, ActApplies DEF SyncInv, TypeOK
  <2> QED BY <2>1, <2>2, ActInTurn
<1> QED BY <1>1, <1>2, StepKinds

-----------------------------------------------------------------------------
(* The dwell                                                               *)

(* Reboots are counted, and nothing takes one back. *)
LEMMA RebootsStay ==
  ASSUME SyncInv, [Next]_vars, spent'.reboots = 0
  PROVE  spent.reboots = 0 /\ \A h \in Heads : ~Reboot(h)
<1>1. TypeOK /\ spent \in [starts : Nat, commands : Nat, lost : Nat, reboots : Nat]
  BY DEF SyncInv, TypeOK
<1>2. ASSUME NEW h \in Heads, Reboot(h)
      PROVE  FALSE
  <2>1. spent' = [spent EXCEPT !["reboots"] = @ + 1]
    BY <1>2 DEF Reboot, Disturb, Spend
  <2> QED BY <1>1, <2>1
<1>3. ASSUME NEW h \in Heads, User(h) \/ ServeAny(h) \/ Follow(h) \/ DwellOver(h)
      PROVE  spent.reboots = 0
  BY <1>1, <1>3, SpendCounts
     DEF User, Start, Command, ServeAny, Serve, Tell, Follow, DwellOver
<1>4. ASSUME NEW h \in Heads, NEW t \in Task, Work(h, t)
      PROVE  spent.reboots = 0
  BY <1>1, <1>4, SpendCounts DEF Work, Look, Tell, Act, Send, Timeout, Return
<1> QED BY <1>2, <1>3, <1>4 DEF Next, Other, vars

LEMMA PacedStep ==
  ASSUME SyncInv, [Next]_vars
  PROVE  /\ PacedInv'
         /\ \A h \in Heads \ excused' :
              by'[h] # by[h] /\ spent.reboots = 0 => ~recent[h]
<1> resting' \subseteq Heads
  BY RestingAreHeads DEF SyncInv
<1>1. TypeOK /\ LaterInv /\ PacedInv
  BY DEF SyncInv
<1>2. SUFFICES /\ spent'.reboots = 0 => PacedInv'
               /\ \A h \in Heads \ excused' :
                    by'[h] # by[h] /\ spent.reboots = 0 => ~recent[h]
  BY DEF PacedInv
<1>3. ASSUME NEW h \in Heads, NEW t \in Task, Acts(h, t), spent.reboots = 0
      PROVE  /\ h \notin excused => ~recent[h]
             /\ PacedInv'
  <2>1. /\ Act(h, t) /\ AllKept /\ task[h][t].at = "act" /\ excused' = excused
        /\ task'[h][t].at \notin {"look", "act"}
        /\ dwell' = [dwell EXCEPT ![h] = TRUE] /\ recent' = [recent EXCEPT ![h] = TRUE]
    BY <1>3, ActApplies DEF Acts, Act, Apply
  <2>2. h \notin excused => ~recent[h]
    BY <1>1, <1>3, <2>1 DEF PacedInv
  <2>3. ASSUME NEW g \in Heads
        PROVE  /\ recent'[g] => dwell'[g]
               /\ g \notin excused' => \A u \in Task : task'[g][u].at = "act" => ~recent'[g]
    <3>1. CASE g = h
      <4>1. dwell'[g]
        BY <1>1, <2>1, <3>1 DEF TypeOK
      <4>2. ASSUME g \notin excused', NEW u \in Task, task'[g][u].at = "act"
            PROVE  FALSE
        <5>1. u # t /\ task[g][u].at = "act"
          BY <2>1, <3>1, <4>2, BusyIsKept
        <5>2. InTurn(g)
          BY <1>1, <2>1, <4>2 DEF LaterInv
        <5> QED BY <2>1, <3>1, <5>1, <5>2 DEF InTurn, Busy
      <4> QED BY <4>1, <4>2
    <3>2. CASE g # h
      <4>1. dwell'[g] = dwell[g] /\ recent'[g] = recent[g]
        BY <1>1, <2>1, <3>2 DEF TypeOK
      <4>2. \A u \in Task : task'[g][u].at = "act" => task[g][u].at = "act"
        BY <2>1, BusyIsKept
      <4> QED BY <1>1, <1>3, <2>1, <4>1, <4>2 DEF PacedInv
    <3> QED BY <3>1, <3>2
  <2> QED BY <2>2, <2>3 DEF PacedInv
<1>4. ASSUME \A h \in Heads, t \in Task : ~Act(h, t), spent'.reboots = 0
      PROVE  PacedInv'
  <2>1. spent.reboots = 0 /\ \A h \in Heads : ~Reboot(h)
    BY <1>4, RebootsStay
  <2>2. \A g \in Heads : recent'[g] => recent[g] /\ dwell'[g] = dwell[g]
    <3>1. CASE dwell' = dwell /\ recent' = recent
      BY <3>1
    <3>2. ASSUME NEW h \in Heads, DwellOver(h)
          PROVE  \A g \in Heads : recent'[g] => recent[g] /\ dwell'[g] = dwell[g]
      BY <1>1, <3>2 DEF DwellOver, TypeOK
    <3>3. ASSUME NEW h \in Heads, User(h) \/ ServeAny(h) \/ Follow(h)
          PROVE  dwell' = dwell /\ recent' = recent
      BY <3>3 DEF User, Start, Command, ServeAny, Serve, Follow, histVars
    <3>4. ASSUME NEW h \in Heads, NEW t \in Task, Work(h, t)
          PROVE  dwell' = dwell /\ recent' = recent
      BY <1>4, <3>4 DEF Work, Look, Send, Timeout, Return, histVars
    <3> QED BY <2>1, <3>1, <3>2, <3>3, <3>4
         DEF Next, Other, vars, ownVars, histVars
  <2>3. NoAct /\ Working
    BY <1>4, StepKinds DEF Acts
  <2>4. ASSUME NEW g \in Heads, NEW u \in Task, task'[g][u].at = "act", g \notin excused',
               recent'[g]
        PROVE  FALSE
    <3>1. g \notin excused /\ recent[g] /\ dwell[g] /\ task[g][u].at # "act"
      BY <1>1, <2>1, <2>2, <2>3, <2>4 DEF NoAct, PacedInv
    <3>2. task'[g][u] # task[g][u]
      BY <2>4, <3>1
    <3>3. ~AllKept
      BY <2>4, <3>2, BusyIsKept
    <3>4. ASSUME NEW h \in Heads, NEW t \in Task, Begins(h, t) \/ Comes(h, t)
          PROVE  FALSE
      <4>1. g = h /\ u = t
        BY <3>2, <3>4 DEF Begins, Comes, Others
      <4> QED BY <2>4, <3>1, <3>4, <4>1 DEF Begins, Comes
    <3> QED BY <2>3, <3>3, <3>4 DEF Working
  <2> QED BY <1>1, <2>1, <2>2, <2>4 DEF PacedInv
<1>5. ASSUME NEW h \in Heads, NEW t \in Task, Act(h, t)
      PROVE  /\ Acts(h, t)
             /\ \A g \in Heads : g # h => by'[g] = by[g]
             /\ excused' = excused
  BY <1>1, <1>5, ActApplies DEF Acts, TypeOK
<1>6. ASSUME spent'.reboots = 0
      PROVE  PacedInv'
  <2>1. spent.reboots = 0
    BY <1>6, RebootsStay
  <2> QED BY <1>3, <1>4, <1>5, <1>6, <2>1
<1>7. ASSUME NEW g \in Heads \ excused', by'[g] # by[g], spent.reboots = 0
      PROVE  ~recent[g]
  <2>1. PICK h \in Heads, t \in Task : Act(h, t)
    BY <1>7, StepKinds DEF NoAct, Acts
  <2>2. g = h /\ g \notin excused
    BY <1>5, <1>7, <2>1
  <2> QED BY <1>3, <1>5, <1>7, <2>1, <2>2
<1> QED BY <1>6, <1>7

-----------------------------------------------------------------------------
(* The answers                                                             *)

(* Every order there is: on its way, or worked on. *)
Live == {o \in Order : o \in req \/ \E h \in Heads, t \in Task :
                                      task[h][t] \in Job /\ task[h][t].order = o}

(* Who collects answers does so for an order of its own; and an operation  *)
(* number of a head means one target, whoever works on it and however late.*)
Owned == \A h \in Heads, t \in Task : task[h][t].at \in {"fan", "wait"} => Own(h, t)

OneMeaning(o) ==
  /\ o.op <= op[o.from]
  /\ LET c == task[o.from][o.by]
     IN  c \in Job /\ c.order.from = o.from /\ c.order.op = o.op => c.order.target = o.target

Planned == \A h \in Heads, t \in Task : task[h][t].at = "act" => task[h][t].plan # "none"

OrdersInv == Owned /\ Planned /\ \A o \in Live : OneMeaning(o)

(* What a head has answered holds, and what it works on since is later.    *)
Told(h, t, k) == task[h][t] \in Job /\ task[h][t].result[k] \in {"applied", "aligned"}

Holds(h, t, k) ==
  LET n == task[h][t].order.op
  IN  /\ InLine(want[k], task[h][t].order.target) \/ by[k].op > n
      /\ n <= op[k]
      /\ \A u \in Task : Busy(k, u) => task[k][u].order.op > n

ResultInv == \A h, k \in Heads, t \in Task :
               Told(h, t, k) /\ k \notin excused => Holds(h, t, k)

AnswerInv == SyncInv /\ OrdersInv /\ ResultInv

(* Orders that differ in their addressee only. *)
Alike(o, p) == o.from = p.from /\ o.by = p.by /\ o.op = p.op /\ o.target = p.target

(* No job works on another order than before. *)
SameOrders ==
  \A g \in Heads, u \in Task :
    task'[g][u] \in Job => task[g][u] \in Job /\ task'[g][u].order = task[g][u].order

(* Kept jobs keep their orders.                                           *)
LEMMA KeptOrders ==
  ASSUME AllKept
  PROVE  SameOrders
<1> SUFFICES ASSUME NEW g \in Heads, NEW u \in Task, task'[g][u] \in Job
             PROVE  task[g][u] \in Job /\ task'[g][u].order = task[g][u].order
  BY DEF SameOrders
<1>1. Kept(task[g][u], task'[g][u]) /\ task'[g][u] # Idle
  BY JobIsNotIdle DEF AllKept
<1> QED BY <1>1 DEF Kept

(* Where no job changes its order, an operation number keeps its meaning.  *)
LEMMA MeaningStays ==
  ASSUME TypeOK, TypeOK', OrdersInv, SameOrders,
         \A g \in Heads : op'[g] >= op[g],
         \A o \in req' : \E p \in Live : Alike(o, p)
  PROVE  \A o \in Live' : OneMeaning(o)'
<1> SUFFICES ASSUME NEW o \in Live' PROVE OneMeaning(o)'
  OBVIOUS
<1>1. o \in Order /\ o.from \in Heads /\ o.by \in Task /\ o.op \in Nat
  BY DEF Live, Order
<1>2. PICK p \in Live : Alike(o, p)
  <2>1. CASE o \in req'
    BY <2>1
  <2>2. ASSUME NEW h \in Heads, NEW t \in Task, task'[h][t] \in Job, task'[h][t].order = o
        PROVE  o \in Live
    BY <1>1, <2>2 DEF SameOrders, Live
  <2> QED BY <2>1, <2>2 DEF Live, Alike
<1>3. OneMeaning(p)
  BY DEF OrdersInv
<1>4. o.op <= op'[o.from]
  BY <1>1, <1>2, <1>3 DEF OneMeaning, Alike, TypeOK
<1>5. ASSUME task'[o.from][o.by] \in Job, task'[o.from][o.by].order.from = o.from,
             task'[o.from][o.by].order.op = o.op
      PROVE  task'[o.from][o.by].order.target = o.target
  BY <1>1, <1>2, <1>3, <1>5 DEF OneMeaning, Alike, SameOrders
<1> QED BY <1>4, <1>5 DEF OneMeaning

(* What was told stays true while the zone stays as it is or a later order *)
(* changes it; a step must account for what is told anew.                  *)
LEMMA ResultsStay ==
  ASSUME SyncInv, TypeOK', ResultInv,
         excused \subseteq excused',
         \A k \in Heads : op'[k] >= op[k],
         \A k \in Heads \ excused' :
           \/ want'[k] = want[k] /\ by'[k] = by[k]
           \/ \E u \in Task : Busy(k, u) /\ by'[k].op = task[k][u].order.op,
         \A k \in Heads \ excused', u \in Task :
           task'[k][u].at \in {"look", "act"} =>
             \/ Busy(k, u) /\ task'[k][u].order = task[k][u].order
             \/ task'[k][u].order.op > op[k],
         \A h, k \in Heads, t \in Task :
           Told(h, t, k)' /\ k \notin excused' =>
             \/ Told(h, t, k) /\ task'[h][t].order = task[h][t].order
             \/ Holds(h, t, k)'
  PROVE  ResultInv'
<1> SUFFICES ASSUME NEW h \in Heads, NEW k \in Heads, NEW t \in Task,
                    Told(h, t, k)', k \notin excused',
                    Told(h, t, k), task'[h][t].order = task[h][t].order
             PROVE  Holds(h, t, k)'
  BY DEF ResultInv
<1> DEFINE n == task[h][t].order.op
<1>1. Holds(h, t, k)
  BY DEF ResultInv
<1>2. n \in Nat /\ op[k] \in Nat /\ op'[k] \in Nat
  BY DEF Told, Job, Order, SyncInv, TypeOK
<1>3. InLine(want'[k], task'[h][t].order.target) \/ by'[k].op > n
  BY <1>1 DEF Holds
<1>4. n <= op'[k]
  BY <1>1, <1>2 DEF Holds
<1>5. ASSUME NEW u \in Task, task'[k][u].at \in {"look", "act"}
      PROVE  task'[k][u].order.op > n
  <2>1. CASE Busy(k, u) /\ task'[k][u].order = task[k][u].order
    BY <1>1, <2>1 DEF Holds
  <2>2. CASE task'[k][u].order.op > op[k]
    <3>1. task'[k][u] \in Job
      <4>1. task'[k][u] # Idle
        BY <1>5 DEF Idle
      <4> QED BY <4>1 DEF TypeOK
    <3>2. task'[k][u].order.op \in Nat /\ n <= op[k]
      BY <1>1, <3>1 DEF Job, Order, Holds
    <3> QED BY <1>2, <2>2, <3>2
  <2> QED BY <1>5, <2>1, <2>2
<1> QED BY <1>3, <1>4, <1>5 DEF Holds, Busy

-----------------------------------------------------------------------------
(* Telling                                                                 *)

(* The job that hears an answer of h works on the order that is answered.  *)
Hears(g, u, h, order, result) ==
  /\ task[g][u] \in Job /\ task'[g][u] = Answered(task[g][u], h, result)
  /\ order.from = g /\ task[g][u].order.from = g
  /\ task[g][u].order.op = order.op /\ task[g][u].order.target = order.target

(* An answer reaches one job at most; other jobs stay or end. *)
LEMMA TellReaches ==
  ASSUME TypeOK, OrdersInv, NEW h \in Heads, NEW t \in Task, NEW order \in Live,
         NEW result, Tell(h, t, order, result),
         order.from = h => task[h][t] \in Job /\ task[h][t].order = order,
         NEW g \in Heads, NEW u \in Task
  PROVE  task'[g][u] = task[g][u] \/ task'[g][u] = Idle \/ Hears(g, u, h, order, result)
<1>1. task \in [Heads -> [Task -> Job \cup {Idle}]] /\ order \in Order
  BY DEF TypeOK, Live
<1>2. CASE order.from = h
  <2>1. task' = [task EXCEPT ![h] = [task[h] EXCEPT ![t] = Answered(task[h][t], h, result)]]
    BY <1>1, <1>2 DEF Tell
  <2>2. CASE g = h /\ u = t
    <3>1. task'[g][u] = Answered(task[g][u], h, result)
      BY <1>1, <2>1, <2>2
    <3> QED BY <1>2, <2>2, <3>1 DEF Hears
  <2>3. CASE ~(g = h /\ u = t)
    BY <1>1, <2>1, <2>3
  <2> QED BY <2>2, <2>3
<1>3. CASE order.from # h /\ task' = [task EXCEPT ![h][t] = Idle]
  BY <1>1, <1>3
<1>4. CASE /\ order.from # h /\ Awaits(order, h)
           /\ task' = [task EXCEPT ![h][t] = Idle,
                             ![order.from][order.by] = Answered(@, h, result)]
  <2> DEFINE f == order.from
             b == order.by
             a == [task EXCEPT ![h][t] = Idle]
             c == task[f][b]
  <2>1. f \in Heads /\ b \in Task /\ f # h
    BY <1>1, <1>4 DEF Order
  <2>2. a \in [Heads -> [Task -> Job \cup {Idle}]] /\ a[f] = task[f]
    BY <1>1, <2>1
  <2>3. task' = [a EXCEPT ![f] = [a[f] EXCEPT ![b] = Answered(a[f][b], h, result)]]
    BY <1>4, <2>1, <2>2
  <2>4. CASE g = f /\ u = b
    <3>1. task'[g][u] = Answered(task[g][u], h, result)
      BY <2>1, <2>2, <2>3, <2>4
    <3>2. c.at = "wait" /\ c.order.op = order.op
      BY <1>4 DEF Awaits
    <3>3. c \in Job
      <4> HIDE DEF f, b
      <4> QED BY <2>1, <3>2, WorkingHasJob
    <3>4. c.order.from = f
      BY <2>1, <3>2 DEF OrdersInv, Owned, Own
    <3>5. c.order.target = order.target
      BY <3>2, <3>3, <3>4 DEF OrdersInv, OneMeaning
    <3> QED BY <2>4, <3>1, <3>2, <3>3, <3>4, <3>5 DEF Hears
  <2>5. CASE ~(g = f /\ u = b)
    <3>1. task'[g][u] = a[g][u]
      BY <2>1, <2>2, <2>3, <2>5
    <3>2. a[g][u] = task[g][u] \/ a[g][u] = Idle
      BY <1>1
    <3> QED BY <3>1, <3>2
  <2> QED BY <2>4, <2>5
<1> QED BY <1>2, <1>3, <1>4 DEF Tell

(* So a job that has been told something new was told it by this answer.   *)
LEMMA TellTold ==
  ASSUME TypeOK, OrdersInv, NEW h \in Heads, NEW t \in Task, NEW order \in Live,
         NEW result \in Result, Tell(h, t, order, result),
         order.from = h => task[h][t] \in Job /\ task[h][t].order = order,
         NEW g \in Heads, NEW u \in Task, NEW k \in Heads, Told(g, u, k)'
  PROVE  /\ task'[g][u].order = task[g][u].order
         /\ \/ Told(g, u, k)
            \/ /\ k = h /\ result \in {"applied", "aligned"}
               /\ task'[g][u].order.op = order.op
               /\ task'[g][u].order.target = order.target
<1>1. task'[g][u] \in Job /\ task'[g][u] # Idle
  BY JobIsNotIdle DEF Told
<1>2. CASE task'[g][u] = task[g][u]
  BY <1>1, <1>2 DEF Told
<1>3. CASE Hears(g, u, h, order, result)
  <2>1. /\ task'[g][u].order = task[g][u].order
        /\ task'[g][u].result = [task[g][u].result EXCEPT ![h] = result]
    BY <1>3 DEF Hears, Answered, Job
  <2>2. task[g][u].result \in [Heads -> Result \cup {"none"}]
    BY <1>3 DEF Hears, Job
  <2>3. CASE k = h
    BY <1>3, <2>1, <2>2, <2>3 DEF Hears, Told
  <2>4. CASE k # h
    BY <1>3, <2>1, <2>2, <2>4 DEF Hears, Told
  <2> QED BY <2>3, <2>4
<1> QED BY <1>1, <1>2, <1>3, TellReaches

(* Whoever collects answers afterwards did so before, or for itself. *)
LEMMA TellOwned ==
  ASSUME TypeOK, OrdersInv, NEW h \in Heads, NEW t \in Task, NEW order \in Live,
         NEW result \in Result, Tell(h, t, order, result),
         order.from = h => task[h][t] \in Job /\ task[h][t].order = order
  PROVE  Owned' /\ Planned'
<1> SUFFICES ASSUME NEW g \in Heads, NEW u \in Task
             PROVE  /\ task'[g][u].at \in {"fan", "wait"} => task'[g][u].order.from = g
                    /\ task'[g][u].at = "act" => task'[g][u].plan # "none"
  BY DEF Owned, Planned, Own
<1>1. CASE task'[g][u] = task[g][u]
  BY <1>1 DEF OrdersInv, Owned, Planned, Own
<1>2. CASE task'[g][u] = Idle
  BY <1>2 DEF Idle
<1>3. CASE Hears(g, u, h, order, result)
  <2>1. task'[g][u].order = task[g][u].order /\ task'[g][u].at = "fan"
    BY <1>3 DEF Hears, Answered, Job
  <2> QED BY <1>3, <2>1 DEF Hears
<1> QED BY <1>1, <1>2, <1>3, TellReaches

-----------------------------------------------------------------------------
(* The steps                                                               *)

(* One job is replaced by one that has been told no more, works on the     *)
(* same order and does not come to the act.                                *)
LEMMA OneJobTold ==
  ASSUME TypeOK, OrdersInv, NEW h \in Heads, NEW t \in Task, Others(h, t),
         \/ task'[h][t] = Idle
         \/ /\ task[h][t] \in Job /\ Own(h, t)
            /\ task'[h][t].order = task[h][t].order /\ task'[h][t].at # "act"
            /\ \A k \in Heads : task'[h][t].result[k] \in {"applied", "aligned"}
                                  => task'[h][t].result[k] = task[h][t].result[k]
  PROVE  /\ Owned' /\ Planned'
         /\ \A g, k \in Heads, u \in Task :
              Told(g, u, k)' => Told(g, u, k) /\ task'[g][u].order = task[g][u].order
<1> SUFFICES ASSUME NEW g \in Heads, NEW u \in Task
             PROVE  /\ task'[g][u].at \in {"fan", "wait"} => task'[g][u].order.from = g
                    /\ task'[g][u].at = "act" => task'[g][u].plan # "none"
                    /\ \A k \in Heads :
                         Told(g, u, k)' => Told(g, u, k) /\ task'[g][u].order = task[g][u].order
  BY DEF Owned, Planned, Own
<1>1. CASE <<g, u>> # <<h, t>>
  <2>1. task'[g][u] = task[g][u]
    BY <1>1 DEF Others
  <2> QED BY <2>1 DEF OrdersInv, Owned, Planned, Own, Told
<1>2. CASE g = h /\ u = t
  <2>1. CASE task'[h][t] = Idle
    BY <1>2, <2>1, JobIsNotIdle DEF Idle, Told
  <2>2. CASE task'[h][t] # Idle
    BY <1>2, <2>2 DEF Told, Own
  <2> QED BY <2>1, <2>2
<1> QED BY <1>1, <1>2

(* A step that keeps all jobs, changes no zone but an excused one and tells *)
(* nothing new.                                                            *)
LEMMA QuietStep ==
  ASSUME AnswerInv, TypeOK', AllKept, Owned', Planned',
         op' = op, by' = by, excused \subseteq excused',
         \A k \in Heads \ excused' : want'[k] = want[k],
         \A o \in req' : \E p \in Live : Alike(o, p),
         \A g, k \in Heads, u \in Task :
           Told(g, u, k)' => Told(g, u, k) /\ task'[g][u].order = task[g][u].order
  PROVE  OrdersInv' /\ ResultInv'
<1>1. SyncInv /\ TypeOK /\ OrdersInv /\ ResultInv
  BY DEF AnswerInv, SyncInv
<1>2. \A g \in Heads : op'[g] >= op[g]
  BY <1>1 DEF TypeOK
<1>3. OrdersInv'
  BY <1>1, <1>2, KeptOrders, MeaningStays DEF OrdersInv
<1>4. \A k \in Heads, u \in Task :
        task'[k][u].at \in {"look", "act"} => Busy(k, u) /\ task'[k][u].order = task[k][u].order
  BY BusyIsKept DEF Busy
<1>5. ResultInv'
  BY <1>1, <1>2, <1>4, ResultsStay
<1> QED BY <1>3, <1>5

(* The requests there are have a meaning already. *)
LEMMA ReqIsLive ==
  ASSUME TypeOK, NEW o \in req
  PROVE  o \in Live /\ Alike(o, o)
BY DEF TypeOK, Live, Alike

(* A job's order has a meaning. *)
LEMMA JobIsLive ==
  ASSUME NEW h \in Heads, NEW t \in Task, task[h][t] \in Job
  PROVE  task[h][t].order \in Live
BY DEF Live, Job

(* sync_peer sends what it works on to another head.                      *)
LEMMA SendAnswers ==
  ASSUME AnswerInv, resting' \subseteq Heads, NEW h \in Heads, NEW t \in Task, NEW k \in Heads, Send(h, t, k)
  PROVE  OrdersInv' /\ ResultInv'
<1> DEFINE j == [task[h][t] EXCEPT !.at = "wait", !.peer = k, !.todo = task[h][t].todo \ {k}]
           order == task[h][t].order
<1>1. SyncInv /\ TypeOK /\ OrdersInv /\ task \in Tasks
  BY DEF AnswerInv, SyncInv, TypeOK, Tasks
<1>2. TypeOK' /\ AllKept
  BY <1>1, SendKeeps
<1>3. task[h][t] \in Job /\ Own(h, t)
  BY <1>1, WorkingHasJob DEF Send, OrdersInv, Owned
<1>4. task' = [task EXCEPT ![h][t] = j]
  BY DEF Send
<1>5. j \in Job /\ j.order = order /\ j.at = "wait" /\ j.result = task[h][t].result
  BY <1>3 DEF Job
<1> HIDE DEF j
<1>6. task'[h][t] = j /\ Others(h, t)
  BY <1>1, <1>4, <1>5, OneJob
<1>7. /\ Owned' /\ Planned'
      /\ \A g, n \in Heads, u \in Task :
           Told(g, u, n)' => Told(g, u, n) /\ task'[g][u].order = task[g][u].order
  BY <1>1, <1>3, <1>5, <1>6, OneJobTold
<1>8. \A o \in req' : \E p \in Live : Alike(o, p)
  <2>1. order \in Live /\ Alike([order EXCEPT !.to = k], order)
    BY <1>3, JobIsLive DEF Job, Order, Alike
  <2>2. req' \subseteq req \cup {[order EXCEPT !.to = k]}
    BY DEF Send
  <2> QED BY <1>1, <2>1, <2>2, ReqIsLive
<1>9. op' = op /\ by' = by /\ excused' = excused /\ want' = want
  BY DEF Send, histVars
<1> QED BY <1>2, <1>7, <1>8, <1>9, QuietStep

(* A timeout tells nobody that something holds.                           *)
LEMMA TimeoutAnswers ==
  ASSUME AnswerInv, resting' \subseteq Heads, NEW h \in Heads, NEW t \in Task, Timeout(h, t)
  PROVE  OrdersInv' /\ ResultInv'
<1> DEFINE k == task[h][t].peer
           j == Answered(task[h][t], k, "unreachable")
<1>1. SyncInv /\ TypeOK /\ OrdersInv /\ task \in Tasks
  BY DEF AnswerInv, SyncInv, TypeOK, Tasks
<1>2. TypeOK' /\ AllKept
  BY <1>1, TimeoutKeeps
<1>3. task[h][t] \in Job /\ Own(h, t)
  BY <1>1, WorkingHasJob DEF Timeout, OrdersInv, Owned
<1>4. task' = [task EXCEPT ![h][t] = j]
  BY DEF Timeout
<1>5. /\ j \in Job /\ j.order = task[h][t].order /\ j.at = "fan"
      /\ j.result = [task[h][t].result EXCEPT ![k] = "unreachable"]
  <2>1. \A i \in [Heads -> Result \cup {"none"}] :
          [i EXCEPT ![k] = "unreachable"] \in [Heads -> Result \cup {"none"}]
    BY DEF Result
  <2> QED BY <1>3, <2>1 DEF Job, Answered
<1> HIDE DEF j
<1>6. task'[h][t] = j /\ Others(h, t)
  BY <1>1, <1>4, <1>5, OneJob
<1>7. /\ Owned' /\ Planned'
      /\ \A g, n \in Heads, u \in Task :
           Told(g, u, n)' => Told(g, u, n) /\ task'[g][u].order = task[g][u].order
  <2>1. \A n \in Heads : j.result[n] \in {"applied", "aligned"}
                           => j.result[n] = task[h][t].result[n]
    BY <1>3, <1>5 DEF Job
  <2> QED BY <1>1, <1>3, <1>5, <1>6, <2>1, OneJobTold
<1>8. \A o \in req' : \E p \in Live : Alike(o, p)
  BY <1>1, ReqIsLive DEF Timeout
<1>9. op' = op /\ by' = by /\ excused' = excused /\ want' = want
  BY DEF Timeout, histVars
<1> QED BY <1>2, <1>7, <1>8, <1>9, QuietStep

(* A coordinator that has reported has no answers left.                   *)
LEMMA ReturnAnswers ==
  ASSUME AnswerInv, resting' \subseteq Heads, NEW h \in Heads, NEW t \in Task, Return(h, t)
  PROVE  OrdersInv' /\ ResultInv'
<1>1. SyncInv /\ TypeOK /\ OrdersInv /\ task \in Tasks
  BY DEF AnswerInv, SyncInv, TypeOK, Tasks
<1>2. TypeOK' /\ AllKept
  BY <1>1, ReturnKeeps
<1>3. task'[h][t] = Idle /\ Others(h, t)
  BY <1>1, OneJob DEF Return
<1>4. /\ Owned' /\ Planned'
      /\ \A g, n \in Heads, u \in Task :
           Told(g, u, n)' => Told(g, u, n) /\ task'[g][u].order = task[g][u].order
  BY <1>1, <1>3, OneJobTold
<1>5. \A o \in req' : \E p \in Live : Alike(o, p)
  BY <1>1, ReqIsLive DEF Return
<1>6. op' = op /\ by' = by /\ excused' = excused /\ want' = want
  BY DEF Return, histVars
<1> QED BY <1>2, <1>4, <1>5, <1>6, QuietStep

(* A reboot takes back only what makes the head excused.                  *)
LEMMA RebootAnswers ==
  ASSUME AnswerInv, resting' \subseteq Heads, NEW h \in Heads, Reboot(h)
  PROVE  OrdersInv' /\ ResultInv'
<1>1. SyncInv /\ TypeOK /\ OrdersInv /\ task \in Tasks
  BY DEF AnswerInv, SyncInv, TypeOK, Tasks
<1>2. TypeOK' /\ AllKept
  BY <1>1, RebootKeeps
<1>3. \A g \in Heads, u \in Task : task'[g][u] = task[g][u] \/ task'[g][u] = Idle
  BY <1>1 DEF Reboot, Tasks
<1>4. /\ Owned' /\ Planned'
      /\ \A g, n \in Heads, u \in Task :
           Told(g, u, n)' => Told(g, u, n) /\ task'[g][u].order = task[g][u].order
  <2>1. Idle \notin Job /\ Idle.at = "idle"
    BY JobIsNotIdle DEF Idle
  <2>2. Owned' /\ Planned'
    BY <1>1, <1>3, <2>1 DEF OrdersInv, Owned, Planned, Own
  <2> QED BY <1>3, <2>1, <2>2 DEF Told
<1>5. \A o \in req' : \E p \in Live : Alike(o, p)
  BY <1>1, ReqIsLive DEF Reboot
<1>6. op' = op /\ by' = by /\ excused \subseteq excused'
  BY DEF Reboot
<1>7. \A k \in Heads \ excused' : want'[k] = want[k]
  BY <1>1 DEF Reboot, TypeOK
<1> QED BY <1>2, <1>4, <1>5, <1>6, <1>7, QuietStep

(* Commands, the driver and the dwell.                                    *)
LEMMA RestAnswers ==
  ASSUME AnswerInv, resting' \subseteq Heads, NEW h \in Heads,
         (\E z \in Zone : Command(h, z)) \/ Follow(h) \/ DwellOver(h)
  PROVE  OrdersInv' /\ ResultInv'
<1>1. SyncInv /\ TypeOK /\ OrdersInv
  BY DEF AnswerInv, SyncInv
<1>2. TypeOK' /\ AllKept
  BY <1>1, RestKeeps
<1>3. UNCHANGED <<task, req, op, by>> /\ excused \subseteq excused'
  BY DEF Command, Follow, DwellOver, histVars
<1>4. /\ Owned' /\ Planned'
      /\ \A g, n \in Heads, u \in Task :
           Told(g, u, n)' => Told(g, u, n) /\ task'[g][u].order = task[g][u].order
  BY <1>1, <1>3 DEF OrdersInv, Owned, Planned, Own, Told
<1>5. \A o \in req' : \E p \in Live : Alike(o, p)
  BY <1>1, <1>3, ReqIsLive
<1>6. \A k \in Heads \ excused' : want'[k] = want[k]
  BY <1>1 DEF Command, Follow, DwellOver, TypeOK
<1> QED BY <1>2, <1>3, <1>4, <1>5, <1>6, QuietStep

(* A job that begins gives its number a meaning, or works on an order that *)
(* has one; it has been told nothing.                                      *)
LEMMA BeginsAnswers ==
  ASSUME AnswerInv, TypeOK', NEW h \in Heads, NEW t \in Task, Begins(h, t),
         req' \subseteq req, UNCHANGED <<want, by, excused>>,
         \A k \in Heads : task'[h][t].result[k] = "none",
         \/ Own(h, t)' /\ task'[h][t].order.by = t
         \/ ~Own(h, t)' /\ task'[h][t].order \in Live
  PROVE  OrdersInv' /\ ResultInv'
<1> DEFINE new == task'[h][t].order
<1>1. SyncInv /\ TypeOK /\ OrdersInv /\ ResultInv
  BY DEF AnswerInv, SyncInv
<1>2. \A g \in Heads, u \in Task : <<g, u>> # <<h, t>> => task'[g][u] = task[g][u]
  BY DEF Begins, Others
<1>3. /\ task'[h][t] \in Job /\ task'[h][t].at = "look" /\ new.op = op'[h] /\ op'[h] > op[h]
      /\ \A g \in Heads : g # h => op'[g] = op[g]
  BY DEF Begins
<1>4. \A g \in Heads : op[g] \in Nat /\ op'[g] \in Nat /\ op'[g] >= op[g]
  BY <1>1, <1>3 DEF TypeOK
<1>5. new \in Order /\ new.op \in Nat
  BY <1>3 DEF Job, Order
<1>6. Owned' /\ Planned'
  BY <1>1, <1>2, <1>3 DEF OrdersInv, Owned, Planned, Own
<1>7. ASSUME NEW o \in Live'
      PROVE  o \in Live \/ o = new
  <2>1. CASE o \in req'
    BY <1>1, <2>1, ReqIsLive
  <2>2. ASSUME NEW g \in Heads, NEW u \in Task, task'[g][u] \in Job, task'[g][u].order = o
        PROVE  o \in Live \/ o = new
    BY <1>2, <2>2, JobIsLive
  <2> QED BY <2>1, <2>2 DEF Live
<1>8. ASSUME NEW o \in Live'
      PROVE  OneMeaning(o)'
  <2>1. o \in Order /\ o.from \in Heads /\ o.by \in Task /\ o.op \in Nat
    BY DEF Live, Order
  <2>2. o \in Live => OneMeaning(o)
    BY <1>1 DEF OrdersInv
  <2>3. o.op <= op'[o.from]
    <3>1. CASE o \in Live
      BY <1>4, <2>1, <2>2, <3>1 DEF OneMeaning
    <3>2. CASE o = new /\ new.from = h
      BY <1>3, <1>4, <3>2
    <3> QED BY <1>7, <3>1, <3>2 DEF Own
  <2>4. ASSUME task'[o.from][o.by] \in Job, task'[o.from][o.by].order.from = o.from,
               task'[o.from][o.by].order.op = o.op
        PROVE  task'[o.from][o.by].order.target = o.target
    <3>1. CASE o.from = h /\ o.by = t
      <4>1. o \notin Live
        BY <1>3, <1>4, <2>1, <2>2, <2>4, <3>1 DEF OneMeaning
      <4> QED BY <1>7, <3>1, <4>1
    <3>2. CASE ~(o.from = h /\ o.by = t)
      <4>1. task'[o.from][o.by] = task[o.from][o.by]
        BY <1>2, <2>1, <3>2
      <4>2. o \in Live
        BY <1>7, <3>2 DEF Own
      <4> QED BY <2>2, <2>4, <4>1, <4>2 DEF OneMeaning
    <3> QED BY <3>1, <3>2
  <2> QED BY <2>3, <2>4 DEF OneMeaning
<1>9. OrdersInv'
  BY <1>6, <1>8 DEF OrdersInv
<1>10. \A k \in Heads, u \in Task :
         task'[k][u].at \in {"look", "act"} =>
           \/ Busy(k, u) /\ task'[k][u].order = task[k][u].order
           \/ task'[k][u].order.op > op[k]
  BY <1>2, <1>3 DEF Busy
<1>11. \A g, k \in Heads, u \in Task :
         Told(g, u, k)' => Told(g, u, k) /\ task'[g][u].order = task[g][u].order
  BY <1>2 DEF Told
<1>12. ResultInv'
  BY <1>1, <1>4, <1>10, <1>11, ResultsStay
<1> QED BY <1>9, <1>12

(* A coordinator takes a number nobody has used.                          *)
LEMMA StartAnswers ==
  ASSUME AnswerInv, resting' \subseteq Heads, NEW h \in Heads, NEW t \in Task, NEW target \in Target,
         NEW strat \in Strategy, Start(h, t, target, strat)
  PROVE  OrdersInv' /\ ResultInv'
<1> DEFINE order == [from |-> h, by |-> t, to |-> h, op |-> op[h] + 1,
                     target |-> target, strat |-> strat]
<1>1. SyncInv /\ TypeOK /\ task \in Tasks
  BY DEF AnswerInv, SyncInv, TypeOK, Tasks
<1>2. TypeOK' /\ Begins(h, t)
  BY <1>1, StartBegins
<1>3. task'[h][t] = Begun(order)
  BY <1>1 DEF Start, Tasks
<1>4. order.from = h /\ order.by = t
  OBVIOUS
<1> HIDE DEF order
<1>5. task'[h][t].order = order /\ \A k \in Heads : task'[h][t].result[k] = "none"
  BY <1>3 DEF Begun
<1>6. req' = req /\ UNCHANGED <<want, by, excused>>
  BY DEF Start
<1> QED BY <1>2, <1>4, <1>5, <1>6, BeginsAnswers DEF Own

(* A head begins an order that is newer, or answers that it is stale.     *)
LEMMA ServeAnswers ==
  ASSUME AnswerInv, resting' \subseteq Heads, NEW h \in Heads, NEW order \in req, Serve(h, order)
  PROVE  OrdersInv' /\ ResultInv'
<1>1. SyncInv /\ TypeOK /\ OrdersInv /\ task \in Tasks /\ "web" \in Task /\ PeersOnly
  BY DEF AnswerInv, SyncInv, TypeOK, Tasks, Task
<1>2. TypeOK'
  BY <1>1, ServeBegins
<1>3. order \in Live /\ order \in Order /\ order.from # h /\ req' \subseteq req
       /\ UNCHANGED <<want, by, excused>>
  BY <1>1, ReqIsLive DEF Serve, PeersOnly, TypeOK, histVars
<1>4. CASE /\ Newer(h, order.op)
           /\ op' = [op EXCEPT ![h] = order.op]
           /\ task' = [task EXCEPT ![h]["web"] = Begun(order)]
  <2>1. task'[h]["web"] = Begun(order) /\ Begun(order).at = "look" /\ Begun(order).order = order
        /\ \A k \in Heads : Begun(order).result[k] = "none"
    BY <1>1, <1>4 DEF Tasks, Begun
  <2>2. op'[h] > op[h]
    BY <1>1, <1>4 DEF Newer, TypeOK
  <2>3. ~AllKept
    <3>1. SUFFICES ASSUME AllKept PROVE FALSE
      OBVIOUS
    <3>2. task'[h]["web"] = task[h]["web"] /\ task[h]["web"] = Idle
      BY <1>1, <2>1, <3>1, BusyIsKept DEF Serve
    <3> QED BY <2>1, <3>2 DEF Idle
  <2>4. Begins(h, "web")
    BY <1>1, <2>3, ServeBegins
  <2> QED BY <1>1, <1>2, <1>3, <2>1, <2>4, BeginsAnswers DEF Own
<1>5. CASE Tell(h, "web", order, "stale") /\ UNCHANGED op
  <2>1. AllKept
    BY <1>1, <1>3, <1>5, TellKeeps DEF Result
  <2>2. Owned' /\ Planned'
    BY <1>1, <1>3, <1>5, TellOwned DEF Result
  <2>3. \A g, k \in Heads, u \in Task :
          Told(g, u, k)' => Told(g, u, k) /\ task'[g][u].order = task[g][u].order
    BY <1>1, <1>3, <1>5, TellTold DEF Result
  <2>4. \A o \in req' : \E p \in Live : Alike(o, p)
    BY <1>1, <1>3, ReqIsLive
  <2> QED BY <1>2, <1>3, <1>5, <2>1, <2>2, <2>3, <2>4, QuietStep
<1> QED BY <1>4, <1>5 DEF Serve

(* A zone that has nothing to do is in line with the target. *)
LEMMA NothingToDo ==
  ASSUME SyncInv, NEW h \in Heads, NEW t \in Task, PlanOf(h, t) = "none"
  PROVE  InLine(seen[h], task[h][t].order.target)
BY DEF PlanOf, Plan, InLine, Demand

(* What was said of a zone where no commands have met is what it does.     *)
LEMMA LookAnswers ==
  ASSUME AnswerInv, resting' \subseteq Heads, NEW h \in Heads, NEW t \in Task, Look(h, t)
  PROVE  OrdersInv' /\ ResultInv'
<1> DEFINE order == task[h][t].order
           plan == PlanOf(h, t)
           told == IF plan = "none" THEN "aligned" ELSE "dwell"
<1>1. /\ SyncInv /\ TypeOK /\ OrdersInv /\ ResultInv /\ task \in Tasks /\ Busy(h, t)
      /\ LaterInv
  BY DEF AnswerInv, SyncInv, TypeOK, Tasks, Look, Busy
<1>2. TypeOK'
  BY <1>1, LookComes
<1>3. task[h][t] \in Job /\ order \in Live /\ order \in Order
  BY <1>1, WorkingHasJob, JobIsLive DEF Busy, Job
<1>4. /\ UNCHANGED <<want, seen, op, by, req>> /\ excused \subseteq excused'
      /\ h \notin excused' => seen[h] = want[h] /\ \A u \in Task \ {t} : ~Busy(h, u)
  BY DEF Look, Excuse
<1>5. \A k \in Heads : op'[k] >= op[k]
  BY <1>1, <1>4 DEF TypeOK
<1>6. \A o \in req' : \E p \in Live : Alike(o, p)
  BY <1>1, <1>4, ReqIsLive
<1>7. CASE Tell(h, t, order, told)
  <2>1. told \in Result /\ (told \in {"applied", "aligned"} => plan = "none")
    BY DEF Result
  <2> HIDE DEF told
  <2>2. AllKept /\ task'[h][t].at \notin {"look", "act"}
    BY <1>1, <1>3, <1>7, <2>1, TellKeeps
  <2>3. OrdersInv'
    <3>1. Owned' /\ Planned'
      BY <1>1, <1>3, <1>7, <2>1, TellOwned
    <3> QED BY <1>1, <1>2, <1>5, <1>6, <2>2, <3>1, KeptOrders, MeaningStays DEF OrdersInv
  <2>4. \A k \in Heads, u \in Task :
          task'[k][u].at \in {"look", "act"} => Busy(k, u) /\ task'[k][u].order = task[k][u].order
    BY <2>2, BusyIsKept DEF Busy
  <2>5. ASSUME NEW g \in Heads, NEW k \in Heads, NEW u \in Task, Told(g, u, k)', k \notin excused'
        PROVE  \/ Told(g, u, k) /\ task'[g][u].order = task[g][u].order
               \/ Holds(g, u, k)'
    <3>1. CASE Told(g, u, k)
      BY <1>1, <1>3, <1>7, <2>1, <2>5, <3>1, TellTold
    <3>2. CASE ~Told(g, u, k)
      <4>1. /\ k = h /\ plan = "none"
            /\ task'[g][u].order.op = order.op /\ task'[g][u].order.target = order.target
        BY <1>1, <1>3, <1>7, <2>1, <2>5, <3>2, TellTold
      <4>2. InLine(want'[k], order.target)
        BY <1>1, <1>4, <2>5, <4>1, NothingToDo
      <4>3. order.op <= op'[k]
        BY <1>1, <1>4, <4>1 DEF LaterInv, Ranked
      <4>4. \A v \in Task : task'[k][v].at \notin {"look", "act"}
        BY <1>4, <2>2, <2>4, <2>5, <4>1
      <4> QED BY <4>1, <4>2, <4>3, <4>4 DEF Holds, Busy
    <3> QED BY <3>1, <3>2
  <2>6. ResultInv'
    BY <1>1, <1>2, <1>4, <1>5, <2>4, <2>5, ResultsStay
  <2> QED BY <2>3, <2>6
<1>8. CASE /\ plan # "none"
           /\ task' = [task EXCEPT ![h][t] = [@ EXCEPT !.at = "act", !.plan = plan]]
  <2> DEFINE j == [task[h][t] EXCEPT !.at = "act", !.plan = plan]
  <2>1. task' = [task EXCEPT ![h][t] = j]
    BY <1>8
  <2>2. plan \in {"none", "off", "flip"}
    BY DEF PlanOf, Plan
  <2>3. /\ j \in Job /\ j.at = "act" /\ j.order = order /\ j.plan # "none"
        /\ j.result = task[h][t].result
    <3> HIDE DEF plan
    <3> QED BY <1>3, <1>8, <2>2 DEF Job
  <2> HIDE DEF j, plan
  <2>4. task'[h][t] = j /\ Others(h, t)
    BY <1>1, <2>1, <2>3, OneJob
  <2>5. \A g \in Heads, u \in Task : <<g, u>> # <<h, t>> => task'[g][u] = task[g][u]
    BY <2>4 DEF Others
  <2>6. Owned' /\ Planned'
    BY <1>1, <2>3, <2>4, <2>5 DEF OrdersInv, Owned, Planned, Own
  <2>7. SameOrders
    BY <1>3, <2>3, <2>4, <2>5 DEF SameOrders
  <2>8. OrdersInv'
    BY <1>1, <1>2, <1>5, <1>6, <2>6, <2>7, MeaningStays DEF OrdersInv
  <2>9. \A k \in Heads, u \in Task :
          task'[k][u].at \in {"look", "act"} => Busy(k, u) /\ task'[k][u].order = task[k][u].order
    BY <1>1, <2>3, <2>4, <2>5 DEF Busy
  <2>10. \A g, k \in Heads, u \in Task :
           Told(g, u, k)' => Told(g, u, k) /\ task'[g][u].order = task[g][u].order
    BY <1>3, <2>3, <2>4, <2>5 DEF Told
  <2>11. ResultInv'
    BY <1>1, <1>2, <1>4, <1>5, <2>9, <2>10, ResultsStay
  <2> QED BY <2>8, <2>11
<1> QED BY <1>7, <1>8 DEF Look

(* What a plan makes of a zone is in line with the target. *)
LEMMA CommandedInLine ==
  ASSUME NEW z \in Zone, NEW plan \in {"off", "flip"}, NEW target \in Target
  PROVE  InLine(Commanded(z, plan, target), target)
<1>1. CASE plan = "off"
  BY <1>1 DEF Commanded, InLine, Demand, Zone
<1>2. CASE plan = "flip"
  <2>1. Commanded(z, plan, target) = [on |-> TRUE, mode |-> ModeOf(target)]
    BY <1>2 DEF Commanded
  <2> QED BY <2>1 DEF InLine, Demand, ModeOf, Target
<1> QED BY <1>1, <1>2

(* An act makes its answer true, and what else the head works on is later. *)
LEMMA ActAnswers ==
  ASSUME AnswerInv, resting' \subseteq Heads, NEW h \in Heads, NEW t \in Task, Act(h, t)
  PROVE  OrdersInv' /\ ResultInv'
<1> DEFINE order == task[h][t].order
<1>1. /\ SyncInv /\ TypeOK /\ OrdersInv /\ ResultInv /\ LaterInv
  BY DEF AnswerInv, SyncInv
<1>2. /\ TypeOK' /\ AllKept /\ Busy(h, t) /\ task[h][t] \in Job
      /\ task'[h][t].at \notin {"look", "act"}
      /\ by' = [by EXCEPT ![h] = [op |-> order.op, from |-> order.from]]
      /\ UNCHANGED <<op, req, excused>>
  BY <1>1, ActApplies
<1>3. order \in Live /\ order \in Order /\ order.target \in Target /\ order.op \in Nat
  BY <1>2, JobIsLive DEF Job, Order
<1>4. Tell(h, t, order, "applied") /\ task[h][t].at = "act"
       /\ want' = [want EXCEPT ![h] = Commanded(want[h], task[h][t].plan, order.target)]
  BY DEF Act, Apply
<1>5. InLine(want'[h], order.target)
  <2>1. task[h][t].plan \in {"off", "flip"} /\ want[h] \in Zone
    BY <1>1, <1>2, <1>4 DEF OrdersInv, Planned, Job, TypeOK
  <2>2. want'[h] = Commanded(want[h], task[h][t].plan, order.target)
    BY <1>1, <1>4 DEF TypeOK
  <2> HIDE DEF order
  <2> QED BY <1>3, <2>1, <2>2, CommandedInLine
<1>6. \A k \in Heads : op'[k] >= op[k]
  BY <1>1, <1>2 DEF TypeOK
<1>7. OrdersInv'
  <2>1. \A o \in req' : \E p \in Live : Alike(o, p)
    BY <1>1, <1>2, ReqIsLive
  <2>2. Owned' /\ Planned'
    BY <1>1, <1>2, <1>3, <1>4, TellOwned DEF Result
  <2> QED BY <1>1, <1>2, <1>6, <2>1, <2>2, KeptOrders, MeaningStays DEF OrdersInv
<1>8. \A k \in Heads, u \in Task :
        task'[k][u].at \in {"look", "act"} =>
          Busy(k, u) /\ task'[k][u] = task[k][u]
  BY <1>2, BusyIsKept DEF Busy
<1>9. \A k \in Heads \ excused' :
        \/ want'[k] = want[k] /\ by'[k] = by[k]
        \/ \E u \in Task : Busy(k, u) /\ by'[k].op = task[k][u].order.op
  <2> SUFFICES ASSUME NEW k \in Heads
               PROVE  \/ want'[k] = want[k] /\ by'[k] = by[k]
                      \/ \E u \in Task : Busy(k, u) /\ by'[k].op = task[k][u].order.op
    OBVIOUS
  <2>1. CASE k = h
    <3>1. by'[k].op = order.op
      BY <1>1, <1>2, <2>1 DEF TypeOK
    <3> QED BY <1>2, <2>1, <3>1
  <2>2. CASE k # h
    BY <1>1, <1>2, <1>4, <2>2 DEF TypeOK
  <2> QED BY <2>1, <2>2
<1>10. ASSUME NEW g \in Heads, NEW k \in Heads, NEW u \in Task, Told(g, u, k)', k \notin excused'
       PROVE  \/ Told(g, u, k) /\ task'[g][u].order = task[g][u].order
              \/ Holds(g, u, k)'
  <2>1. CASE Told(g, u, k)
    BY <1>1, <1>2, <1>3, <1>4, <1>10, <2>1, TellTold DEF Result
  <2>2. CASE ~Told(g, u, k)
    <3>1. /\ k = h
          /\ task'[g][u].order.op = order.op /\ task'[g][u].order.target = order.target
      BY <1>1, <1>2, <1>3, <1>4, <1>10, <2>2, TellTold DEF Result
    <3>2. order.op <= op'[k]
      BY <1>1, <1>2, <3>1 DEF LaterInv, Ranked
    <3>3. InTurn(k)
      BY <1>1, <1>2, <1>10 DEF LaterInv
    <3>4. \A v \in Task : task'[k][v].at \in {"look", "act"} => task'[k][v].order.op > order.op
      BY <1>2, <1>4, <1>8, <3>1, <3>3 DEF InTurn, Busy
    <3> QED BY <1>5, <3>1, <3>2, <3>4 DEF Holds, Busy
  <2> QED BY <2>1, <2>2
<1>11. ResultInv'
  BY <1>1, <1>2, <1>6, <1>8, <1>9, <1>10, ResultsStay
<1> QED BY <1>7, <1>11

-----------------------------------------------------------------------------
(* At first nothing is asked and nothing answered.                        *)
LEMMA InitAnswers == ASSUME Init PROVE AnswerInv
<1>1. \A h \in Heads, t \in Task : task[h][t] = Idle
  BY DEF Init
<1>2. Owned /\ Planned
  BY <1>1 DEF Owned, Planned, Idle
<1>3. Live = {}
  BY <1>1, JobIsNotIdle DEF Live, Init
<1>4. ResultInv
  BY <1>1, JobIsNotIdle DEF ResultInv, Told
<1> QED BY <1>2, <1>3, <1>4, InitSync DEF AnswerInv, OrdersInv

-----------------------------------------------------------------------------
(* The theorems                                                            *)

LEMMA SyncStep == SyncInv /\ [Next]_vars => SyncInv'
BY StepKinds, OffStep, LaterStep, PacedStep DEF SyncInv

LEMMA SyncAlways == Spec => []SyncInv
<1>1. Init => SyncInv
  BY InitSync
<1> QED BY <1>1, SyncStep, PTL DEF Spec

(* Every step keeps the answers true.                                     *)
LEMMA AnswersStep == AnswerInv /\ [Next]_vars => AnswerInv'
<1> SUFFICES ASSUME AnswerInv, [Next]_vars PROVE AnswerInv'
  OBVIOUS
<1> resting' \subseteq Heads
  BY RestingAreHeads DEF AnswerInv, SyncInv
<1>1. SyncInv'
  BY SyncStep DEF AnswerInv
<1>2. CASE UNCHANGED vars
  <2>1. UNCHANGED <<task, req, op, want, by, excused>>
    BY <1>2 DEF vars, ownVars, histVars
  <2>2. OrdersInv'
    BY <2>1 DEF AnswerInv, OrdersInv, Owned, Planned, Own, Live, OneMeaning
  <2>3. ResultInv'
    BY <2>1 DEF AnswerInv, ResultInv, Told, Holds, Busy
  <2> QED BY <1>1, <2>2, <2>3 DEF AnswerInv
<1>3. ASSUME NEW h \in Heads, User(h) \/ ServeAny(h) \/ Follow(h) \/ DwellOver(h) \/ Reboot(h)
      PROVE  OrdersInv' /\ ResultInv'
  BY <1>3, StartAnswers, ServeAnswers, RestAnswers, RebootAnswers DEF User, ServeAny
<1>4. ASSUME NEW h \in Heads, NEW t \in Task, Work(h, t)
      PROVE  OrdersInv' /\ ResultInv'
  BY <1>4, LookAnswers, ActAnswers, SendAnswers, TimeoutAnswers, ReturnAnswers DEF Work
<1> QED BY <1>1, <1>2, <1>3, <1>4 DEF Next, Other, AnswerInv

(* So they are true for ever.                                             *)
LEMMA AnswersAlways == Spec => []AnswerInv
<1>1. Init => AnswerInv
  BY InitAnswers
<1> QED BY <1>1, AnswersStep, PTL DEF Spec

(* What a coordinator has been told, the zone asks for.                   *)
LEMMA ToldReached ==
  ASSUME AnswerInv, NEW h \in Heads, NEW t \in Task, Done(h, t), NEW k \in Heads,
         task[h][t].result[k] \in {"applied", "aligned"}
  PROVE  Reached(k, task[h][t])
<1>1. task[h][t] \in Job
  BY WorkingHasJob DEF AnswerInv, SyncInv, Done
<1>2. Told(h, t, k)
  BY <1>1 DEF Told
<1> QED BY <1>2 DEF AnswerInv, ResultInv, Holds, Reached

(* A group of zones in line with one target is seen to be in order. *)
LEMMA InLineIsOk ==
  ASSUME NEW target \in Target, NEW n \in Nat, n > 1,
         NEW z \in [1 .. n -> Zone],
         \A i \in 1 .. n : InLine(z[i], target)
  PROVE  Status([i \in 1 .. n |-> Observed(z[i], target)]) = "Ok"
<1> DEFINE ms == [i \in 1 .. n |-> Observed(z[i], target)]
<1>1. ms \in Seq([state : {"Known"}, on : BOOLEAN, demand : {Demand(z[i]) : i \in 1 .. n}, active : BOOLEAN, standby : BOOLEAN])
  BY DEF Observed, Zone
<1>2. Len(ms) = n /\ DOMAIN ms = 1 .. n
  BY <1>1
<1>3. ASSUME NEW i \in 1 .. n
      PROVE  /\ Sure(ms[i]) /\ ms[i].demand \in {"Neutral", target}
             /\ ~(ms[i].standby /\ Claims(ms[i]))
  BY DEF Sure, Observed, InLine, Claims, Opposite, Target
<1> HIDE DEF ms
<1>4. ~Opposing(ms)
  BY <1>2, <1>3 DEF Opposing, Target
<1>5. ~Blocked(ms)
  BY <1>2, <1>3 DEF Blocked
<1>6. \A i \in DOMAIN ms : Sure(ms[i]) /\ ms[i].demand # "Auto"
  BY <1>2, <1>3 DEF Target
<1>7. Status(ms) = "Ok"
  BY <1>2, <1>4, <1>5, <1>6 DEF Status
<1> QED BY <1>7 DEF ms

(* The variables of the group keep their types: in particular no result,   *)
(* order or plan is ever out of its range, and an answer never reaches a   *)
(* task that has no job (Tell in handle_group_sync).                       *)
THEOREM TypeCorrect == Spec => []TypeOK
<1>1. SyncInv => TypeOK
  BY DEF SyncInv
<1> QED BY <1>1, SyncAlways, PTL

(* However many heads there are and whatever is lost, late or restarted: a *)
(* zone that is off, and has shown so with no task of its head between the *)
(* look and the act, stays off until its own user acts (plan_resolution).  *)
THEOREM NeverTurnedOn == Spec => []OffStaysOff
<1>1. SyncInv => OffStaysOff
  BY DEF SyncInv, OffInv, Off, OffStaysOff
<1> QED BY <1>1, SyncAlways, PTL

(* Peers apply in op_id order (accept_op_id): no operation replaces what a *)
(* later one has done to a zone.                                           *)
THEOREM InOrder == Spec => LaterOpStands
<1>1. SyncInv /\ [Next]_vars
        => [\A h \in Heads \ excused' : by'[h] # by[h] => by'[h].op > by[h].op]_vars
  BY LaterStep
<1> QED BY <1>1, SyncAlways, PTL DEF Spec, LaterOpStands

(* The minimum dwell (dwell_ok, mark_op) keeps the operations on one zone  *)
(* apart, whoever orders them.                                             *)
THEOREM DwellHolds == Spec => Paced
<1>1. SyncInv /\ [Next]_vars
        => [\A h \in Heads \ excused' :
              by'[h] # by[h] /\ spent.reboots = 0 => ~recent[h]]_vars
  BY PacedStep
<1> QED BY <1>1, SyncAlways, PTL DEF Spec, Paced

(* What a head answered is so when the coordinator reports (group_converge):*)
(* "applied" and "aligned" name a zone that asks for nothing but the target,*)
(* unless a later operation has been there or commands have met.           *)
THEOREM AnswersHold == Spec => []AnswersTrue
<1>1. AnswerInv => AnswersTrue
  BY ToldReached DEF AnswersTrue
<1> QED BY <1>1, AnswersAlways, PTL

(* In a group, a resolution that everybody has answered ends the conflict, *)
(* whichever head evaluates the group (evaluate_group).  A head alone is no *)
(* group: its status is Standalone.                                        *)
THEOREM ResolutionEnds ==
  ASSUME Cardinality(Heads) # 1
  PROVE  Spec => []ConflictEnds
<1>1. ASSUME AnswerInv, NEW h \in Heads, NEW t \in Task, Done(h, t), excused = {},
             \A k \in Heads : /\ task[h][t].result[k] \in {"applied", "aligned"}
                              /\ by[k].op <= task[h][t].order.op,
             NEW s \in Orders
      PROVE  Status([i \in DOMAIN s |-> Observed(want[s[i]], task[h][t].order.target)]) = "Ok"
  <2> DEFINE n == Cardinality(Heads)
             z == [i \in 1 .. n |-> want[s[i]]]
             target == task[h][t].order.target
  <2>1. TypeOK /\ task[h][t] \in Job
    BY <1>1, WorkingHasJob DEF AnswerInv, SyncInv, Done
  <2>2. target \in Target /\ task[h][t].order.op \in Nat
    BY <2>1 DEF Job, Order
  <2>3. n \in Nat /\ n > 1
    BY FS_CardinalityType, FS_EmptySet, SyncAssumption
  <2>4. s \in [1 .. n -> Heads] /\ z \in [1 .. n -> Zone]
    BY <2>1 DEF Orders, TypeOK
  <2>5. ASSUME NEW k \in Heads PROVE InLine(want[k], target)
    <3>1. Reached(k, task[h][t]) /\ by[k].op <= task[h][t].order.op /\ by[k].op \in Nat
      BY <1>1, <2>1, ToldReached DEF TypeOK
    <3> QED BY <1>1, <2>2, <3>1 DEF Reached
  <2>6. \A i \in 1 .. n : InLine(z[i], target)
    BY <2>4, <2>5
  <2>7. [i \in DOMAIN s |-> Observed(want[s[i]], target)] = [i \in 1 .. n |-> Observed(z[i], target)]
    BY <2>4
  <2> HIDE DEF n, z, target
  <2>8. Status([i \in 1 .. n |-> Observed(z[i], target)]) = "Ok"
    BY <2>2, <2>3, <2>4, <2>6, InLineIsOk
  <2> QED BY <2>7, <2>8 DEF target
<1>2. AnswerInv => ConflictEnds
  BY <1>1 DEF ConflictEnds
<1> QED BY <1>2, AnswersAlways, PTL
=============================================================================
