------------------------- MODULE FirmwareUpdateProofs -------------------------
(***************************************************************************)
(* Firmware update: proofs for every number of images and of resets.  Two  *)
(* inductive invariants, one of the pipeline in memory and one of the two  *)
(* partitions, which meet only where an upload holds the spare one.        *)
(***************************************************************************)
EXTENDS FirmwareUpdate, TLAPS

Working(a) == doing[a] \in {"connect", "load"}

(* One updater holds the claim; what is to be told is the status, of the    *)
(* updater that set it; the bar is on for an update that works, or that is  *)
(* about to tell that it no longer does.                                    *)
PipelineInv ==
  /\ doing["pull"] # "done"
  /\ \A a, b \in Updaters : Busy(a) /\ Busy(b) => a = b
  /\ busy <=> \E a \in Updaters : Busy(a)
  /\ \A a \in Updaters : untold[a] # Nothing => Busy(a) /\ untold[a] = status
  /\ status = "InProgress" <=> \E a \in Updaters : Working(a)
  /\ bar = "on" =>
       /\ stage = "up"
       /\ status = "InProgress" \/ \E a \in Updaters : untold[a] # Nothing

(* Nothing works before the network is up. *)
QuietInv ==
  stage \in {"wifi", "portal"} =>
    checker = "none" /\ \A a \in Updaters : doing[a] = "idle" /\ untold[a] = Nothing

(* What runs is confirmed, or on trial with a way back; another image is to *)
(* be started only after a confirmed one has installed it.                  *)
RollbackInv ==
  /\ flash[running] # Junk
  /\ mark[running] \in {"valid", "pending"}
  /\ mark[running] = "valid" => flash[running] \in healthy
  /\ mark[running] = "pending" =>
       boot = running /\ mark[Spare] = "valid" /\ flash[Spare] \in healthy
  /\ boot # running => mark[boot] \in {"new", "pending"}
  /\ doing["web"] = "load" => mark[running] = "valid"

FirmwareInv == FirmwareTypeOK /\ PipelineInv /\ QuietInv /\ RollbackInv

-------------------------------------------------------------------------------
(* The partitions                                                          *)

LEMMA TwoPartitions ==
  /\ \A s \in Partitions : Other(s) \in Partitions /\ Other(s) # s
  /\ \A s, r \in Partitions : s # r => s = Other(r)
BY DEF Partitions, Other

LEMMA SpareIsOther ==
  ASSUME FirmwareTypeOK
  PROVE  /\ Spare \in Partitions /\ Spare # running
         /\ \A s \in Partitions : s # running => s = Spare
BY TwoPartitions DEF Spare, FirmwareTypeOK

LEMMA FreshTypes ==
  ASSUME Fresh
  PROVE  /\ stage' = "wifi" /\ checker' = "none"
         /\ doing' = [a \in Updaters |-> "idle"]
         /\ untold' = [a \in Updaters |-> Nothing]
         /\ ~busy' /\ status' = "Idle"
BY DEF Fresh

LEMMA RebootTypes ==
  ASSUME FirmwareTypeOK, Reboot
  PROVE  /\ boot' \in Partitions /\ running' \in Partitions
         /\ mark' \in [Partitions -> {"none", "new", "pending", "valid", "aborted"}]
         /\ flash' = flash /\ healthy' = healthy
         /\ bar' \in {"off", "stale"}
<1>1. Other(boot) \in Partitions /\ Other(Other(boot)) \in Partitions
  BY TwoPartitions DEF FirmwareTypeOK
<1>2. boot' \in Partitions /\ running' \in Partitions
  BY <1>1, TwoPartitions DEF Reboot, BootLoader, FirmwareTypeOK
<1>3. mark' \in [Partitions -> {"none", "new", "pending", "valid", "aborted"}]
  BY <1>1 DEF Reboot, BootLoader, FirmwareTypeOK
<1> QED BY <1>2, <1>3 DEF Reboot, FirmwareTypeOK

(* The only writes of the partitions but for the boot loader's. *)
SpareWritten ==
  \/ Erase /\ UNCHANGED <<mark, boot, running>>
  \/ NotInstalled
  \/ \E i \in Images : Install(i)

LEMMA SpareTypes ==
  ASSUME FirmwareTypeOK, SpareWritten
  PROVE  /\ flash' \in [Partitions -> Images \cup {Junk}]
         /\ flash'[running] = flash[running]
         /\ running' = running
         /\ mark' \in [Partitions -> {"none", "new", "pending", "valid", "aborted"}]
         /\ mark'[running] = mark[running]
         /\ boot' \in Partitions
         /\ (boot' = boot /\ mark' = mark) \/ (boot' = Spare /\ mark'[Spare] = "new")
<1>1. CASE Erase /\ UNCHANGED <<mark, boot, running>>
  BY <1>1, SpareIsOther DEF Erase, FirmwareTypeOK
<1>2. CASE NotInstalled
  BY <1>2, SpareIsOther DEF NotInstalled, FirmwareTypeOK
<1>3. CASE \E i \in Images : Install(i)
  BY <1>3, SpareIsOther DEF Install, FirmwareTypeOK
<1> QED BY <1>1, <1>2, <1>3 DEF SpareWritten

-------------------------------------------------------------------------------
(* The steps.  An install of the release on offer is a start from its URL; *)
(* a restart and a reset are both a reboot.                                *)

Reboots == Reboot /\ resets' \in 0 .. MaxResets

LEMMA StepCases ==
  ASSUME FirmwareTypeOK, [FirmwareNext]_firmwareVars
  PROVE  \/ WifiUp \/ WifiFails \/ StartUpdateChecker \/ Reconnect
         \/ LocalClaim \/ LocalBegin \/ LocalEnd \/ PullBegin \/ PullConnect \/ PullEnd
         \/ CheckBegins \/ CheckEnds \/ CheckTold \/ CheckNow
         \/ \E a \in {"web", "mqtt"} : StartUrl(a)
         \/ \E a \in Updaters : Progress(a)
         \/ \E a \in Updaters : LoadFails(a)
         \/ \E a \in Updaters : Release(a)
         \/ \E a \in Updaters : OnProgress(a)
         \/ Reboots
         \/ UNCHANGED firmwareVars
<1>1. ASSUME Reset PROVE Reboots
  BY <1>1, FirmwareAssumption DEF Reset, Reboots, FirmwareTypeOK
<1>2. ASSUME NEW a \in Updaters, Restart(a) PROVE Reboots
  BY <1>2 DEF Restart, Reboots, FirmwareTypeOK
<1>3. ASSUME NEW a, InstallLatest(a) PROVE StartUrl(a)
  BY <1>3 DEF InstallLatest
<1> QED
  BY <1>1, <1>2, <1>3
  DEF FirmwareNext, AppMain, Upload, Pull, Check, Asking, Loading

LEMMA TypeStep ==
  ASSUME FirmwareTypeOK, flash[running] # Junk, [FirmwareNext]_firmwareVars
  PROVE  FirmwareTypeOK'
<1>1. CASE WifiUp
  BY <1>1 DEF WifiUp, MarkValid, FirmwareTypeOK, Status, Updaters, SpareWritten,
    flashVars, checkVars, lifeVars, workVars
<1>2. CASE WifiFails
  BY <1>2 DEF WifiFails, FirmwareTypeOK, Status, Updaters, SpareWritten, flashVars,
    checkVars, lifeVars, workVars
<1>3. CASE StartUpdateChecker
  BY <1>3 DEF StartUpdateChecker, FirmwareTypeOK, Status, Updaters, SpareWritten,
    flashVars, checkVars, lifeVars, workVars
<1>4. CASE Reconnect
  BY <1>4 DEF Reconnect, FirmwareTypeOK, Status, Updaters, SpareWritten, flashVars,
    checkVars, lifeVars, workVars
<1>5. CASE LocalClaim
  BY <1>5 DEF LocalClaim, TryClaim, Go, FirmwareTypeOK, Status, Updaters,
    SpareWritten, flashVars, checkVars, lifeVars, workVars
<1>6. CASE LocalBegin
  BY <1>6, SpareTypes DEF LocalBegin, GiveUp, Go, SetStatus, FirmwareTypeOK,
    Status, Updaters, SpareWritten, flashVars, checkVars, lifeVars, workVars
<1>7. CASE LocalEnd
  BY <1>7, SpareTypes DEF LocalEnd, GiveUp, Go, SetStatus, FirmwareTypeOK, Status,
    Updaters, SpareWritten, flashVars, checkVars, lifeVars, workVars
<1>8. CASE PullBegin
  BY <1>8 DEF PullBegin, Go, SetStatus, FirmwareTypeOK, Status, Updaters,
    SpareWritten, flashVars, checkVars, lifeVars, workVars
<1>9. CASE PullConnect
  BY <1>9 DEF PullConnect, GiveUp, Go, SetStatus, FirmwareTypeOK, Status, Updaters,
    SpareWritten, flashVars, checkVars, lifeVars, workVars
<1>10. CASE PullEnd
  BY <1>10, SpareTypes DEF PullEnd, GiveUp, Go, SetStatus, FirmwareTypeOK, Status,
    Updaters, SpareWritten, flashVars, checkVars, lifeVars, workVars
<1>11. CASE CheckBegins
  BY <1>11 DEF CheckBegins, FirmwareTypeOK, Status, Updaters, SpareWritten,
    flashVars, checkVars, lifeVars, workVars
<1>12. CASE CheckEnds
  BY <1>12 DEF CheckEnds, FirmwareTypeOK, Status, Updaters, SpareWritten,
    flashVars, checkVars, lifeVars, workVars
<1>13. CASE CheckTold
  BY <1>13 DEF CheckTold, FirmwareTypeOK, Status, Updaters, SpareWritten,
    flashVars, checkVars, lifeVars, workVars
<1>14. CASE CheckNow
  BY <1>14 DEF CheckNow, FirmwareTypeOK, Status, Updaters, SpareWritten, flashVars,
    checkVars, lifeVars, workVars
<1>15. CASE \E a \in {"web", "mqtt"} : StartUrl(a)
  BY <1>15 DEF StartUrl, TryClaim, GiveUp, Go, SetStatus, FirmwareTypeOK, Status,
    Updaters, SpareWritten, flashVars, checkVars, lifeVars, workVars
<1>16. CASE \E a \in Updaters : Progress(a)
  BY <1>16, SpareTypes DEF Progress, Go, SetStatus, FirmwareTypeOK, Status,
    Updaters, SpareWritten, flashVars, checkVars, lifeVars, workVars
<1>17. CASE \E a \in Updaters : LoadFails(a)
  BY <1>17 DEF LoadFails, GiveUp, Go, SetStatus, FirmwareTypeOK, Status, Updaters,
    SpareWritten, flashVars, checkVars, lifeVars, workVars
<1>18. CASE \E a \in Updaters : Release(a)
  <2>1. PICK a \in Updaters : Release(a)
    BY <1>18
  <2>2. PICK where \in {"reboot", "idle"} : doing' = [doing EXCEPT ![a] = where]
    BY <2>1 DEF Release, Go
  <2> QED
    BY <2>1, <2>2 DEF Release, FirmwareTypeOK, flashVars, checkVars, lifeVars
<1>19. CASE \E a \in Updaters : OnProgress(a)
  BY <1>19 DEF OnProgress, Shown, FirmwareTypeOK, Status, Updaters, SpareWritten,
    flashVars, checkVars, lifeVars, workVars
<1>20. CASE Reboots
  BY <1>20, RebootTypes, FreshTypes DEF Reboots, Reboot, Fresh, FirmwareTypeOK, Status, Updaters
<1>21. CASE UNCHANGED firmwareVars
  BY <1>21 DEF firmwareVars, flashVars, checkVars, lifeVars, workVars, FirmwareTypeOK
<1> QED
  BY StepCases, <1>1, <1>2, <1>3, <1>4, <1>5, <1>6, <1>7, <1>8, <1>9, <1>10, <1>11,
     <1>12, <1>13, <1>14, <1>15, <1>16, <1>17, <1>18, <1>19, <1>20, <1>21

LEMMA PipelineStep ==
  ASSUME FirmwareTypeOK, PipelineInv, QuietInv, [FirmwareNext]_firmwareVars
  PROVE  PipelineInv' /\ QuietInv'
<1>1. CASE WifiUp
  BY <1>1 DEF WifiUp, MarkValid, FirmwareTypeOK, PipelineInv, QuietInv, Working,
    Busy, Ready, Free, Served, Nothing, Status, Updaters, flashVars, checkVars,
    lifeVars, workVars
<1>2. CASE WifiFails
  BY <1>2 DEF WifiFails, FirmwareTypeOK, PipelineInv, QuietInv, Working, Busy,
    Ready, Free, Served, Nothing, Status, Updaters, flashVars, checkVars, lifeVars,
    workVars
<1>3. CASE StartUpdateChecker
  BY <1>3 DEF StartUpdateChecker, FirmwareTypeOK, PipelineInv, QuietInv, Working,
    Busy, Ready, Free, Served, Nothing, Status, Updaters, flashVars, checkVars,
    lifeVars, workVars
<1>4. CASE Reconnect
  BY <1>4 DEF Reconnect, FirmwareTypeOK, PipelineInv, QuietInv, Working, Busy,
    Ready, Free, Served, Nothing, Status, Updaters, flashVars, checkVars, lifeVars,
    workVars
<1>5. CASE LocalClaim
  BY <1>5 DEF LocalClaim, TryClaim, Go, FirmwareTypeOK, PipelineInv, QuietInv,
    Working, Busy, Ready, Free, Served, Nothing, Status, Updaters, flashVars,
    checkVars, lifeVars, workVars
<1>6. CASE LocalBegin
  BY <1>6 DEF LocalBegin, GiveUp, Go, SetStatus, FirmwareTypeOK, PipelineInv,
    QuietInv, Working, Busy, Ready, Free, Served, Nothing, Status, Updaters,
    flashVars, checkVars, lifeVars, workVars
<1>7. CASE LocalEnd
  BY <1>7 DEF LocalEnd, GiveUp, Go, SetStatus, FirmwareTypeOK, PipelineInv,
    QuietInv, Working, Busy, Ready, Free, Served, Nothing, Status, Updaters,
    flashVars, checkVars, lifeVars, workVars
<1>8. CASE PullBegin
  BY <1>8 DEF PullBegin, Go, SetStatus, FirmwareTypeOK, PipelineInv, QuietInv,
    Working, Busy, Ready, Free, Served, Nothing, Status, Updaters, flashVars,
    checkVars, lifeVars, workVars
<1>9. CASE PullConnect
  BY <1>9 DEF PullConnect, GiveUp, Go, SetStatus, FirmwareTypeOK, PipelineInv,
    QuietInv, Working, Busy, Ready, Free, Served, Nothing, Status, Updaters,
    flashVars, checkVars, lifeVars, workVars
<1>10. CASE PullEnd
  BY <1>10 DEF PullEnd, GiveUp, Go, SetStatus, FirmwareTypeOK, PipelineInv,
    QuietInv, Working, Busy, Ready, Free, Served, Nothing, Status, Updaters,
    flashVars, checkVars, lifeVars, workVars
<1>11. CASE CheckBegins
  BY <1>11 DEF CheckBegins, FirmwareTypeOK, PipelineInv, QuietInv, Working, Busy,
    Ready, Free, Served, Nothing, Status, Updaters, flashVars, checkVars, lifeVars,
    workVars
<1>12. CASE CheckEnds
  BY <1>12 DEF CheckEnds, FirmwareTypeOK, PipelineInv, QuietInv, Working, Busy,
    Ready, Free, Served, Nothing, Status, Updaters, flashVars, checkVars, lifeVars,
    workVars
<1>13. CASE CheckTold
  BY <1>13 DEF CheckTold, FirmwareTypeOK, PipelineInv, QuietInv, Working, Busy,
    Ready, Free, Served, Nothing, Status, Updaters, flashVars, checkVars, lifeVars,
    workVars
<1>14. CASE CheckNow
  BY <1>14 DEF CheckNow, FirmwareTypeOK, PipelineInv, QuietInv, Working, Busy,
    Ready, Free, Served, Nothing, Status, Updaters, flashVars, checkVars, lifeVars,
    workVars
<1>15. CASE \E a \in {"web", "mqtt"} : StartUrl(a)
  BY <1>15 DEF StartUrl, TryClaim, GiveUp, Go, SetStatus, FirmwareTypeOK,
    PipelineInv, QuietInv, Working, Busy, Ready, Free, Served, Nothing, Status,
    Updaters, flashVars, checkVars, lifeVars, workVars
<1>16. CASE \E a \in Updaters : Progress(a)
  BY <1>16 DEF Progress, Go, SetStatus, FirmwareTypeOK, PipelineInv, QuietInv,
    Working, Busy, Ready, Free, Served, Nothing, Status, Updaters, flashVars,
    checkVars, lifeVars, workVars
<1>17. CASE \E a \in Updaters : LoadFails(a)
  BY <1>17 DEF LoadFails, GiveUp, Go, SetStatus, FirmwareTypeOK, PipelineInv,
    QuietInv, Working, Busy, Ready, Free, Served, Nothing, Status, Updaters,
    flashVars, checkVars, lifeVars, workVars
<1>18. CASE \E a \in Updaters : Release(a)
  BY <1>18 DEF Release, Go, FirmwareTypeOK, PipelineInv, QuietInv, Working, Busy,
    Ready, Free, Served, Nothing, Status, Updaters, flashVars, checkVars, lifeVars,
    workVars
<1>19. CASE \E a \in Updaters : OnProgress(a)
  BY <1>19 DEF OnProgress, Shown, FirmwareTypeOK, PipelineInv, QuietInv, Working,
    Busy, Ready, Free, Served, Nothing, Status, Updaters, flashVars, checkVars,
    lifeVars, workVars
<1>20. CASE Reboots
  BY <1>20, RebootTypes, FreshTypes
  DEF Reboots, Reboot, PipelineInv, QuietInv, Working, Busy, Nothing, Updaters
<1>21. CASE UNCHANGED firmwareVars
  BY <1>21 DEF firmwareVars, flashVars, checkVars, lifeVars, workVars,
       PipelineInv, QuietInv, Working, Busy
<1> QED
  BY StepCases, <1>1, <1>2, <1>3, <1>4, <1>5, <1>6, <1>7, <1>8, <1>9, <1>10, <1>11,
     <1>12, <1>13, <1>14, <1>15, <1>16, <1>17, <1>18, <1>19, <1>20, <1>21

LEMMA RollbackReboot ==
  ASSUME FirmwareTypeOK, RollbackInv, Reboots
  PROVE  RollbackInv' /\ (flash[running] \notin healthy => flash'[running'] \in healthy)
<1> DEFINE given == [mark EXCEPT ![boot] = "aborted"]
<1>1. /\ flash' = flash /\ healthy' = healthy
      /\ \A a \in Updaters : doing'[a] = "idle"
  BY DEF Reboots, Reboot, Fresh
<1>2. ASSUME NEW r \in Partitions, running' = r, boot' = r, mark'[r] = "valid",
             flash[r] \in healthy
      PROVE  RollbackInv' /\ flash'[running'] \in healthy
  BY <1>1, <1>2 DEF RollbackInv, FirmwareTypeOK, Updaters, Images, Junk
<1>3. boot \in Partitions /\ Other(boot) \in Partitions /\ Other(boot) # boot
  BY TwoPartitions DEF FirmwareTypeOK
<1>4. CASE mark[boot] = "pending" /\ boot = running
  <2>1. /\ boot' = Spare /\ running' = Spare /\ mark'[Spare] = "valid"
        /\ flash[Spare] \in healthy /\ Spare \in Partitions
    BY <1>3, <1>4 DEF Reboots, Reboot, BootLoader, RollbackInv, FirmwareTypeOK, Spare,
                      Images, Junk
  <2> QED BY <2>1, <1>2
<1>5. CASE mark[boot] = "pending" /\ boot # running
  <2>1. running = Other(boot) /\ mark[running] = "valid"
    BY <1>5, TwoPartitions DEF RollbackInv, FirmwareTypeOK
  <2>2. boot' = running /\ running' = running /\ mark'[running] = "valid"
    BY <1>3, <1>5, <2>1 DEF Reboots, Reboot, BootLoader, RollbackInv, FirmwareTypeOK
  <2> QED BY <2>1, <2>2, <1>2 DEF RollbackInv, FirmwareTypeOK
<1>6. CASE mark[boot] # "pending" /\ boot = running
  <2>1. boot' = running /\ running' = running /\ mark' = mark /\ mark[running] = "valid"
    BY <1>6 DEF Reboots, Reboot, BootLoader, RollbackInv
  <2> QED BY <2>1, <1>2 DEF RollbackInv, FirmwareTypeOK
<1>7. CASE mark[boot] # "pending" /\ boot # running
  <2>1. /\ running = Other(boot) /\ mark[running] = "valid" /\ flash[running] \in healthy
        /\ mark[boot] = "new"
    BY <1>7, TwoPartitions DEF RollbackInv, FirmwareTypeOK
  <2>2. /\ boot' = boot /\ mark' = [mark EXCEPT ![boot] = "pending"]
        /\ running' = IF flash[boot] # Junk THEN boot ELSE Other(boot)
    BY <1>7, <2>1 DEF Reboots, Reboot, BootLoader
  <2>3. mark'[boot] = "pending" /\ mark'[running] = "valid"
    BY <2>1, <2>2, <1>3 DEF FirmwareTypeOK
  <2>4. CASE flash[boot] # Junk
    <3>1. running' = boot /\ Spare' = running
      BY <2>1, <2>2, <2>4 DEF Spare
    <3> QED BY <3>1, <2>1, <2>2, <2>3, <2>4, <1>1 DEF RollbackInv, Updaters
  <2>5. CASE flash[boot] = Junk
    <3>1. running' = running
      BY <2>1, <2>2, <2>5
    <3> QED BY <3>1, <2>1, <2>2, <2>3, <1>1 DEF RollbackInv, Updaters
  <2> QED BY <2>4, <2>5
<1> QED BY <1>4, <1>5, <1>6, <1>7

(* A step that leaves the partitions alone. *)
LEMMA RollbackKept ==
  ASSUME RollbackInv, UNCHANGED <<flash, mark, boot, running, healthy>>,
         doing'["web"] = "load" => doing["web"] = "load"
  PROVE  RollbackInv'
BY DEF RollbackInv, Spare

(* A write of the spare one, when what runs is not itself on trial. *)
LEMMA RollbackWritten ==
  ASSUME FirmwareTypeOK, RollbackInv, SpareWritten, mark[running] # "pending",
         healthy' = healthy
  PROVE  RollbackInv'
BY SpareTypes, SpareIsOther DEF RollbackInv, FirmwareTypeOK

LEMMA RollbackStep ==
  ASSUME FirmwareTypeOK, PipelineInv, QuietInv, RollbackInv, [FirmwareNext]_firmwareVars
  PROVE  /\ RollbackInv'
         /\ \/ stage' # "wifi" \/ UNCHANGED firmwareVars
            \/ flash[running] \in healthy \/ flash'[running'] \in healthy
<1>1. CASE WifiUp
  <2>1. \/ mark' = mark
        \/ mark[running] = "pending" /\ mark' = [mark EXCEPT ![running] = "valid"]
    BY <1>1 DEF WifiUp, MarkValid
  <2>2. /\ flash' = flash /\ boot' = boot /\ running' = running /\ doing' = doing
        /\ healthy' = healthy \cup {flash[running]} /\ stage' = "early"
    BY <1>1 DEF WifiUp, workVars
  <2> QED
    BY <2>1, <2>2, SpareIsOther DEF RollbackInv, FirmwareTypeOK, Spare
<1>2. CASE WifiFails
  BY <1>2, RollbackKept
  DEF WifiFails, FirmwareTypeOK, QuietInv, Served, Ready, Nothing, Updaters,
      flashVars, lifeVars, checkVars, workVars
<1>3. CASE StartUpdateChecker
  BY <1>3, RollbackKept
  DEF StartUpdateChecker, FirmwareTypeOK, QuietInv, Served, Ready, Nothing, Updaters,
      flashVars, lifeVars, checkVars, workVars
<1>4. CASE Reconnect
  BY <1>4, RollbackKept
  DEF Reconnect, FirmwareTypeOK, QuietInv, Served, Ready, Nothing, Updaters,
      flashVars, lifeVars, checkVars, workVars
<1>5. CASE LocalClaim
  BY <1>5, RollbackKept
  DEF LocalClaim, TryClaim, Go, FirmwareTypeOK, QuietInv, Served, Ready, Nothing, Updaters,
      flashVars, lifeVars, checkVars, workVars
<1>6. CASE LocalBegin
  <2>1. healthy' = healthy /\ stage' = stage
    BY <1>6 DEF LocalBegin, lifeVars
  <2>2. stage \notin {"wifi", "portal"}
    BY <1>6 DEF LocalBegin, QuietInv, Updaters
  <2>3. \/ SpareWritten /\ mark[running] # "pending"
        \/ UNCHANGED <<flash, mark, boot, running>> /\ doing'["web"] # "load"
    BY <1>6 DEF LocalBegin, SpareWritten, BeginAllowed, RollbackInv, GiveUp, Go, FirmwareTypeOK,
                Updaters, flashVars
  <2> QED BY <2>1, <2>2, <2>3, RollbackWritten, RollbackKept
<1>7. CASE LocalEnd
  <2>1. healthy' = healthy /\ stage' = stage
    BY <1>7 DEF LocalEnd, lifeVars
  <2>2. stage \notin {"wifi", "portal"}
    BY <1>7 DEF LocalEnd, QuietInv, Updaters
  <2>3. \/ SpareWritten /\ mark[running] # "pending"
        \/ UNCHANGED <<flash, mark, boot, running>> /\ doing'["web"] # "load"
    BY <1>7 DEF LocalEnd, SpareWritten, BeginAllowed, RollbackInv, GiveUp, Go, FirmwareTypeOK,
                Updaters, flashVars
  <2> QED BY <2>1, <2>2, <2>3, RollbackWritten, RollbackKept
<1>8. CASE PullBegin
  BY <1>8, RollbackKept
  DEF PullBegin, Go, SetStatus, FirmwareTypeOK, QuietInv, Served, Ready, Nothing, Updaters,
      flashVars, lifeVars, checkVars, workVars
<1>9. CASE PullConnect
  BY <1>9, RollbackKept
  DEF PullConnect, Go, GiveUp, SetStatus, FirmwareTypeOK, QuietInv, Served, Ready, Nothing, Updaters,
      flashVars, lifeVars, checkVars, workVars
<1>10. CASE PullEnd
  <2>1. healthy' = healthy /\ stage' = stage
    BY <1>10 DEF PullEnd, lifeVars
  <2>2. stage \notin {"wifi", "portal"}
    BY <1>10 DEF PullEnd, QuietInv, Updaters
  <2>3. \/ SpareWritten /\ mark[running] # "pending"
        \/ UNCHANGED <<flash, mark, boot, running>> /\ doing'["web"] = doing["web"]
    BY <1>10 DEF PullEnd, SpareWritten, BeginAllowed, RollbackInv, GiveUp, Go, FirmwareTypeOK,
                Updaters, flashVars
  <2> QED BY <2>1, <2>2, <2>3, RollbackWritten, RollbackKept
<1>11. CASE CheckBegins
  BY <1>11, RollbackKept
  DEF CheckBegins, FirmwareTypeOK, QuietInv, Served, Ready, Nothing, Updaters,
      flashVars, lifeVars, checkVars, workVars
<1>12. CASE CheckEnds
  BY <1>12, RollbackKept
  DEF CheckEnds, FirmwareTypeOK, QuietInv, Served, Ready, Nothing, Updaters,
      flashVars, lifeVars, checkVars, workVars
<1>13. CASE CheckTold
  BY <1>13, RollbackKept
  DEF CheckTold, FirmwareTypeOK, QuietInv, Served, Ready, Nothing, Updaters,
      flashVars, lifeVars, checkVars, workVars
<1>14. CASE CheckNow
  BY <1>14, RollbackKept
  DEF CheckNow, FirmwareTypeOK, QuietInv, Served, Ready, Nothing, Updaters,
      flashVars, lifeVars, checkVars, workVars
<1>15. CASE \E a \in {"web", "mqtt"} : StartUrl(a)
  BY <1>15, RollbackKept
  DEF StartUrl, TryClaim, GiveUp, Go, FirmwareTypeOK, QuietInv, Served, Ready, Nothing, Updaters,
      flashVars, lifeVars, checkVars, workVars
<1>16. CASE \E a \in Updaters : Progress(a)
  <2>1. healthy' = healthy /\ stage' = stage /\ SpareWritten /\ mark[running] # "pending"
    BY <1>16 DEF Progress, lifeVars, SpareWritten, BeginAllowed
  <2>2. stage \notin {"wifi", "portal"}
    BY <1>16 DEF Progress, QuietInv
  <2> QED BY <2>1, <2>2, RollbackWritten
<1>17. CASE \E a \in Updaters : LoadFails(a)
  BY <1>17, RollbackKept
  DEF LoadFails, GiveUp, Go, FirmwareTypeOK, QuietInv, Served, Ready, Nothing, Updaters,
      flashVars, lifeVars, checkVars, workVars
<1>18. CASE \E a \in Updaters : Release(a)
  <2>1. PICK a \in Updaters : Release(a)
    BY <1>18
  <2>2. PICK where \in {"reboot", "idle"} : doing' = [doing EXCEPT ![a] = where]
    BY <2>1 DEF Release, Go
  <2>3. UNCHANGED <<flash, mark, boot, running, healthy, stage>>
    BY <2>1 DEF Release, flashVars, lifeVars
  <2>4. doing'["web"] = "load" => doing["web"] = "load"
    BY <2>2 DEF FirmwareTypeOK, Updaters
  <2>5. stage # "wifi"
    BY <2>1 DEF Release, QuietInv
  <2> QED BY <2>3, <2>4, <2>5, RollbackKept
<1>19. CASE \E a \in Updaters : OnProgress(a)
  BY <1>19, RollbackKept
  DEF OnProgress, FirmwareTypeOK, QuietInv, Served, Ready, Nothing, Updaters,
      flashVars, lifeVars, checkVars, workVars
<1>20. CASE Reboots
  BY <1>20, RollbackReboot
<1>21. CASE UNCHANGED firmwareVars
  BY <1>21, RollbackKept
  DEF firmwareVars, flashVars, lifeVars, workVars, RollbackInv
<1> QED
  BY StepCases, <1>1, <1>2, <1>3, <1>4, <1>5, <1>6, <1>7, <1>8, <1>9, <1>10, <1>11,
     <1>12, <1>13, <1>14, <1>15, <1>16, <1>17, <1>18, <1>19, <1>20, <1>21

-------------------------------------------------------------------------------
(* The theorems                                                            *)

LEMMA FirmwareStart == FirmwareInit => FirmwareInv
<1> SUFFICES ASSUME FirmwareInit PROVE FirmwareInv
  OBVIOUS
<1>1. FirmwareTypeOK
  <2>1. 1 \in Images
    BY FirmwareAssumption DEF Images
  <2>2. flash \in [Partitions -> Images \cup {Junk}] /\ healthy \subseteq Images
    BY <2>1 DEF FirmwareInit
  <2>3. mark \in [Partitions -> {"none", "new", "pending", "valid", "aborted"}]
    BY DEF FirmwareInit
  <2>4. resets \in 0 .. MaxResets
    BY FirmwareAssumption DEF FirmwareInit
  <2> QED
    BY <2>2, <2>3, <2>4 DEF FirmwareInit, FirmwareTypeOK, Partitions, Status
<1>2. PipelineInv /\ QuietInv
  BY DEF FirmwareInit, PipelineInv, QuietInv, Working, Busy, Updaters, Nothing
<1>3. RollbackInv
  BY DEF FirmwareInit, RollbackInv, Partitions, Junk, Updaters
<1> QED BY <1>1, <1>2, <1>3 DEF FirmwareInv

LEMMA FirmwareStep == FirmwareInv /\ [FirmwareNext]_firmwareVars => FirmwareInv'
<1> SUFFICES ASSUME FirmwareInv, [FirmwareNext]_firmwareVars PROVE FirmwareInv'
  OBVIOUS
<1>1. FirmwareTypeOK'
  BY TypeStep DEF FirmwareInv, RollbackInv
<1>2. PipelineInv' /\ QuietInv'
  BY PipelineStep DEF FirmwareInv
<1>3. RollbackInv'
  BY RollbackStep DEF FirmwareInv
<1> QED BY <1>1, <1>2, <1>3 DEF FirmwareInv

LEMMA FirmwareAlways == FirmwareSpec => []FirmwareInv
BY FirmwareStart, FirmwareStep, PTL DEF FirmwareSpec

(* Every variable of the update keeps its type. *)
THEOREM FirmwareTypeCorrect == FirmwareSpec => []FirmwareTypeOK
<1>1. FirmwareInv => FirmwareTypeOK
  BY DEF FirmwareInv
<1> QED BY <1>1, FirmwareAlways, PTL

(* There is always a way back: the slot that runs is whole, and an image on *)
(* trial has a confirmed one beside it, whatever is uploaded, downloaded,   *)
(* refused or torn off by a reset, and although ota::mark_valid() may fail. *)
THEOREM WayBackAlways == FirmwareSpec => []WayBack
<1>1. FirmwareInv => WayBack
  BY DEF FirmwareInv, RollbackInv, WayBack
<1> QED BY <1>1, FirmwareAlways, PTL

(* An image that never reached the network is given up at the next reset,   *)
(* for one that has.                                                        *)
THEOREM RolledBack == FirmwareSpec => RollsBack
<1>1. FirmwareInv /\ [FirmwareNext]_firmwareVars =>
        [stage' = "wifi" /\ flash[running] \notin healthy =>
           flash'[running'] \in healthy]_firmwareVars
  <2> SUFFICES ASSUME FirmwareInv, FirmwareNext, stage' = "wifi",
                      flash[running] \notin healthy
               PROVE  flash'[running'] \in healthy \/ UNCHANGED firmwareVars
    OBVIOUS
  <2> QED BY RollbackStep DEF FirmwareInv
<1> QED BY <1>1, FirmwareAlways, PTL DEF FirmwareSpec, RollsBack

(* What is shown of an update, by the web page and by the bar in Home       *)
(* Assistant, is true of the claim and of the updaters.                     *)
THEOREM BarTruthful == FirmwareSpec => []ShownTruthfully
<1>1. FirmwareInv => ShownTruthfully
  <2> SUFFICES ASSUME FirmwareInv PROVE ShownTruthfully
    OBVIOUS
  <2>1. status = "InProgress" => busy
    BY DEF FirmwareInv, PipelineInv, Working, Busy
  <2>2. \A a \in Updaters : doing[a] = "load" => status = "InProgress"
    BY DEF FirmwareInv, PipelineInv, Working
  <2>3. bar = "on" /\ (\A a \in Updaters : Ready(a)) => status = "InProgress"
    BY DEF FirmwareInv, PipelineInv, Ready
  <2> QED BY <2>1, <2>2, <2>3 DEF ShownTruthfully
<1> QED BY <1>1, FirmwareAlways, PTL

(* The updater that holds the claim is the one the pipeline is of. *)
AtWork == {a \in Updaters : Busy(a)}

(* What a step does to the claim, told from who is at work on either side.  *)
LEMMA ClaimMoves ==
  ASSUME FirmwareInv, FirmwareInv', NEW a \in Updaters
  PROVE  /\ ~busy /\ Busy(a)' /\ UNCHANGED <<flash, running>> => Pipeline!Take(a)
         /\ Busy(a) /\ Busy(a)' => Pipeline!Write(a)
         /\ Busy(a) /\ ~busy' /\ UNCHANGED <<flash, running>> => Pipeline!Give(a)
<1>1. FirmwareTypeOK /\ PipelineInv /\ FirmwareTypeOK' /\ PipelineInv'
  BY DEF FirmwareInv
<1>2. Busy(a) => AtWork = {a}
  BY <1>1 DEF PipelineInv, AtWork
<1>3. Busy(a)' => AtWork' = {a}
  BY <1>1 DEF PipelineInv, AtWork
<1>4. (~busy => AtWork = {}) /\ (~busy' => AtWork' = {})
  BY <1>1 DEF PipelineInv, AtWork
<1>5. flash'[Spare'] \in Images \cup {Junk}
  <2>1. Spare' \in Partitions
    BY <1>1, TwoPartitions DEF FirmwareTypeOK, Spare
  <2> QED BY <2>1, <1>1 DEF FirmwareTypeOK
<1>6. UNCHANGED <<flash, running>> => (flash[Spare])' = flash[Spare]
  BY DEF Spare
<1> QED
  BY <1>2, <1>3, <1>4, <1>5, <1>6
  DEF Pipeline!Take, Pipeline!Write, Pipeline!Give, AtWork

LEMMA ClaimKept ==
  ASSUME UNCHANGED <<flash, running, doing>>
  PROVE  UNCHANGED Pipeline!claimVars
BY DEF Pipeline!claimVars, Busy, Spare

LEMMA ClaimStep ==
  ASSUME FirmwareInv, FirmwareInv', [FirmwareNext]_firmwareVars
  PROVE  Pipeline!Next \/ UNCHANGED Pipeline!claimVars
<1> DEFINE Moved(a) == \/ ~busy /\ Busy(a)' /\ UNCHANGED <<flash, running>>
                       \/ Busy(a) /\ Busy(a)'
                       \/ Busy(a) /\ ~busy' /\ UNCHANGED <<flash, running>>
<1>0. FirmwareTypeOK /\ PipelineInv /\ RollbackInv
  BY DEF FirmwareInv
<1>m. ASSUME NEW a \in Updaters, Moved(a) PROVE Pipeline!Next
  BY <1>m, ClaimMoves DEF Pipeline!Next
<1> HIDE DEF Moved
<1>1. CASE WifiUp
  BY <1>1, ClaimKept DEF WifiUp, flashVars, workVars
<1>2. CASE WifiFails
  BY <1>2, ClaimKept DEF WifiFails, flashVars, workVars
<1>3. CASE StartUpdateChecker
  BY <1>3, ClaimKept DEF StartUpdateChecker, flashVars, workVars
<1>4. CASE Reconnect
  BY <1>4, ClaimKept DEF Reconnect, flashVars, workVars
<1>5. CASE LocalClaim
  <2>1. "web" \in Updaters /\ Moved("web")
    BY <1>5, <1>0 DEF Moved, LocalClaim, TryClaim, Go, Busy, Updaters, FirmwareTypeOK, flashVars
  <2> QED BY <2>1, <1>m
<1>6. CASE LocalBegin
  <2>1. "web" \in Updaters /\ Moved("web")
    BY <1>6, <1>0 DEF Moved, LocalBegin, Go, GiveUp, Busy, Updaters, FirmwareTypeOK, flashVars
  <2> QED BY <2>1, <1>m
<1>7. CASE LocalEnd
  <2>1. "web" \in Updaters /\ Moved("web")
    BY <1>7, <1>0 DEF Moved, LocalEnd, Go, GiveUp, Busy, Updaters, FirmwareTypeOK, flashVars
  <2> QED BY <2>1, <1>m
<1>8. CASE PullBegin
  <2>1. "pull" \in Updaters /\ Moved("pull")
    BY <1>8, <1>0 DEF Moved, PullBegin, Go, Busy, Updaters, FirmwareTypeOK, flashVars
  <2> QED BY <2>1, <1>m
<1>9. CASE PullConnect
  <2>1. "pull" \in Updaters /\ Moved("pull")
    BY <1>9, <1>0 DEF Moved, PullConnect, Go, GiveUp, Busy, Updaters, FirmwareTypeOK, flashVars
  <2> QED BY <2>1, <1>m
<1>10. CASE PullEnd
  <2>1. "pull" \in Updaters /\ Moved("pull")
    BY <1>10, <1>0 DEF Moved, PullEnd, Go, GiveUp, Busy, Updaters, FirmwareTypeOK, flashVars
  <2> QED BY <2>1, <1>m
<1>11. CASE CheckBegins
  BY <1>11, ClaimKept DEF CheckBegins, flashVars, workVars
<1>12. CASE CheckEnds
  BY <1>12, ClaimKept DEF CheckEnds, flashVars, workVars
<1>13. CASE CheckTold
  BY <1>13, ClaimKept DEF CheckTold, flashVars, workVars
<1>14. CASE CheckNow
  BY <1>14, ClaimKept DEF CheckNow, flashVars, workVars
<1>15. CASE \E a \in {"web", "mqtt"} : StartUrl(a)
  <2>1. PICK a \in {"web", "mqtt"} : StartUrl(a)
    BY <1>15
  <2>2. a \in Updaters /\ "pull" \in Updaters /\ (Moved(a) \/ Moved("pull"))
    BY <2>1, <1>0 DEF Moved, StartUrl, TryClaim, Go, GiveUp, Busy, Updaters, FirmwareTypeOK,
                flashVars
  <2> QED BY <2>2, <1>m
<1>16. CASE \E a \in Updaters : Progress(a)
  <2>1. PICK a \in Updaters : Progress(a)
    BY <1>16
  <2>2. Moved(a)
    BY <2>1, <1>0 DEF Moved, Progress, Go, GiveUp, Busy, FirmwareTypeOK
  <2> QED BY <2>2, <1>m
<1>17. CASE \E a \in Updaters : LoadFails(a)
  <2>1. PICK a \in Updaters : LoadFails(a)
    BY <1>17
  <2>2. Moved(a)
    BY <2>1, <1>0 DEF Moved, LoadFails, Go, GiveUp, Busy, FirmwareTypeOK
  <2> QED BY <2>2, <1>m
<1>18. CASE \E a \in Updaters : Release(a)
  <2>1. PICK a \in Updaters : Release(a)
    BY <1>18
  <2>2. Moved(a)
    BY <2>1, <1>0 DEF Moved, Release, Busy, flashVars
  <2> QED BY <2>2, <1>m
<1>19. CASE \E a \in Updaters : OnProgress(a)
  BY <1>19, ClaimKept DEF OnProgress, flashVars
<1>20. CASE Reboots
  <2>1. \A a \in Updaters : ~Busy(a)'
    BY <1>20 DEF Reboots, Reboot, Fresh, Busy
  <2>2. Spare' \in Partitions /\ FirmwareTypeOK'
    BY TwoPartitions DEF FirmwareInv, FirmwareTypeOK, Spare
  <2>3. Pipeline!PowerCycle
    BY <2>1, <2>2 DEF Pipeline!PowerCycle, FirmwareTypeOK
  <2> QED BY <2>3 DEF Pipeline!Next
<1>21. CASE UNCHANGED firmwareVars
  BY <1>21, ClaimKept DEF firmwareVars, flashVars, workVars
<1> QED
  BY <1>0, StepCases, <1>1, <1>2, <1>3, <1>4, <1>5, <1>6, <1>7, <1>8, <1>9, <1>10,
     <1>11, <1>12, <1>13, <1>14, <1>15, <1>16, <1>17, <1>18, <1>19, <1>20, <1>21

(* Upload, download and install share one claim: the pipeline implements    *)
(* UpdateClaim, one updater at a time and the slot written by that updater  *)
(* only, for every number of images and resets.                             *)
THEOREM OneUpdaterAtATime == FirmwareSpec => OneUpdater
<1>1. FirmwareInit => Pipeline!Init
  <2> SUFFICES ASSUME FirmwareInit PROVE Pipeline!Init
    OBVIOUS
  <2>1. Spare = 1 /\ flash[1] = Junk
    BY DEF FirmwareInit, Spare, Other, Partitions
  <2>2. \A a \in Updaters : ~Busy(a)
    BY DEF FirmwareInit, Busy
  <2> QED BY <2>1, <2>2 DEF Pipeline!Init
<1>2. FirmwareInv /\ FirmwareInv' /\ [FirmwareNext]_firmwareVars =>
        [Pipeline!Next]_(Pipeline!claimVars)
  BY ClaimStep
<1> QED
  BY <1>1, <1>2, FirmwareAlways, PTL DEF FirmwareSpec, OneUpdater, Pipeline!Spec

===============================================================================
