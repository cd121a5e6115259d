---------------------------- MODULE FirmwareUpdate ----------------------------
(***************************************************************************)
(* The firmware update of main/ota.cpp: an upload streamed by the web      *)
(* handler and a download by url_task share one claim, one status and the  *)
(* slot that is not running; a checker task polls the releases.  Around    *)
(* it, what it depends on: the start-up of app_main, the boot loader with  *)
(* its rollback, and the progress bar Home Assistant is told of.           *)
(***************************************************************************)
EXTENDS Naturals, FiniteSets

CONSTANTS MaxImage,     \* images are numbered 1 .. MaxImage; 1 is the first
          MaxResets     \* bound: resets of the device

ASSUME FirmwareAssumption == MaxImage \in Nat \ {0} /\ MaxResets \in Nat

Partitions  == {0, 1}
Images == 1 .. MaxImage
Junk   == 0             \* no whole image: erased, half written or torn

(* web: the only task of the web server; mqtt: the client's task; pull: url_task *)
Updaters == {"web", "mqtt", "pull"}
Status   == {"Idle", "InProgress", "Success", "Failed"}

VARIABLES
  \* flash, and what survives a reset
  flash,      \* the image each slot holds
  mark,       \* the boot loader's word on each slot
  boot,       \* the slot it is told to start
  running,    \* the slot that runs
  healthy,    \* history: images that have reached the network
  resets,     \* resets so far that no update asked for
  bar,        \* Home Assistant's progress bar; "stale": shown since before a reset
  \* memory
  stage,      \* how far app_main has come
  doing,      \* how far each updater has come
  busy,       \* s_busy
  status,     \* s_status.state
  untold,     \* the snapshot set_status has still to hand to s_on_progress
  checker,    \* checker_task
  asked,      \* its pending notification
  checking,   \* s_upd.checking
  offered     \* s_upd.update_available, with its URL

flashVars == <<flash, mark, boot, running>>
checkVars == <<checker, asked, checking, offered>>
lifeVars  == <<healthy, resets, stage>>
workVars  == <<doing, busy, status, untold>>
firmwareVars == <<flashVars, checkVars, lifeVars, workVars, bar>>

Other(s) == 1 - s
SpareOfBoot == Other(boot)      \* mutant: next to the slot set to boot
Spare    == Other(running)       \* esp_ota_get_next_update_partition
Nothing  == "nothing"
Served   == stage \in {"early", "up"}
Free(a)  == doing[a] = "idle"
(* set_status calls back before it returns. *)
Ready(a) == untold[a] = Nothing

FirmwareTypeOK ==
  /\ flash \in [Partitions -> Images \cup {Junk}]
  /\ mark \in [Partitions -> {"none", "new", "pending", "valid", "aborted"}]
  /\ boot \in Partitions /\ running \in Partitions
  /\ healthy \subseteq Images
  /\ resets \in 0 .. MaxResets
  /\ bar \in {"on", "off", "stale"}
  /\ stage \in {"wifi", "portal", "early", "up"}
  /\ doing \in [Updaters -> {"idle", "begin", "connect", "load", "giveUp", "done", "reboot"}]
  /\ busy \in BOOLEAN
  /\ status \in Status
  /\ untold \in [Updaters -> Status \cup {Nothing}]
  /\ checker \in {"none", "settle", "wait", "fetch", "tell"}
  /\ asked \in BOOLEAN /\ checking \in BOOLEAN /\ offered \in BOOLEAN

--------------------------------------------------------------------------------
(* Memory after a reset. *)
Fresh ==
  /\ stage' = "wifi"
  /\ doing' = [a \in Updaters |-> "idle"]
  /\ busy' = FALSE
  /\ status' = "Idle"
  /\ untold' = [a \in Updaters |-> Nothing]
  /\ checker' = "none"
  /\ asked' = FALSE /\ checking' = FALSE /\ offered' = FALSE

FirmwareInit ==
  /\ flash = [s \in Partitions |-> IF s = 0 THEN 1 ELSE Junk]
  /\ mark = [s \in Partitions |-> IF s = 0 THEN "valid" ELSE "none"]
  /\ boot = 0 /\ running = 0
  /\ healthy = {1}
  /\ resets = 0
  /\ bar = "off"
  /\ stage = "wifi"
  /\ doing = [a \in Updaters |-> "idle"]
  /\ busy = FALSE
  /\ status = "Idle"
  /\ untold = [a \in Updaters |-> Nothing]
  /\ checker = "none"
  /\ asked = FALSE /\ checking = FALSE /\ offered = FALSE

(* The boot loader: an image that was started and never confirmed is given *)
(* up for the other one; a new one is started on trial; what does not load *)
(* is passed over.                                                         *)
BootLoader ==
  LET unproved == mark[boot] = "pending"
      chosen   == IF unproved THEN Other(boot) ELSE boot
      given    == IF unproved THEN [mark EXCEPT ![boot] = "aborted"] ELSE mark
  IN  /\ boot' = chosen
      /\ mark' = IF given[chosen] = "new"
                 THEN [given EXCEPT ![chosen] = "pending"] ELSE given
      /\ running' = IF flash[chosen] # Junk THEN chosen ELSE Other(chosen)

Reboot ==
  /\ BootLoader
  /\ Fresh
  /\ bar' = IF bar = "on" THEN "stale" ELSE bar
  /\ UNCHANGED <<flash, healthy>>

(* A power cycle, a crash, or esp_restart() from elsewhere in the firmware. *)
Reset == resets < MaxResets /\ resets' = resets + 1 /\ Reboot

(* The restart that ends an update. *)
Restart(a) == doing[a] = "reboot" /\ Ready(a) /\ Reboot /\ UNCHANGED resets

(* ota::mark_valid(), which may fail and is then only logged. *)
MarkValid ==
  \/ /\ mark[running] = "pending"
     /\ mark' = [mark EXCEPT ![running] = "valid"]
  \/ UNCHANGED mark

(* app_main: wifi::init() succeeds, the image is confirmed, MQTT and the web *)
(* server start ...                                                          *)
WifiUp ==
  /\ stage = "wifi"
  /\ stage' = "early"
  /\ healthy' = healthy \cup {flash[running]}
  /\ MarkValid
  /\ UNCHANGED <<flash, boot, running, resets, bar, workVars, checkVars>>

(* Mutant: the image is confirmed before the network is up. *)
WifiFailsConfirmed ==
  /\ stage = "wifi"
  /\ stage' = "portal"
  /\ MarkValid
  /\ UNCHANGED <<healthy, resets, flash, boot, running, workVars, checkVars, bar>>

(* ... or fails, and app_main returns to the provisioning portal. *)
WifiFails ==
  /\ stage = "wifi"
  /\ stage' = "portal"
  /\ UNCHANGED <<healthy, resets, flashVars, workVars, checkVars, bar>>

(* The rest of app_main: the callbacks are registered and the checker task *)
(* is created, if there is memory for it.                                  *)
StartUpdateChecker ==
  /\ stage = "early"
  /\ stage' = "up"
  /\ checker' \in {"none", "settle"}
  /\ UNCHANGED <<healthy, resets, flashVars, workVars, bar, asked, checking, offered>>

--------------------------------------------------------------------------------
(* The one status object, and the callback that follows a change of it. *)
SetStatus(a, s) == /\ status' = s
                   /\ untold' = [untold EXCEPT ![a] = s]

(* main.cpp's progress callback: the bar is shown while an install runs. *)
Shown(s) == IF s = "InProgress" THEN "on" ELSE "off"

OnProgress(a) ==
  /\ untold[a] # Nothing
  /\ untold' = [untold EXCEPT ![a] = Nothing]
  /\ bar' = IF stage = "up" THEN Shown(untold[a]) ELSE bar
  /\ UNCHANGED <<flashVars, lifeVars, checkVars, doing, busy, status>>

(* The on-connected callback of main.cpp, and that of the checker, publish the *)
(* versions with no progress.                                                  *)
Reconnect ==
  /\ Served /\ bar' = "off"
  /\ UNCHANGED <<flashVars, lifeVars, checkVars, workVars>>

ClaimRegardless == busy' = TRUE     \* mutant: two callers in one
TryClaim == ~busy /\ busy' = TRUE

Go(a, where) == doing' = [doing EXCEPT ![a] = where]

(* release(), after the status has been set. *)
Release(a) ==
  /\ doing[a] \in {"giveUp", "done"} /\ Ready(a)
  /\ busy' = FALSE
  /\ Go(a, IF doing[a] = "done" THEN "reboot" ELSE "idle")
  /\ UNCHANGED <<flashVars, lifeVars, checkVars, status, untold, bar>>

(* Mutants: a failure that is not reported, or that keeps the claim. *)
GiveUpQuietly(a) == Go(a, "giveUp") /\ UNCHANGED <<status, untold>>
GiveUpHolding(a) == Go(a, "idle") /\ SetStatus(a, "Failed")
GiveUp(a) == Go(a, "giveUp") /\ SetStatus(a, "Failed")

(* esp_ota_begin refuses while the running image is itself on trial. *)
BeginAllowed == mark[running] # "pending"

Erase == flash' = [flash EXCEPT ![Spare] = Junk]

(* handle_ota_upload: local_begin claims ... *)
LocalClaim ==
  /\ Served /\ Free("web") /\ TryClaim
  /\ Go("web", "begin")
  /\ UNCHANGED <<flashVars, lifeVars, checkVars, status, untold, bar>>

(* ... and erases the slot, or finds that it cannot. *)
LocalBegin ==
  /\ doing["web"] = "begin" /\ Ready("web")
  /\ \/ /\ BeginAllowed /\ Erase
        /\ Go("web", "load") /\ SetStatus("web", "InProgress")
     \/ GiveUp("web") /\ UNCHANGED flash
  /\ UNCHANGED <<mark, boot, running, lifeVars, checkVars, busy, bar>>

(* A chunk is written and the percentage moves. *)
Progress(a) ==
  /\ doing[a] = "load" /\ Ready(a)
  /\ BeginAllowed /\ Erase
  /\ SetStatus(a, "InProgress")
  /\ UNCHANGED <<mark, boot, running, lifeVars, checkVars, doing, busy, bar>>

(* The body or the download breaks off, or a write fails: local_abort, *)
(* esp_https_ota_abort.                                                *)
LoadFails(a) ==
  /\ doing[a] = "load" /\ Ready(a)
  /\ GiveUp(a)
  /\ UNCHANGED <<flashVars, lifeVars, checkVars, busy, bar>>

(* All of it has arrived and is a valid image, and the boot slot is set. *)
Install(image) ==
  /\ flash' = [flash EXCEPT ![Spare] = image]
  /\ mark' = [mark EXCEPT ![Spare] = "new"]
  /\ boot' = Spare
  /\ UNCHANGED running

(* The image is refused, or it is written and the boot slot cannot be set. *)
NotInstalled == /\ \E i \in Images \cup {Junk} : flash' = [flash EXCEPT ![Spare] = i]
                /\ UNCHANGED <<mark, boot, running>>

(* local_end; the claim is released before the handler replies and restarts. *)
LocalEnd ==
  /\ doing["web"] = "load" /\ Ready("web")
  /\ \/ \E i \in Images : Install(i) /\ Go("web", "done") /\ SetStatus("web", "Success")
     \/ GiveUp("web") /\ NotInstalled
  /\ UNCHANGED <<lifeVars, checkVars, busy, bar>>

(* start_url, from the web server or from MQTT: claim, and hand the claim to *)
(* a new url_task.                                                           *)
StartUrl(a) ==
  /\ Served /\ Free(a) /\ TryClaim
  /\ \/ Go("pull", "begin") /\ UNCHANGED <<status, untold>>
     \/ GiveUp(a)
  /\ UNCHANGED <<flashVars, lifeVars, checkVars, bar>>

(* install_latest: start_url with the URL of the release on offer. *)
InstallLatest(a) == offered /\ StartUrl(a)

(* url_task reports that it connects ... *)
PullBegin ==
  /\ doing["pull"] = "begin" /\ Ready("pull")
  /\ Go("pull", "connect") /\ SetStatus("pull", "InProgress")
  /\ UNCHANGED <<flashVars, lifeVars, checkVars, busy, bar>>

(* ... and has the server's headers, or not. *)
PullConnect ==
  /\ doing["pull"] = "connect" /\ Ready("pull")
  /\ \/ Go("pull", "load") /\ SetStatus("pull", "InProgress")
     \/ GiveUp("pull")
  /\ UNCHANGED <<flashVars, lifeVars, checkVars, busy, bar>>

(* esp_https_ota_finish; on success the task restarts without a release. *)
PullEnd ==
  /\ doing["pull"] = "load" /\ Ready("pull")
  /\ \/ /\ BeginAllowed
        /\ \E i \in Images : Install(i)
        /\ Go("pull", "reboot") /\ SetStatus("pull", "Success")
     \/ BeginAllowed /\ GiveUp("pull") /\ NotInstalled
     \/ GiveUp("pull") /\ UNCHANGED flashVars
  /\ UNCHANGED <<lifeVars, checkVars, busy, bar>>

--------------------------------------------------------------------------------
(* check_now: the flag is set whether or not there is a task to notify. *)
CheckNow ==
  /\ Served /\ Free("web")
  /\ checking' = TRUE
  /\ asked' = (checker # "none" \/ asked)
  /\ UNCHANGED <<checker, offered, flashVars, lifeVars, workVars, bar>>

(* checker_task wakes: after ten seconds, for a request, or for its timer. *)
CheckBegins ==
  /\ \/ checker = "settle" /\ UNCHANGED asked
     \/ checker = "wait" /\ asked' = FALSE
  /\ checker' = "fetch"
  /\ checking' = TRUE
  /\ UNCHANGED <<offered, flashVars, lifeVars, workVars, bar>>

(* perform_check has an answer, or an error that leaves the offer as it was. *)
CheckEnds ==
  /\ checker = "fetch"
  /\ checker' = "tell"
  /\ checking' = FALSE
  /\ offered' \in BOOLEAN
  /\ UNCHANGED <<asked, flashVars, lifeVars, workVars, bar>>

(* on_update_changed *)
CheckTold ==
  /\ checker = "tell"
  /\ checker' = "wait"
  /\ bar' = "off"
  /\ UNCHANGED <<asked, checking, offered, flashVars, lifeVars, workVars>>

--------------------------------------------------------------------------------
Loading(a) == \/ Progress(a) \/ LoadFails(a) \/ Release(a) \/ OnProgress(a)

Upload == LocalClaim \/ LocalBegin \/ LocalEnd
Pull   == PullBegin \/ PullConnect \/ PullEnd
Check  == CheckBegins \/ CheckEnds \/ CheckTold
Asking == CheckNow \/ \E a \in {"web", "mqtt"} : StartUrl(a) \/ InstallLatest(a)
AppMain == WifiUp \/ WifiFails \/ StartUpdateChecker

FirmwareNext ==
  \/ AppMain \/ Reconnect \/ Upload \/ Pull \/ Check \/ Asking
  \/ \E a \in Updaters : Loading(a) \/ Restart(a)
  \/ Reset

FirmwareSpec == FirmwareInit /\ [][FirmwareNext]_firmwareVars

(* The tasks run; every read of a body or of a socket has a time limit and *)
(* an image has an end, so a load ends one way or the other.               *)
FirmwareFairness ==
  /\ \A a \in Updaters : WF_firmwareVars(Release(a)) /\ WF_firmwareVars(OnProgress(a))
  /\ WF_firmwareVars(LocalBegin) /\ WF_firmwareVars(PullBegin) /\ WF_firmwareVars(PullConnect)
  /\ SF_firmwareVars(LocalEnd) /\ SF_firmwareVars(PullEnd)
  /\ WF_firmwareVars(Check)
  /\ WF_firmwareVars(StartUpdateChecker)
  /\ \A a \in Updaters : WF_firmwareVars(Restart(a))

FirmwareFairSpec == FirmwareSpec /\ FirmwareFairness

--------------------------------------------------------------------------------
Busy(a) == \/ doing[a] \in {"begin", "connect", "load", "giveUp", "done"}
           \/ a = "pull" /\ doing[a] = "reboot"
Pipeline == INSTANCE UpdateClaim WITH
           Contents <- Images \cup {Junk},
           updating <- {a \in Updaters : Busy(a)},
           spare    <- flash[Spare]

(* Upload, download and install share one claim: at any time one updater at *)
(* most is between try_claim() and release(), and only it writes the slot.  *)
OneUpdater == Pipeline!Spec

(* What is shown is true: "in progress" only while an updater holds the      *)
(* claim, always while one loads, and when no callback is on its way a bar   *)
(* shown in Home Assistant since the start is that of such an update.        *)
ShownTruthfully ==
  /\ status = "InProgress" => busy
  /\ \A a \in Updaters : doing[a] = "load" => status = "InProgress"
  /\ bar = "on" /\ (\A a \in Updaters : Ready(a)) => status = "InProgress"

(* There is always a way back: the running slot holds a whole image, and    *)
(* while that image is on trial the other slot holds one that is confirmed  *)
(* and has reached the network.                                             *)
WayBack ==
  /\ flash[running] # Junk
  /\ mark[running] = "pending" =>
       mark[Spare] = "valid" /\ flash[Spare] \in healthy

(* Rollback: an image that never reached the network is not started twice;  *)
(* the reset that ends it starts one that has.                              *)
RollsBack ==
  [][stage' = "wifi" /\ flash[running] \notin healthy => flash'[running'] \in healthy]_firmwareVars

(* The claim is always given up, by a release or by the restart it is for.  *)
PipelineFreed == busy ~> ~busy

================================================================================
