# Verification of the Mitsubishi heat-pump controller

TLA+ models, TLC runs and TLAPS proofs for the firmware in `src/`: an ESP32
head that drives one indoor unit over its CN105 serial port, offers it over
REST and MQTT, and shares a condenser with the other heads of a group.

| module | what it is |
|---|---|
| `Cn105Driver` | the serial driver with its callers, the line and the unit |
| `MCCn105Driver` | its instance for TLC (a symmetry set) |
| `Cn105DriverProofs` | its inductive invariants, proved |
| `WideVaneCapability` | the wide-vane detection task and the user, on top of `Cn105Driver` |
| `WideVaneProofs` | its inductive invariant, proved on top of the driver's |
| `GroupReplica` | what grouped heads replicate: merge, gossip, enrolment, eviction |
| `MCGroupReplica` | its instance with three paired heads |
| `GroupReplicaProofs` | its inductive invariants, proved |
| `GroupPolicy` | the rules of a shared compressor: demands, conflicts, what a resolution does |
| `GroupSync` | coordinated resolution: operations between the heads |
| `MCGroupSync` | its instance with two heads |
| `GroupSyncProofs` | its inductive invariants, proved |
| `PairingPromise` | what a pairing code promises |
| `PairingWindow` | the owner's side of pairing and the persistence of the group; implements it |
| `PairingWindowProofs` | the refinement and the membership invariant, proved |
| `UpdateClaim` | what the update pipeline promises |
| `FirmwareUpdate` | upload, download, start-up, boot loader and progress bar; implements it |
| `FirmwareUpdateProofs` | the refinement and its safety invariants, proved |
| `Accounts` | passwords, sessions, the settings request, saves that fail or are cut |
| `AccountsProofs` | its inductive invariants, proved |
| `MqttBridge` | connection, last will, discovery, settings, outbox |
| `WifiStation` | station, retries, portal, credentials, reboot timer |
| `EventLog` | the ring, the two files, the number in NVS |
| `GroupView` | how a head sees its group and shows it |
| `ServicesProofs` | the inductive invariants of `MqttBridge`, `WifiStation`, `EventLog` and `GroupView`, proved |
| `MCServices` | instance for TLC of these services and the view |

| run | configuration | result |
|---|---|---|
| `cn105_safety`, `cn105_liveness` | `MCCn105Driver.cfg`, `Cn105Live.cfg` | hold |
| `wide_vane` | `WideVaneCapability.cfg` | holds |
| `group_replica`, `group_three` | `GroupReplica.cfg`, `MCGroupReplica.cfg` | hold |
| `group_sync` | `MCGroupSync.cfg` | holds |
| `services` | `MCServices.cfg` | holds |
| `cn105_lost_intent`, `cn105_never_told` | `Cn105LostIntent.cfg`, `Cn105NeverTold.cfg` | violated, see the findings |
| `wide_vane_user_loses` | `WideVaneUserLoses.cfg` | violated, see the findings |
| `group_rejoin`, `group_sync_ok` | `GroupRejoin.cfg`, `GroupSyncOk.cfg` | violated, see the findings |

Type invariants are theorems of the proof modules and are not checked again by
the runs.
`ConnectedIsSnappy` and `ClocksCover` are invariants that the proofs rest on and
state as theorems; no run is spent on them.

## The system

### Components

*CN105 driver* (`components/cn105/cn105.cpp`).
State: the link (`connected_`, `firstRun_`, reconnect backoff), the unit's
settings as last heard (`current_`), those the user wants (`wanted_`, six dirty
flags, the time of the last setter), one-shot requests (remote temperature,
sync, wide-vane probe) and a published copy for readers.
Operations: `update()` every 100 ms from one pump task (read, reconnect, flush,
poll, publish, call back); setters from the MQTT, web and capability tasks.
Hard: the setters interleave with a pump that waits for frames; frames are
lost, late, or left over from an earlier request; the unit has its own remote
control and may be unplugged.
Right when: it converges with the unit, a user's setting is delivered and not
overwritten by an old reply, placeholders never leave the head, listeners hold
what the driver holds.

*Wide-vane detection* (`main/capability.cpp`).
State: phase of the probe, verdict, override, a counter of user commands.
It suspends the driver's enforcement of one field, commands an off-centre
position once and judges from the published snapshot.
Hard: user commands, other fields' flushes, polls and the louver's own movement
interleave with the probe.
Right when: the verdict fits the hardware, enforcement resumes on every way
out, the user's position wins.

*Group replication and membership* (`components/hvac_group`, `main/web_ui.cpp`).
State per head: a replica (label, members, tombstones, names, a Lamport clock)
in memory and in NVS, the head's own name, the list and the answer of a poll
round. Operations: label, rename, evict, leave, claim and join of pairing,
poll and merge, boot.
Hard: concurrent writes, removals that cross enrolments, lost answers, crashes
between two stores, heads that leave and come back.
Right when: clocks cover what they carry, the removed stay out, heads that have
nothing left to say agree, an evicted head learns of it.

*Pairing window* (`group_config.cpp`, `web_ui.cpp`).
State: one code with its attempts and its expiry, the mDNS advert, the group in
memory and its five keys in NVS.
Operations: start, stop, status, claim; leave, eviction and merge from the rest
of the group; boot.
Hard: guesses, a claim and an expiry that only the next request notices
interleave with a restart of pairing; keys are refused one by one or torn apart
by a reset, and only the result of the commit is looked at.
Right when: a code lets one head in and stands five guesses, and a head that
has a group is a member of it after any boot.

*Group conflict view and coordinated resolution* (`group_proto.cpp`,
`web_ui.cpp`).
State per head: the last operation number (in NVS too), the time of the last
change an operation made, a cache of what the peers were polled for.
Operations: evaluate the group, resolve (REST, or a mode command from Home
Assistant that would conflict), sync from a peer.
Hard: two heads coordinate at once; a head coordinates on two tasks; requests
are served after their coordinator gave up; a head's view of its own zone lags.
Right when: no zone that is off is turned on, later operations stand, the dwell
is kept, what is reported is true, and the conflict is over.

*MQTT and discovery* (`components/hvac_mqtt`, callbacks in `main.cpp`).
State: client and base topic, `g_connected`, the callbacks, what the broker
retains. Operations: start, the event handler (online, discovery, settings),
settings from the driver, a rename that restarts the head.
Hard: the callback is registered after the client has started; two tasks
publish; a link dies silently and either end notices by itself; what could not
be sent is kept and sent behind newer messages.
Right when: no name stays "online" without a session, and after a reconnection
Home Assistant shows the unit as it is.

*Firmware update* (`main/ota.cpp`, start-up in `main.cpp`).
State: the claim, one status with its callback, two flash slots with the boot
loader's marks, the checker task. Operations: upload, download, install, check,
confirm, restart.
Hard: three tasks share the claim and the status; a transfer breaks off
anywhere; a new image that does not reach the network must be given up.
Right when: one updater at a time, a claim is given back, what is shown is
true, and there is always an image to go back to.

*Accounts and sessions* (`main/auth_manager.cpp`).
State: two passwords, two switches, the API key, sessions; all but the sessions
in NVS. Operations: setters (each saves everything), login, logout, expiry, the
settings request, which is a sequence of setters, three repairs at start-up.
Hard: saves fail or are cut key by key and nobody looks at the result; a
request that is refused half way has changed what came before.
Right when: nobody is locked out, no session outlives what it stands on, and
flash never pairs two equal passwords.

*Event log* (`main/events.cpp`).
State: a ring, two rotating files, the last number in NVS.
Operations: log, clear, read, boot.
Hard: resets between the steps of a rotation, half a line at the end of a file,
a file system that does not mount; index arithmetic at the seam of the ring.
Right when: readers get the newest events and no number is given twice.

*Wi-Fi and provisioning* (`main/wifi_manager.cpp`).
State: credentials, station, retry counter, event bits, reboot timer.
Operations: connect, retry, portal, new credentials, factory reset.
Hard: a waiting task, the event loop and a web server meet in a few flags;
attempts of an earlier outage must not count for the next.
Right when: the station gives up only after all its attempts.

*Web server and REST API* (`main/web_ui.cpp`): one task that calls the others;
its handlers are modelled in the module of what they change.
*Start-up and wiring* (`main/main.cpp`): the command dispatcher, the driver's
task and the callbacks; modelled where they act.
*Power, diagnostics and status LED*, *web user interface*: see "Not modelled".

### How they interact

`cn105_task` runs the driver and, through its callback, hands the settings to
MQTT. MQTT and web handlers call the driver's setters; a wide-vane command
first sets and then tells `capability`, whose task calls the driver's probe
functions and reads its snapshot. A resolution commands the driver through the
same dispatcher and calls the peers' web servers one after the other. Each
head's `group_poll_task` asks its peers' web servers for their replica and demand; handlers and the poll task meet under
the mutex of `group_config`. Pairing is one HTTP call from the joiner's handler
to the owner's. NVS is written inside that mutex.

`app_main` brings up Wi-Fi first; only when that succeeds is a new firmware
image confirmed, and MQTT, the web server, the callbacks and the checker task
follow in this order. Requests come before the callbacks are registered, which
is why `FirmwareUpdate` and `MqttBridge` have a stage in between. The update
reports its progress through MQTT from whichever task runs it.

### Plan

Done in this order: driver, driver proofs, detection, replication, replication
proofs, resolution, resolution proofs; then pairing, firmware update, accounts,
event log, MQTT and Wi-Fi, the proofs of most of these, the group view; then the
proofs of resolution's answers, of the settled replicas, of the detection, of
the view and of the event log; last the two properties of the detection that
follow a position from the probe through frames and echoes to the unit.
Left:

1. The NVS copy of the wide-vane verdict; the frame codec beyond the fields
   the driver decides on.

## The driver: `Cn105Driver`

### State and actions

| variables | code |
|---|---|
| `pc`, `snap` | where `pump_()` is, its locals `wsnap`, `wvProbe…`, and `w` of `sendWideVaneOnce_` |
| `connected`, `firstRun`, `current`, `changed`, `infoMode`, `backoff` | `connected_`, `firstRun_`, `current_`, `settingsChanged_`, `infoMode_`, `connectBackoff_` |
| `wanted`, `dirty`, `probe`, `graceOver`, `remote`, `sync` | `wanted_`, the `d_…` flags, `wvProbe…_`, `lastWanted_` against the grace period, `pendingRemoteTempSet_`, `sync_requested_` |
| `pub`, `told` | `pub_settings_` / `pub_connected_`, the last argument of `on_settings_` |
| `unit`, `unitUp`, `rx`, `silent` | the unit, the UART buffer, `lastRecv_` against the timeout (external) |
| `intent`, `spent` | history and bounds |

A step is the code between two points at which another task can be noticed: a
critical section of `want_mtx_` or `pub_mtx_`, a frame read, a frame written.
One iteration goes from `PumpBegin` or `LinkLost` (both at `pc = "idle"`)
through one of the branches of `pump_()` (handshake, one-shot probe, flush,
remote temperature, poll) to `PublishAndFire`. Every branch asks `canSend_`
again, so an iteration may skip one that is due and take a later one
(`Branches`; `Due` is the one taken when the interval is over). The one-shot of a
probe is composed from a copy of `current_` taken before the line is drained
(`snap.shot`) and carries what then differs from `current_`. Each wait has a read action and
a timeout; a timeout is possible when nothing is in the buffer, or, within
`MaxLate`, when the answer comes after it and stays there for the next reader.
Setters are single actions because each holds `want_mtx_`.

Abstractions. Elapsed time is a choice, with two exceptions that the code's
constants justify: ten seconds of silence pass only while the unit is away, and
thirty seconds of grace outlast the one-second retry of a SET and a poll cycle,
so that on a live link the grace ends when nothing is left to send and no older
reply is waiting. Read-only
telemetry (`status_`) is left out: nothing the driver decides depends on it. The
placeholders of `connect()` are kept distinct from every real value, which can
only make their escape visible. The cap of four frames per drain is not
modelled: no more than two can be waiting within the bounds. Values and fields
are sets; a run takes one or two fields since a field interacts with others
only through the shared dirty flags and the wide-vane exception.

### Runs

`cn105_safety` (7.5 million states): two fields of two values (symmetric), two
commands, and up to three disturbances among a probe, an external change, a
lost frame, an outage and late frames. Two commands are needed for a setter
between snapshot and ACK to follow another; an outage lets the session restart
with leftover frames; three late frames bring a reply into the wait for an ACK. A probe begins only
once settings of the unit were published, which is what `unit_on()`, asked by the
one caller, ensures: it wants the power ON, and the placeholder is OFF. Without
that guard `PlaceholderNeverSent` fails, since a probe's SET may be composed from
the placeholders and carry them after the drain has read the first settings.
`PlaceholderNeverSent`, `IntentKept`, `ListenersCurrent`, `NeverToldUpWhenDown`, `EchoTruthful`.

`cn105_liveness` (167,000 states): `Converges`, `IntentDelivered`,
`RequestsServed`, with one disturbance of each kind except probes.
Fairness: the pump task runs for ever (`WF_vars(Pump)`); the intervals that
`TooSoon`, `BackOff` and `PollLater` stand for elapse, so the alternatives that
send are not put off for ever (`SF` on `Take(Due)`, `SendConnect`, `PollSend`);
the unit comes back. Users and disturbances are not fair.

`cn105_lost_intent` (violation): `NoLostIntent`. See the findings.
`cn105_never_told` (violation): `ListenersLearnConnected`. See the findings.

### Proved

For all fields, values, bounds and backoffs, under `FieldAssumption` and
`BackoffAssumption` alone (`Cn105DriverProofs`):
`TypeCorrect`; then, on top of the type invariant, four inductive invariants:

- *SnappyInv*: the link is up only if the backoff is at its minimum, because
  the frame that brings it up also resets it and the timeout that doubles it
  runs only with the link down. Gives `LiveLinkIsSnappy`.
- *TellInv*: at every point of an iteration, what the listeners were told
  differs from what the driver holds only if the change flag is up or the
  iteration has yet to raise it. Between iterations the flag is down. Gives
  `ListenersHoldCurrent` and `ListenersSeeLoss`.
- *SeedInv*: `wanted` and `snap.wanted` are free of placeholders as soon as the
  first settings of a session were read, and nothing is flushed before;
  `current`, and so the copy a probe's SET is composed from, once settings of
  the unit have been published. It needs the frames in the buffer to be free of
  them as well. Gives
  `PlaceholdersStayHome`; `UndeliveredIntentKept` follows from the same cases.
- *EchoInv*: on an undisturbed line, wherever the pump is, either `current` is
  the unit's state or the one frame that will make it so is in flight and
  carries `snap.wanted`. Gives `EchoIsTrue`, for a powered vane.

Only model-checked: the liveness properties.

## Detection: `WideVaneCapability`

Extends the driver, whose `Powered` is FALSE here: the unit may take or ignore
the wide vane, and `Faithful` obliges a louver with a motor to take it. `phase`
and `run` are the place and the locals of `run_probe`; each sample is one
action before and one after the two reads of the published snapshot, since the
driver may publish in between. `UserWideVane` and `NotifyUser` are two actions
because `on_mqtt_command` first calls the setter and then bumps the counter.

Time is counted in samples. What the code's durations relate, the assumption
`TimingAssumption` and the guards relate: a poll is answered within `PollLag`
samples, a louver without a motor has fallen back after `RevertSamples`, and the
acceptance and hold windows outlast both. The notification follows its setter
within a sample. Whether a retry of an inconclusive run is due is a choice. The
NVS copy of the verdict is not modelled.

`wide_vane` (6.0 million states): three positions, power as the second field, a
user command, and two disturbances among the probes themselves (one or two), a
switch-off with the remote control, an outage, a lost and a late frame.
`ManualNotShown`, `QuietVerdictRight`, `EnforcementResumes`, `PutBack`.
`QuietVerdictRight` says what the probe can promise: when nothing but the vane is
commanded, nobody uses the remote control and no frame is lost or late, a motor
is not overlooked. Commands of another field are left out because they move the
vane during the probe (see the findings). `PutBack` needs that the unit was not away: the remote
control ends the probe, an outage outlasts the grace period, and the restart
adopts where the probe left the vane; and it needs a faultless line when a
second probe runs, since that one puts the vane back where it found it.
The violation run `wide_vane_user_loses` shows what a comment promises beyond that.

Between two turns of its loop the task pauses for five seconds (`kIdlePollMs`).
The model has no clock; the guard `Rested` of `Wake` says what the pause
outlasts: always the iteration of the pump that worked for the last probe, and,
when nothing was commanded and nothing lost or late, the flush of the restored
position and its publication. `Prompt` says that the position the probe is to
restore is still the published one when it begins, but for one publication.

### Proved

For every set of fields and positions, any number of samples that satisfy
`TimingAssumption`, and any bounds (`WideVaneProofs`): `CapTypes`, `LouverNotShown`,
`ProbeEnds`, `VanePutBack` and `VerdictRight`. The first three need `ProbeInv`: the driver's type invariant;
*RunInv*, what the loops bound of their locals; *HoldInv*, that in the hold of a
louver without a motor every sample after it has fallen back, and a poll has
told so, is counted as one off the target, also when the snapshot is published
between the two reads of a sample; and *VerdictInv*, that "supported" on its way
to the flash is already true. The assumption `RevertConfirm > 0` (2 in the code)
came in with the proof: without it the hold ends at its first look.

The last two hold only under premises about the past, and a premise that was
lost does not come back: each invariant is an implication whose case, true now,
was true at every earlier state. They rest on `TaskInv`: `ProbeInv`, that a
queued one-shot belongs to a running probe (*OneShot*) and that every
notification was preceded by a command (*Counted*).

- `VanePutBack` (*HomeInv*, in the case that nothing was commanded and the unit
  was never away): the link is up except before the first settings of the
  session (*LinkHome*); no field but the vane has its flag up (*NobodyAsked*);
  away from home the grace period is not over, and until it is the driver wants
  the vane at home; once it is over, or before any probe, the unit, every reply
  in the buffer and `current` have the vane at home (*WantHome*). At rest with
  nothing to flush the unit has what is wanted.
- `VerdictRight` (*QuietInv*, in the case of a motor, vane commands only and a
  faultless line). Of the driver: at each point of an iteration the buffer holds
  exactly the answer it waits for (*QuietLine*), what is published is `current`
  but within the publishing step (*PubFollows*), the other fields agree
  everywhere (*OthersSettled*), and a flush carries the vane, so that the unit is
  there when the ACK is read (*FlushCarries*). Of the probe: once the one-shot
  has been sent the unit stays at the target and no flush runs (*ShotInv*); a
  published target is where the unit is (*SightInv*); so the target is seen
  within `PollLag` samples and no later sample differs, which leaves no way to
  "unsupported" (*QuietRun*).

The proofs corrected the model in two places. The grace period could end with a
reply from before the restore still in the buffer. And with a single probe
`PutBack` did not meet the case that a second one takes the target of the first
for the old position.

## Replication: `GroupReplica`

### State and actions

`replica[h]` is `s_replica` of head `h`; a head is in a group when it is a
member of its own replica, and `s_cfg.peers` is derived from it as in the code.
Registers (label, names) carry a version and the uid of the writer; uids are
numbers, in the order in which the code compares them as strings, 0 for "no
origin". NVS always holds the replica except that a merge which changes nothing
but the clock is not stored, so `clock[h]` is all that NVS needs.

`Merge` is `merge_replica` from label to clock bump; `LabelGroup`, `Rename` +
`NoteSelfName`, `Evict`, `Leave`, `Claim` + `Join` are the handlers, split where
they leave the mutex; `Poll` / `PollFails` / `MergeReply` are `group_poll_task`
around an HTTP call, and `BootAsks`, `BootReads` and `BootNotes` what it does
before its first round: ask whether there is a group, read the display name, and
note it, each under a lock of its own, while the handlers already run. A handler
that notes the name has read it before too, but only handlers write it, and they
run one after the other. `Reboot` may come at any point. A head's web server is one
task: while it waits for the answer to a join it serves nobody (`Free`).

Abstractions. One group; the right code in `Claim` (the window is in `PairingWindow`);
JSON is the identity on data; the capacity of 16 members never bites
(`GroupAssumption`). NVS writes that fail or are cut, and the fallback that
rebuilds a replica, are the subject of `PairingWindow`.

### Runs

`group_replica` (76,808 states): two heads, their whole life, two commands, one
claim, a reboot, a lost answer: `RemoveWins`, `SettledAgree`,
`OwnName`, and under fairness `Converges` and `EvictedLeaves`.
Fairness: handlers and merges end, poll rounds go on for ever, and a head that
is polled again and again answers at last (`SF` on `Poll`). Deadlock is not
checked: all may have left, and a group of nobody does nothing.

`group_three` (591,000 states): three paired heads, two concurrent writes by two
of them; what the third passes on must agree with what it hears directly. The
instance starts where pairing has ended, to spend its states on gossip.

`group_rejoin` (violation): with a second enrolment, `AllSettledAgree` fails.
That is why the passing properties exempt groups in which somebody was enrolled
twice (`NoRejoin`).

`OwnName` exempts a founder that was neither renamed nor rebooted: it announces
its name only then. It also exempts (`stale`) a head that was renamed between the
read and the note of its boot: the old name is then noted over the new one, and
stays until the next note. Nothing in the code prevents that.

### Proved

For every finite set of at most 16 heads and any texts and bounds
(`GroupReplicaProofs`): `ReplicaTypeCorrect`, `ClocksAlwaysCover`,
`RemovedStayOut`. The argument: call a replica *sound* when it is typed, its
clock covers all it carries and no tombstone vetoes a member. `SoundInv` says
that every replica in memory, every replica as NVS would restore it, every
answer and every offer is sound. The copy in NVS is needed because a reboot
goes back to it. The merge of two sound replicas is sound, and its clock is
already the greater of the two: the bump at its end changes nothing.

`NamesAreOwn` and `SettledReplicasAgree` are about history, and rest on *HistoryInv*.
Look at every register of one kind (the label, or the name of one head)
wherever it is: in memory, in what NVS would restore, in answers and in offers.
*MarksInv* says that version and origin identify what was written, and that only
its owner writes a name. *Life* says how far a head's own writes have come: a
head that was never enrolled has written nothing, one that is in the group, or
is being enrolled, will stamp past everything of its own that is anywhere, even
after a reboot. *Named* says that no later name of a head is known than the one
it holds. A fresh stamp is then really fresh, so two heads with nothing more to
tell, whose registers have the same version and origin, hold the same texts.
Both are about groups in which nobody is enrolled twice: `group_rejoin` shows
that a second enrolment breaks *Life*.

Only model-checked: convergence and `EvictedLeaves`, which are liveness.

## Resolution: `GroupPolicy` and `GroupSync`

### State and actions

`GroupPolicy` has no variables: `Demand` is `classify_demand`, `Plan` is
`plan_resolution`, `Commanded` is what `apply_resolve_op` and the dispatcher
`on_mqtt_command` make of a zone, and `Status`, `LockedMode`, `Opposing` and
`Blocked` are `evaluate_group`. Names, warnings and lists for display are left
out.

| variables of `GroupSync` | code |
|---|---|
| `want`, `seen` | power and mode in `wanted_`; what `get_settings()` returns |
| `op` | `s_op_id`, stored at every change |
| `dwell` | `s_have_last_op`, and `s_last_op_us` less than 20 s ago |
| `task` | where the web and the MQTT task are in `coordinate_group_to` or `handle_group_sync`, with the locals |
| `req` | requests to `/api/group/sync` that their receiver has not read |
| `by`, `recent`, `excused`, `spent` | history and bounds |
| `resting` | history: the zones that no operation may turn on (below) |

`Start` (from REST, or from Home Assistant) takes a number and begins a job on
one of the two tasks of a head; `Serve` begins one for a peer's request, on the
web task only, or answers "stale". Both jobs go through `Look` (own snapshot,
plan, dwell) and `Act` (command and mark), and end in `Tell`: the answer reaches
the coordinator if it still waits. A coordinator then goes from peer to peer by
`Send`, `Timeout` and `Return`. `Follow` is the driver: the unit has taken the
last command and the snapshot shows it. `Command` is a user's command for one
head. `Reboot` loses jobs, unread requests, the dwell and a command not taken
yet; the number survives.

Abstractions. Membership is fixed and every head has the right signature.
Whether a mode command is promoted to a resolution is a choice, because the
view it depends on may be 45 seconds old. A command is one step, although power
and mode are two critical sections; `Act` and `mark_op` are one, since nothing
that another task does in between differs from doing it before. The driver
delivers commands (the subject of `Cn105Driver`), and the unit's own remote
control is left out. NVS writes do not fail. All ways in which a call to a peer
fails are "unreachable".

Where commands meet in one head the code promises nothing, and the properties
claim nothing: `excused` collects the heads where a user gave a command of
their own, where an operation looked while the snapshot did not show the last
command yet, where both tasks were between `Look` and `Act`, and where a reboot
lost a command.

`OffStaysOff` does not need that. The promise of `plan_resolution` ("a resolution
can never silently turn an OFF zone on") is one about the state it is given, which
is the snapshot; so `resting` takes in every zone that is off, however it came to
be, as soon as the snapshot shows it and its head has no task that looked before
or that is a coordinator of its own, and lets it go only when its own user
commands it or its own head begins an operation, which turns that head's zone on
by design. Without the condition on the looks the property fails: a zone that is
turned off between `Look` and `Act` is turned on again.

### Runs

`group_sync` (2,568,357 states): two heads, one cooling at first and one off,
cooling or in AUTO; two operations with either target and strategy from any
task; one disturbance, a user's command, a lost message or a reboot. Two
operations are what it takes for one to be late, older, equal or inside the
dwell; heating mirrors cooling.
`OffStaysOff`, `LaterOpStands`, `Paced`, `AnswersTrue` and
`ConflictEnds`, which puts the zones a resolution leaves through
`evaluate_group` in every order of the members. Deadlock is not checked:
when the bounds are used up the group rests.

`group_sync_ok` (violation): `OkMeansConverged`. See the findings.

No fairness is assumed and no liveness claimed: that a coordinator ends depends
on the four seconds of the HTTP client alone.

### Proved

For every finite set of heads, every set of modes with heating and cooling, and
every bound (`GroupSyncProofs`): `TypeCorrect`, `NeverTurnedOn`, `InOrder`,
`DwellHolds`. None of the properties is inductive. `SyncInv` adds what the jobs
in progress owe them:

- *PeersOnly*: no request is, or will be, for its own sender. Without it an
  answer could reach a task that has no job.
- *OffInv*: a head that rests works on orders of others only and never comes to
  an act.
- *LaterInv*: the last change and all jobs of a head are at most at its
  number, and, where commands have not met, jobs are past the last change, and
  a job beside an act is past that act and has only looked.
- *PacedInv*: the dwell covers the last change, and an act has waited for it.

`StepKinds` reduces the eleven actions to three kinds (a job begins, a job
comes to the act, every job is kept or ends), and each part of `SyncInv` is
preserved by each kind.

`AnswersHold` and `ResolutionEnds` are about what a coordinator reports, and need
`AnswerInv` on top: *OrdersInv*, that all orders of an operation say the same and
come from the head that numbered it; and *ResultInv*, that from the moment a
coordinator has noted "applied" or "aligned" for a head, that head asks for
nothing but the target, or a later operation has been there, or commands have
met. `ResolutionEnds` then needs nothing of the protocol but that: `evaluate_group`
over zones that all ask for the target or nothing finds no opposing and no
blocked one, in whichever order it meets them. It is stated for a group of more
than one head (`ASSUME Cardinality(Heads) # 1` in the theorem): alone, a head is
"standalone", not "ok".

## The services

`Accounts`, `PairingWindow`, `EventLog`, `MqttBridge`, `WifiStation`,
`FirmwareUpdate` and `GroupView` share no variable. Each is a specification of its
own, and the proofs are of these. For TLC the run `services` (626,466 states)
takes them together: `part` says which one runs in a behaviour, and the others
stay where they start. That loses nothing, as each property speaks of one
service and allows stuttering. Deadlock is not checked: all parts but the view
stop when their bounds are used up. Fairness is that of the update and, where
the view runs, of the view: no fair step of the update is possible in its
initial state, so that in the other parts it asks nothing.

### Accounts: `Accounts`

| variables | code |
|---|---|
| `mem`, `nvs` | `state` without sessions; the five keys of `save_to_nvs()` |
| `saving` | a setter is inside `save_to_nvs()` |
| `sessions`, `clock` | `state.sessions`, `monotonic_now()` |
| `post`, `typed` | how far `auth_mgr_init()` or the handler of `POST /api/auth` has come; `admin_pw_provided` |
| `degraded`, `faults` | history and bound |

The settings request is a walk through six steps, each of which may be passed
over, taken or refused, and each taken one is a setter with its save. A save
ends with every key written or, within `MaxAccountFaults`, with some refused;
a reset inside it keeps the first keys only. The web server is one task, so
requests do not overlap. Passwords are compared and nothing else, so two are
enough; `Legacy` is the default password that start-up removes. A session is
too old only past `Lifetime`, so with none and one tick of the clock a session
is seen just within its time and just past it.

`NoLockout`, `SessionsBacked`, `AccountsKept` with one browser, two session
slots and two faults: two faults are what it takes to tear a save and to fail
the save that repairs it; two slots make an eviction choose.

Proved (`AccountsProofs`): all three, for any passwords, browsers and slots.
`MemoryInv` says that inside a save at most one of the two passwords differs
between memory and flash, so that no prefix of the keys can pair the new one
with an old one like it. `SessionsInv` says that while the device starts no
session is open, which the repairs need since they change passwords and close
nothing.

### Pairing: `PairingWindow` implements `PairingPromise`

`cfg` and `kept` are the group in memory and in NVS, as the keys of
`persist_locked()` in their order; `window`, `attempts` and `age` are `s_pair`;
`advert` is the flag in the mDNS record. A save that returns success may still
lack keys, because only the commit is looked at (`Persists`); a reset may cut a
save anywhere (`Cut`); `Loaded` is what `init()` makes of what it finds. That
the right code was sent is the choice between `Claim` and `BadCode`.

`PairingPromise` has three variables: a code is in force, the guesses it will
stand, whom it has let in. The refinement maps an expired window, which the code
notices at the next request, to a closed one: time itself closes it.

`CodeKeepsPromise` (the refinement) and `MemberOfOwnGroup`, with two guests, the code's five
attempts, two groups and two faults: a second group is what a head joins after
its first, and two faults tear a save and the repair of it.

Proved (`PairingWindowProofs`): both. The refinement rests on `UnusedInv`: an
open window has let nobody in yet.

### Event log: `EventLog`

Variables follow the source's names; `file` and `old` are sequences of numbers
with `Broken` for half a line. `log()` and `clear()` hold the lock throughout,
so only a reset comes between their steps (`logStep`), and it may come between
any two. `GetJson` is translated from the loop of `get_json` and compared with
the end of the whole history, for every `since` and `limit`.

A reset in the middle of a write, or a write that fails on the way, leaves half a
line; `remove` and `rename`, which are not checked, may fail, and `rename` does
over a file there is; a partition that does not mount at boot is formatted
(`format_if_mount_failed`), and the log runs from memory if even that fails.

Ring of three, six events and two faults: the ring wraps twice, and two faults
lose the number in one place and a line in another. A file is too long after
two lines here, so that it rotates twice before the numbers end. `AnswersNewest`,
`NeverRepeats`. The latter is about the numbers NVS refused: its write is not
checked, and until the next one succeeds only the files know the number, through
rotations, half lines and resets. `unsaved` says that the files do not: the line
was refused as well, or the file that had it was cleared, formatted, not mounted,
or rotated away behind a file without a whole line. Mutants that trust the stored
number at boot, or that lose the file in a rotation, break it.

Proved (`ServicesProofs`): `NumbersAreUsedOnce`, for any ring, files, events and
faults, and `NewestAnswered` and `LogTypes` too. `LogInv` has three parts beside the
types. *FilesInv*: the lines of the two files rise, but for broken ones, and while
they are mounted none is past the last number; without "while" it is false, since
a boot that cannot mount them may fall back behind them. *RingInv*: the history
rises, and the last `Ring` events of it lie each in the slot that its place in the
history has modulo `Ring`, which is where the ring begins to overwrite.
*NumberInv*: the last number of a finished `log()` is in memory, and in NVS or on a
line of a file that is mounted, unless `unsaved`; a rotation keeps that because
the newer file, once it has a whole line, has the higher numbers (`NewerIsHigher`).
`AnswersNewest` follows because numbers fall on the way back, so that stopping
at the first known one misses none. The arithmetic of the seam is `SameSlot`,
`NextSlot` and `SlotBack`, proved from division with remainder; that `load_file`
keeps the order is proved by induction over the lines (`ParsedRises`).

### MQTT: `MqttBridge`

`avail`, `shown` and `configs` are what the broker retains; `session` is the name
whose last will it holds; `linked` and `connected` are kept apart because
either end learns of a dead link by itself; `at` and `snap` are the place and
the local of the event handler; `real` and `telling` are the driver, whose task
publishes too, a change of settings and a change of status. `shown` is
`<base>/state`, which Home Assistant's climate entity reads; `<base>/settings`
goes just before it in the same calls, in the connected callback from a read of
its own, and is left out. `Publish` queues when the link is down, or drops when the queue
is full.

Two names, two states, a queue of two and three faults: a silent loss, a rename
and a change of the unit can meet in one behaviour. `GhostsGoOffline`,
`Resynced`. Of a session whose link held and whose callback has run, `Resynced`
says, whatever the driver's task publishes meanwhile and whatever is queued: the
discovery is right; the state shown is of this session, or was queued when it
began (`recent`), so never what the broker had retained before; and it is the
unit's own state, unless the driver has still to tell its last change or a
publish was overtaken. The code allows both kinds of overtaking: the callback
reads the settings before a change and publishes them behind it, and the client
sends its queue behind the first messages of a connection. A session that begins
before `set_on_connected` finds no callback and publishes no discovery.

Proved (`ServicesProofs`): both, for any names, states, queue and faults.
`LinkInv`: a live link is a session under this head's name, and nothing says
"online" before it. `SyncInv`: at each place of the handler, the part of the
broker's state that it has passed is right, or the link failed meanwhile, and
whatever can still be published is in `recent`.

### Wi-Fi: `WifiStation`

Three tasks: the one that runs `init()` and waits for a bit, the event loop that
handles `posted` in order, and the web server or the portal. `radio` and
`router` are external. A save of credentials may keep either key (`Saves`).

`StationPersists` with the code's five retries and three faults: an outage that
is overcome, one that is not, and a change of credentials. Proved
(`ServicesProofs`) for any number of retries: `PersistInv` says that the retry
counter is the number of attempts and links lost since the last address, and
that the last event posted of a station at rest is never an address, so that no
rest is overlooked.

### Firmware: `FirmwareUpdate` implements `UpdateClaim`

| variables | code |
|---|---|
| `doing`, `busy` | where `handle_ota_upload`, the MQTT handler and `url_task` are; `s_busy` |
| `status`, `untold` | `s_status.state`; the copy that `set_status` hands to its callback outside the lock |
| `checker`, `asked`, `checking`, `offered` | `checker_task`, its notification, `s_upd` |
| `stage` | how far `app_main` has come |
| `flash`, `mark`, `boot`, `running` | the two slots and the boot loader (external) |
| `bar` | the progress bar that Home Assistant keeps |
| `healthy`, `resets` | history and bound |

A percentage is one action, repeated; an image is a number or `Junk`. A transfer
may break off at every step and a reset may come at any. `mark_valid` may fail.
`BootLoader` is modelled from the configuration with rollback enabled, and gives
an unconfirmed image up at the second start.

`UpdateClaim` knows only who updates and what the spare slot holds: a claim is
taken when nobody has it, the spare slot changes in its owner's hands, and a
power cycle ends it. A download that ends well keeps its claim until its restart;
an upload gives it back just before, which the abstract `Give` permits since it
writes no more.

`OneUpdater` (the refinement), `ShownTruthfully`, `WayBack`, `RollsBack` and, under
`FirmwareFairness`, `PipelineFreed`. Two images and two resets: a second image
on trial, torn off once while it is loaded and once before it is confirmed.
Fairness: the updater's task runs; every read of a body or socket has a time
limit and an image has an end, so that a load which could end again and again
ends (`SF` on `LocalEnd`, `PullEnd`); the checker and the start-up go on. In a
behaviour in which another service runs, none of these steps is possible and the fairness
asks nothing.

Proved (`FirmwareUpdateProofs`), for any number of images and resets: the four
safety properties. `PipelineInv` ties the claim, the status and every
callback on its way to the one task that is past `try_claim()`; `QuietInv` says
that nothing works before the network is up; `RollbackInv` says what the two
marks can be together: an image on trial has a confirmed, healthy one beside
it, and no upload loads while it is on trial, since `esp_ota_begin` refuses.

### The group view: `GroupView`

| variables | code |
|---|---|
| `here`, `looks` | settings and status of this head and of the peers, by what `observe()` makes of them |
| `grouped`, `members` | `in_group()`, `g.peers` |
| `round`, `left`, `answer`, `slow` | where `group_poll_task` is in its round |
| `cache` | `s_peer_cache`, with ages for `updated_us` |
| `led`, `sent` | the light; `s_last_pub` |
| `alive`, `flagged`, `queue`, `topic` | the connection, `g_connected`, the client's outbox, the retained status |
| `behind`, `calm`, `viewFaults` | history and bound |

`View` puts the observations through `evaluate_group` of `GroupPolicy`. Time has
ticks of 15 s: the twelve seconds between two rounds take one, and the calls of
a round, at most five seconds for each of up to three peers, one more at most;
an answer is trusted for 45 s, three ticks. A head in a larger group whose peers
all time out may need longer than 45 s for a round, and its view then passes
through "indeterminate". What is published is reduced to the status; the rest
of the message changes with it or is for display.

`GroupSeenTruthfully`: when the group has changed nothing for longer than answers
are trusted, "ok" is said only of a group in which all is well, and "conflict"
only where there is one, whoever has fallen silent; and two ticks later the
light agrees. The bound is sharp: with `calm >= Trusted` it fails, since an
answer can be a tick old when it is stored. `GroupTold`: Home Assistant and the
light end at how the group stands, or with a peer out of reach at anything but
"ok". One peer, three looks (off, heating, held back while it wants to cool) and two disturbances: a
conflict that begins and its peer that falls silent, or a link that dies around
a change. Fairness: the task makes its rounds, since every call of it has a time
limit, and the MQTT client reconnects and sends what it kept.

Proved (`ServicesProofs`): `ViewTypes` and `SeenTruthfully`, for any finite set of
peers, any looks and any time for which answers are trusted. `SeenInv` relates
every copy to its age: an answer on its way is true or the group has changed
within this round (*AnswerInv*); an entry that is still used is true or the group
has changed since it was stored, but for the tick that its answer took
(*CacheInv*); the light is true or the group has changed within the time answers
are trusted and the ticks of the round (*LedInv*). To get from entries to the
view the proof shows that `evaluate_group` looks at this head and at every
member, in whatever order, and that an "ok" or an alarm which it finds knowing
only some of them it would find knowing all (`KnowingLess`).
Only model-checked: `GroupTold`, which is liveness; so nothing is proved about the
topic, and what `GroupTold` says of it leaves out behaviours in which a publish is
dropped, or an older queued one comes behind it (`behind`).

## Findings

- **A setter during a SET loses its flag** (`cn105.cpp:298`, `cn105_lost_intent`).
  The ACK clears all dirty flags, those of setters that ran after the SET was
  composed as well; a settings reply that is adopted before the next flush then
  overwrites the user's value.
- **A link that comes back is not reported** (`cn105.cpp:276`,
  `cn105_never_told`). No path raises the change flag on reconnection; with the
  settings unchanged MQTT goes on publishing `connected = false`.
- **A user command at the end of a probe is overwritten** (`capability.cpp:129`,
  `wide_vane_user_loses`): the counter is read, then the restore is written.
- **A head that is paired again can reuse a stamp** (`group_config.cpp:595`,
  `group_rejoin`): two heads then keep different labels for good.
- **"stale" counts as converged** (`web_ui.cpp:1389`, `group_sync_ok`). Two heads
  asked for opposite targets at once issue the same number, refuse each other,
  and both report "ok" with the zones opposed.

A zone that was just turned off is turned on by an operation that looks before
the driver shows it. The comment that a resolution "can never silently turn an OFF
zone on" (`group_proto.cpp:354`) is true of the state that the plan is given, and
so of every zone that has come to show off (`OffStaysOff`), not of a zone at the
moment the plan is carried out. In the same way the boot task's note of the name
(`web_ui.cpp:1077`), read before a rename and written after it, puts the old name
back into the replica (`BootNotes`).

Seen in the models, with no promise in the code against it: a
second operation is "aligned" while the first is still being taken, so the zone
ends at the first target; two tasks of one head pass the dwell together; a reboot
forgets the dwell.

A command of another field disturbs a probe (`cn105.cpp:285`), although
`cn105.h:68` says that the driver neither re-asserts nor echoes the wide vane
while one runs. The test whether to flush leaves the vane out, but the flush of a
fan speed sends the whole of `wanted_`, the old vane position included: the unit
leaves the target, and the ACK echoes the old position into `current_`. A powered
vane can then be judged manual. The driver's model has this behaviour on an
undisturbed line with one probe and one command (a setter at `decide` in the
iteration after the target was read back). The runs of the detection do not: their
one other field is the power, and a flush of it ends the probe without a verdict.

The one-shot of a probe is announced as "just the wide-vane field"
(`cn105.cpp:327`). The copy it is composed from is taken before the line is
drained and compared after it: when the drain reads a reply that differs from the
copy, say a power just switched off with the remote control, the frame carries
the old value of that field as well and undoes the change (`ShotComposed`,
`ProbeSend`).

From the services: the connected callback is registered after the client was
started, so that a broker that answers at once connects a head that publishes no
discovery until it connects again (`NoCallback`); a message that was kept while
the link was down is sent behind newer ones and can leave an old retained state
(`overtaken`); `leave_group` empties the replica in memory before it knows that
NVS took it (`ghost`); after five attempts the station makes none until a
restart, and a portal that was opened because the router was away stays open
when it returns; `check_now` sets a flag that only the checker task resets, and
that task may not exist; the replies of `POST /api/auth` and of
`handle_mqtt_post` do not tell whether anything was saved.

Noticed and not modelled: the merge forgets the name register of a dropped
member, so it is not associative in names; `merge_remote_json` does not compare
group ids; two heads that evict each other become two groups of one; leaving
writes no tombstone, so the others list the departed head for ever; a manual
detection request made while a probe runs stays set, against `capability.h:72`;
the retained status of the group (`web_ui.cpp:1224`) is remembered as sent before
it is published and is not repeated while it stays the same, so that a message
that was dropped, overtaken (`behind`) or lost by the broker is not made good;
an answer of more than 4096 bytes is cut and then fails its signature, so that a
group whose replica outgrows that is not polled at all.

## Not modelled

- *Power, diagnostics and status LED*: readings and counters that are sampled
  and shown; no decision of another component depends on them.
- *Web user interface*: a page that shows what the REST API returns; the
  handlers behind it are modelled with what they change.
- *Codec*: bytes, checksums and tables are data here; a frame is what it says
  (`Cn105Driver`). An exhaustive test of a pure table says more than a model.
- Of the *conflict view*: who holds the lock, warnings and the lists for display.
- Of *Wi-Fi*: scanning, host names, mDNS records other than the pairing flag,
  and the DNS server of the portal, which answers every query alike.
- Of *MQTT*: diagnostic and group entities, which are published beside the
  modelled ones by the same calls, and the syntax of topics and payloads.
- Of *pairing*: the secrets and their signatures; a right code is a choice.

## What the proofs cannot reach

Liveness under fairness and `ENABLED` stay with TLC: `Converges` (of the driver and
of the replicas), `IntentDelivered`, `RequestsServed`, `EvictedLeaves`, `PipelineFreed`
and `GroupTold`. Every invariant and every action property of a passing run is a theorem.

The library's induction theorems cannot be instantiated here, but the rule of
the least counterexample can (`Least`, from `WFMin` of `WellFoundedInduction`): what
is recursive in the code that is modelled are loops over members, lines or
samples, written as functions and set expressions, and where a proof needs
induction over one it takes the least index at which the claim fails.
