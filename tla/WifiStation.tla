----------------------------- MODULE WifiStation -----------------------------
(***************************************************************************)
(* The station and the captive portal (main/wifi_manager.cpp), with the    *)
(* web handlers that change the credentials.  Three tasks take part: the   *)
(* one that runs init() and waits, the event loop that runs on_event(),    *)
(* and a web server; the radio posts events in order.                      *)
(***************************************************************************)
EXTENDS Naturals, Sequences

CONSTANTS
  Nets,          \* networks; a network's password is named like it
  NoNet,         \* nothing creds
  Open,          \* the empty password
  Retries,       \* the 5 of on_event()
  MaxWifiFaults  \* bound: resets, outages and changes of credentials

ASSUME WifiAssumption ==
  /\ NoNet \notin Nets \cup {Open} /\ Open \notin Nets
  /\ Retries \in Nat /\ MaxWifiFaults \in Nat

Creds == [ssid : Nets \cup {NoNet}, pass : Nets \cup {NoNet, Open}]
Empty == [ssid |-> NoNet, pass |-> NoNet]

VARIABLES
  creds,      \* the two keys in NVS
  using,       \* s_ssid, s_pass
  mode,        \* s_mode; "boot": before init()
  radio,       \* the station: "off", "still", "trying" or "up"
  posted,      \* events for on_event()
  retries,     \* s_retries
  bits,        \* s_events
  timer,       \* s_reboot_timer
  router,      \* the home network is on the air
  misses,      \* history: attempts and links lost since the last address
  wifiFaults

stationVars == <<radio, posted, retries, bits, misses>>
wifiVars == <<creds, using, mode, stationVars, timer, router, wifiFaults>>

WifiTypeOK ==
  /\ creds \in Creds /\ using \in Creds
  /\ mode \in {"boot", "CONNECTING", "CONNECTED", "PROVISIONING"}
  /\ radio \in {"off", "still", "trying", "up"}
  /\ posted \in Seq({"start", "down", "ip"})
  /\ retries \in Nat /\ misses \in Nat
  /\ bits \subseteq {"connected", "fail"}
  /\ timer \in {"off", "soon", "late"}
  /\ router \in BOOLEAN
  /\ wifiFaults \in 0 .. MaxWifiFaults

WifiInit ==
  /\ creds \in {Empty} \cup {[ssid |-> n, pass |-> n] : n \in Nets}
  /\ using = Empty
  /\ mode = "boot"
  /\ radio = "off" /\ posted = <<>>
  /\ retries = 0 /\ bits = {} /\ misses = 0
  /\ timer = "off"
  /\ router \in BOOLEAN
  /\ wifiFaults = 0

WifiFault == wifiFaults < MaxWifiFaults /\ wifiFaults' = wifiFaults + 1

--------------------------------------------------------------------------------
(* Every way to start again: memory is gone, flash is c. *)
StartOver(c) ==
  /\ creds' = c /\ using' = Empty
  /\ mode' = "boot"
  /\ radio' = "off" /\ posted' = <<>>
  /\ retries' = 0 /\ bits' = {} /\ misses' = 0
  /\ timer' = "off"
  /\ UNCHANGED router

(* save_credentials(): two keys, either of which a refused write may leave as *)
(* it was, as a reset may the second; the caller is not told.                 *)
Saves(c) == {creds, [creds EXCEPT !.ssid = c.ssid], [creds EXCEPT !.pass = c.pass], c}

WifiReset == WifiFault /\ StartOver(creds)

(* load_creds() finds both keys, or, in a build without credentials of its own, *)
(* init() goes straight to the portal.                                          *)
Connect ==
  /\ mode = "boot" /\ creds.ssid # NoNet /\ creds.pass # NoNet
  /\ using' = creds /\ mode' = "CONNECTING"
  /\ radio' = "still" /\ posted' = <<"start">>
  /\ UNCHANGED <<creds, retries, bits, misses, timer, router, wifiFaults>>

(* start_provisioning(): the access point, with the station beside it. *)
StartProvisioning ==
  /\ mode' = "PROVISIONING"
  /\ radio' = "still"

Provision ==
  /\ mode = "boot" /\ (creds.ssid = NoNet \/ creds.pass = NoNet)
  /\ StartProvisioning /\ posted' = <<"start">>
  /\ UNCHANGED <<creds, using, retries, bits, misses, timer, router, wifiFaults>>

(* init() has waited long enough, or for a bit.  The portal starts from a    *)
(* station that is stopped, which may still tell of the link it drops.       *)
Connected ==
  /\ mode = "CONNECTING" /\ "connected" \in bits
  /\ mode' = "CONNECTED"
  /\ UNCHANGED <<creds, using, stationVars, timer, router, wifiFaults>>

ConnectFails ==
  /\ mode = "CONNECTING" /\ "connected" \notin bits
  /\ StartProvisioning
  /\ posted' \in {posted \o <<"start">>} \cup
       IF radio \in {"trying", "up"} THEN {posted \o <<"down", "start">>} ELSE {}
  /\ UNCHANGED <<creds, using, retries, bits, misses, timer, router, wifiFaults>>

--------------------------------------------------------------------------------
(* The radio: an attempt succeeds or fails, and a link may be lost. *)
Heard == router /\ using.ssid = using.pass
Post(e) == posted' = Append(posted, e)

AttemptEnds ==
  /\ radio = "trying"
  /\ \/ Heard /\ radio' = "up" /\ Post("ip")
     \/ radio' = "still" /\ Post("down")
  /\ UNCHANGED <<creds, using, mode, retries, bits, misses, timer, router, wifiFaults>>

RouterToggles ==
  /\ WifiFault
  /\ router' = ~router
  /\ IF radio = "up" THEN radio' = "still" /\ Post("down") ELSE UNCHANGED <<radio, posted>>
  /\ UNCHANGED <<creds, using, mode, retries, bits, misses, timer>>

Handles(e) == posted # <<>> /\ Head(posted) = e /\ posted' = Tail(posted)

(* esp_wifi_connect(), which does nothing for a station that has been given no *)
(* network.                                                                    *)
Tries == radio' = IF radio = "still" /\ using # Empty THEN "trying" ELSE radio

(* on_event(), one event after the other. *)
OnStart ==
  /\ Handles("start") /\ Tries
  /\ UNCHANGED <<creds, using, mode, retries, bits, misses, timer, router, wifiFaults>>

OnDisconnected ==
  /\ Handles("down")
  /\ retries' = retries + 1 /\ misses' = misses + 1
  /\ IF retries < Retries THEN Tries /\ UNCHANGED bits
     ELSE bits' = bits \cup {"fail"} /\ UNCHANGED radio
  /\ UNCHANGED <<creds, using, mode, timer, router, wifiFaults>>

(* Mutant: the attempts of the last outage still count. *)
OnGotIpCounting ==
  /\ Handles("ip")
  /\ misses' = 0
  /\ bits' = bits \cup {"connected"}
  /\ UNCHANGED <<creds, using, mode, radio, retries, timer, router, wifiFaults>>

OnGotIp ==
  /\ Handles("ip")
  /\ retries' = 0 /\ misses' = 0
  /\ bits' = bits \cup {"connected"}
  /\ UNCHANGED <<creds, using, mode, radio, timer, router, wifiFaults>>

--------------------------------------------------------------------------------
(* The portal: credentials are saved, and the restart is put off for as long *)
(* as the page is read, anew with every save.                                *)
PortalConnect ==
  /\ mode = "PROVISIONING" /\ WifiFault
  /\ \E n \in Nets : \E p \in Nets \cup {Open} : creds' \in Saves([ssid |-> n, pass |-> p])
  /\ timer' = "late"
  /\ UNCHANGED <<using, mode, stationVars, router>>

PortalFinish ==
  /\ mode = "PROVISIONING"
  /\ timer' = "soon"
  /\ UNCHANGED <<creds, using, mode, stationVars, router, wifiFaults>>

TimerFires ==
  /\ timer # "off"
  /\ StartOver(creds) /\ UNCHANGED wifiFaults

(* handle_wifi_post: without a password the one in use is kept. *)
WifiPost ==
  /\ mode = "CONNECTED" /\ WifiFault
  /\ \E n \in Nets : \E p \in Nets \cup {using.pass} :
       \E c \in Saves([ssid |-> n, pass |-> p]) : StartOver(c)

FactoryReset ==
  /\ mode = "CONNECTED" /\ WifiFault
  /\ \E c \in {creds, Empty} : StartOver(c)

WifiNext ==
  \/ WifiReset \/ Connect \/ Provision \/ Connected \/ ConnectFails
  \/ AttemptEnds \/ RouterToggles
  \/ OnStart \/ OnDisconnected \/ OnGotIp
  \/ PortalConnect \/ PortalFinish \/ TimerFires \/ WifiPost \/ FactoryReset

WifiSpec == WifiInit /\ [][WifiNext]_wifiVars

--------------------------------------------------------------------------------
(* The station gives an outage up only after all its attempts: as long as    *)
(* one is left it is up, trying, or about to hear that it must try, whatever *)
(* outages it has overcome before.                                           *)
StationPersists ==
  mode \in {"CONNECTING", "CONNECTED"} /\ radio = "still" /\ posted = <<>>
    => misses > Retries
================================================================================
