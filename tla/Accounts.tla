------------------------------- MODULE Accounts -------------------------------
(***************************************************************************)
(* Accounts and sessions (main/auth_manager.cpp) with the web handlers     *)
(* that use them.  Every setter changes memory and saves all keys, one     *)
(* after the other; a save can fail key by key or be cut by a reset, and   *)
(* no setter looks at its result.  The settings request is a sequence of   *)
(* such setters.  The web server is one task, so that requests do not      *)
(* overlap; a reset comes anywhere.                                        *)
(***************************************************************************)
EXTENDS Naturals, FiniteSets

CONSTANTS
  Passwords,      \* passwords people type
  Legacy,         \* the password older firmware came with
  NoPassword,     \* none is set
  Clients,        \* browsers
  Nobody,         \* no browser: the cookie of this session is gone
  MaxSessions,    \* AUTH_MAX_SESSIONS
  Lifetime,       \* AUTH_SESSION_LIFETIME_SEC, in units of the clock
  MaxClock,       \* bound: the clock
  MaxAccountFaults  \* bound: resets and failed saves

ASSUME AccountsAssumption ==
  /\ Legacy \in Passwords /\ NoPassword \notin Passwords
  /\ Nobody \notin Clients
  /\ MaxSessions \in Nat \ {0} /\ Lifetime \in Nat
  /\ MaxClock \in Nat /\ MaxAccountFaults \in Nat

Slots  == 1 .. MaxSessions
Held   == Passwords \cup {NoPassword}
Roles  == {"user", "admin"}
NoSession == [open |-> FALSE]
Session == {NoSession} \cup
  [open : {TRUE}, holder : Clients \cup {Nobody}, role : Roles,
   born : Nat, used : Nat, by : Passwords]

(* What is saved, in the order of save_to_nvs(); the name is always "admin". *)
Keys == <<"web", "api", "admin", "user", "key">>
Saved == [web : BOOLEAN, api : BOOLEAN, admin : Held, user : Held, key : BOOLEAN]

VARIABLES
  mem,        \* state, without the sessions
  nvs,        \* its keys in flash
  saving,     \* inside save_to_nvs()
  sessions,   \* state.sessions
  clock,      \* monotonic_now()
  post,       \* where POST /api/auth is
  typed,      \* admin_pw_provided
  degraded,   \* history: a save has failed since the device was new
  faults      \* resets and failed saves so far

accountVars == <<mem, nvs, saving, sessions, clock, post, typed, degraded, faults>>

AccountsTypeOK ==
  /\ mem \in Saved /\ nvs \in Saved
  /\ sessions \in [Slots -> Session]
  /\ clock \in 0 .. MaxClock
  /\ post \in {"boot", "idle", "password", "user", "remove", "web", "api", "key",
              "reply"}
  /\ saving \in BOOLEAN /\ typed \in BOOLEAN /\ degraded \in BOOLEAN
  /\ faults \in 0 .. MaxAccountFaults

Blank == [web |-> FALSE, api |-> FALSE, admin |-> NoPassword, user |-> NoPassword,
          key |-> FALSE]

(* A new device, or one that comes from the older firmware. *)
AccountsInit ==
  /\ nvs \in {Blank, [Blank EXCEPT !.web = TRUE, !.admin = Legacy, !.key = TRUE]}
  /\ mem = nvs
  /\ sessions = [s \in Slots |-> NoSession]
  /\ clock = 0
  /\ post = "boot"
  /\ saving = FALSE /\ typed = FALSE /\ degraded = FALSE
  /\ faults = 0

--------------------------------------------------------------------------------
(* A setter: memory becomes m, and save_to_nvs() begins. *)
Change(m) == mem' = m /\ saving' = TRUE /\ UNCHANGED <<nvs, degraded, faults>>

KeysUpTo(n) == {Keys[i] : i \in 1 .. n}
Stored(ks) == [k \in DOMAIN nvs |-> IF k \in ks THEN mem[k] ELSE nvs[k]]

(* save_to_nvs() ends: with every key written, or with some refused, which it *)
(* returns and its callers ignore.                                            *)
SaveEnds ==
  /\ saving /\ saving' = FALSE
  /\ \/ /\ nvs' = Stored(KeysUpTo(5))
        /\ UNCHANGED <<degraded, faults>>
     \/ /\ faults < MaxAccountFaults
        /\ \E ks \in SUBSET KeysUpTo(5) : nvs' = Stored(ks)
        /\ degraded' = TRUE
        /\ faults' = faults + 1
  /\ UNCHANGED <<mem, sessions, clock, post, typed>>

(* A reset, in the middle of a save too; memory is loaded from flash. *)
AccountsReset ==
  /\ faults < MaxAccountFaults
  /\ faults' = faults + 1
  /\ \E n \in 0 .. 5 : nvs' = IF saving THEN Stored(KeysUpTo(n)) ELSE nvs
  /\ mem' = nvs'
  /\ sessions' = [s \in Slots |-> NoSession]
  /\ clock' = 0
  /\ post' = "boot"
  /\ typed' = FALSE /\ saving' = FALSE
  /\ UNCHANGED degraded

--------------------------------------------------------------------------------
(* auth_mgr_init(): three repairs, each saved. *)
OldDefault   == mem.admin = Legacy
Unreachable  == mem.web /\ mem.admin = NoPassword
Booting      == post = "boot" /\ ~saving

ClearOldDefault ==
  /\ Booting /\ OldDefault
  /\ Change([mem EXCEPT !.admin = NoPassword, !.web = FALSE])
  /\ UNCHANGED <<sessions, clock, post, typed>>

MakeKey ==
  /\ Booting /\ ~OldDefault /\ ~mem.key
  /\ Change([mem EXCEPT !.key = TRUE])
  /\ UNCHANGED <<sessions, clock, post, typed>>

UnlockWeb ==
  /\ Booting /\ ~OldDefault /\ mem.key /\ Unreachable
  /\ Change([mem EXCEPT !.web = FALSE])
  /\ UNCHANGED <<sessions, clock, post, typed>>

(* Mutant: without the last repair. *)
BootedUnrepaired ==
  /\ Booting /\ ~OldDefault /\ mem.key
  /\ post' = "idle"
  /\ UNCHANGED <<mem, nvs, saving, sessions, clock, typed, degraded, faults>>

Booted ==
  /\ Booting /\ ~OldDefault /\ mem.key /\ ~Unreachable
  /\ post' = "idle"
  /\ UNCHANGED <<mem, nvs, saving, sessions, clock, typed, degraded, faults>>

--------------------------------------------------------------------------------
Idle == post = "idle" /\ ~saving
TooOld(s) == clock - sessions[s].born > Lifetime
Of(c) == {s \in Slots : sessions[s].open /\ sessions[s].holder = c}
Valid(c) == {s \in Of(c) : ~TooOld(s)}

(* auth_mgr_session_role() of the cookie of c: an expired session is closed, *)
(* another one is used.                                                      *)
Touched(c) ==
  [s \in Slots |-> IF s \notin Of(c) THEN sessions[s]
                   ELSE IF TooOld(s) THEN NoSession
                   ELSE [sessions[s] EXCEPT !.used = clock]]

(* admin_authorized(): no login is required, or there is the API key, or the *)
(* session of an administrator.                                              *)
AdminAuthorized(c) ==
  \/ (~mem.web \/ mem.api) /\ UNCHANGED sessions
  \/ /\ mem.web
     /\ \E s \in Valid(c) : sessions[s].role = "admin"
     /\ sessions' = Touched(c)

(* Any authorized GET: the session is looked up, and that is all. *)
Request(c) ==
  /\ Idle /\ mem.web
  /\ sessions' = Touched(c)
  /\ UNCHANGED <<mem, nvs, saving, clock, post, typed, degraded, faults>>

(* find_free_session(): a free slot, or the one used longest ago of those *)
(* this role may take; the first of equals.                               *)
Evictable(role) == {s \in Slots : role = "admin" \/ sessions[s].role # "admin"}
FreeSlot(role) ==
  LET free == {s \in Slots : ~sessions[s].open}
      may  == Evictable(role)
  IN  IF free # {} THEN {s \in free : \A t \in free : s <= t}
      ELSE {s \in may : \A t \in may : \/ sessions[s].used < sessions[t].used
                                       \/ sessions[s].used = sessions[t].used /\ s <= t}

(* auth_mgr_login(): the password decides the role, the administrator's first. *)
RoleOf(p) == IF p = mem.admin THEN {"admin"} ELSE IF p = mem.user THEN {"user"} ELSE {}

Login(c, p) ==
  /\ Idle /\ mem.web
  /\ \E role \in RoleOf(p) : \E s \in FreeSlot(role) :
       sessions' = [t \in Slots |->
         IF t = s THEN [open |-> TRUE, holder |-> c, role |-> role,
                        born |-> clock, used |-> clock, by |-> p]
         ELSE IF t \in Of(c) THEN [sessions[t] EXCEPT !.holder = Nobody]
         ELSE sessions[t]]
  /\ UNCHANGED <<mem, nvs, saving, clock, post, typed, degraded, faults>>

Logout(c) ==
  /\ Idle
  /\ sessions' = [s \in Slots |-> IF s \in Of(c) THEN NoSession ELSE sessions[s]]
  /\ UNCHANGED <<mem, nvs, saving, clock, post, typed, degraded, faults>>

AllOut == sessions' = [s \in Slots |-> NoSession]

(* Mutant: only a removed account loses its sessions. *)
UsersStay == UNCHANGED sessions

UsersOut == sessions' = [s \in Slots |-> IF sessions[s].open /\ sessions[s].role = "user"
                                         THEN NoSession ELSE sessions[s]]

--------------------------------------------------------------------------------
(* POST /api/auth, step by step: a part of the request that is absent is *)
(* passed over; one that is refused ends it, with what came before kept. *)
PostBegin(c) ==
  /\ Idle /\ AdminAuthorized(c)
  /\ post' = "password" /\ typed' = FALSE
  /\ UNCHANGED <<mem, nvs, saving, clock, degraded, faults>>

At(step) == post = step /\ ~saving
Goes(step) == post' = step
Skip(step, next) ==
  /\ At(step) /\ Goes(next)
  /\ UNCHANGED <<mem, nvs, saving, sessions, clock, typed, degraded, faults>>

(* auth_mgr_set_admin_password *)
SetAdminPassword(p) ==
  /\ At("password") /\ p # mem.user
  /\ Change([mem EXCEPT !.admin = p])
  /\ AllOut /\ typed' = TRUE
  /\ Goes("user") /\ UNCHANGED clock

(* Mutant: any password will do for the climate-only account. *)
SetUserPasswordAny(p) ==
  /\ At("user")
  /\ Change([mem EXCEPT !.user = p])
  /\ UsersOut
  /\ Goes("remove") /\ UNCHANGED <<clock, typed>>

(* auth_mgr_set_user_password *)
SetUserPassword(p) ==
  /\ At("user") /\ p # mem.admin
  /\ Change([mem EXCEPT !.user = p])
  /\ UsersOut
  /\ Goes("remove") /\ UNCHANGED <<clock, typed>>

RemoveUser ==
  /\ At("remove")
  /\ Change([mem EXCEPT !.user = NoPassword])
  /\ UsersOut
  /\ Goes("web") /\ UNCHANGED <<clock, typed>>

(* auth_mgr_set_web_auth_enabled: to turn it on takes a password typed in the *)
(* same request.                                                              *)
SetWebAuth(want) ==
  /\ At("web") /\ want # mem.web
  /\ want => typed /\ mem.admin # NoPassword
  /\ Change([mem EXCEPT !.web = want])
  /\ IF want THEN UNCHANGED sessions ELSE AllOut
  /\ Goes("api") /\ UNCHANGED <<clock, typed>>

SetApiAuth(want) ==
  /\ At("api") /\ want # mem.api
  /\ Change([mem EXCEPT !.api = want])
  /\ Goes("key") /\ UNCHANGED <<sessions, clock, typed>>

(* auth_mgr_regenerate_api_key *)
RegenerateKey ==
  /\ At("key")
  /\ Change([mem EXCEPT !.key = TRUE])
  /\ Goes("reply") /\ UNCHANGED <<sessions, clock, typed>>

(* The 400 answers, and the reply that everything is "ok". *)
Refused == \/ At("password") /\ mem.user # NoPassword
           \/ At("user") /\ mem.admin # NoPassword
           \/ At("web") /\ ~mem.web /\ ~typed
Refuse ==
  /\ Refused /\ Goes("idle")
  /\ UNCHANGED <<mem, nvs, saving, sessions, clock, typed, degraded, faults>>

Replied == Skip("reply", "idle")

--------------------------------------------------------------------------------
Tick ==
  /\ clock < MaxClock /\ clock' = clock + 1
  /\ UNCHANGED <<mem, nvs, saving, sessions, post, typed, degraded, faults>>

Boots  == ClearOldDefault \/ MakeKey \/ UnlockWeb \/ Booted
Passed == \/ Skip("password", "user") \/ Skip("user", "remove") \/ Skip("remove", "web")
          \/ Skip("web", "api") \/ Skip("api", "key") \/ Skip("key", "reply")
Setters == \/ \E p \in Passwords : SetAdminPassword(p) \/ SetUserPassword(p)
           \/ RemoveUser \/ RegenerateKey
           \/ \E want \in BOOLEAN : SetWebAuth(want) \/ SetApiAuth(want)
Browsing == \E c \in Clients : \/ Request(c) \/ Logout(c) \/ PostBegin(c)
                               \/ \E p \in Passwords : Login(c, p)

AccountsNext == \/ SaveEnds \/ AccountsReset \/ Boots \/ Browsing
                \/ Passed \/ Setters \/ Refuse \/ Replied \/ Tick

AccountsSpec == AccountsInit /\ [][AccountsNext]_accountVars

--------------------------------------------------------------------------------
(* Nobody is locked out: once the device has started, a login is required   *)
(* only where there is an administrator's password to log in with, whatever *)
(* saves failed or were cut before.                                         *)
NoLockout == post # "boot" => (mem.web => mem.admin # NoPassword)

(* A session never outlives what it was opened with: it is backed by the    *)
(* password now in force for its role, and by the requirement to log in.    *)
SessionsBacked ==
  \A s \in Slots : sessions[s].open =>
    /\ mem.web
    /\ sessions[s].by = IF sessions[s].role = "admin" THEN mem.admin ELSE mem.user

(* As long as no save failed, flash and memory hold the same between two    *)
(* requests, and in both the two passwords differ, resets inside a save     *)
(* included: nobody logs in as administrator with the user's password.      *)
Differ(m) == m.admin # NoPassword => m.admin # m.user
AccountsKept ==
  ~degraded => /\ Idle => nvs = mem
               /\ Differ(mem) /\ Differ(nvs)

================================================================================
