---------------------------- MODULE AccountsProofs ----------------------------
(***************************************************************************)
(* Accounts and sessions: proofs for every set of passwords and browsers,  *)
(* every number of sessions and faults.  One invariant of memory and flash *)
(* and one of the sessions; a setter touches both, in that order.          *)
(***************************************************************************)
EXTENDS Accounts, TLAPS

Closed == \A s \in Slots : sessions[s] = NoSession

(* Between two saves flash is memory; inside one at most one password differs, *)
(* so that no cut pairs an administrator's password with a user's like it.     *)
MemoryInv ==
  ~degraded => /\ ~saving => nvs = mem
               /\ mem.admin = nvs.admin \/ mem.user = nvs.user
               /\ Differ(mem) /\ Differ(nvs)

SessionsInv ==
  /\ post = "boot" => Closed
  /\ SessionsBacked

AccountsInv == AccountsTypeOK /\ NoLockout /\ MemoryInv /\ SessionsInv

-------------------------------------------------------------------------------
(* Sessions                                                                *)

OpenSession ==
  [open : {TRUE}, holder : Clients \cup {Nobody}, role : Roles,
   born : Nat, used : Nat, by : Passwords]

LEMMA SessionKinds ==
  /\ \A x \in Session : x.open => x \in OpenSession
  /\ \A x \in OpenSession : x \in Session /\ x.open
  /\ NoSession \in Session /\ ~NoSession.open
<1>1. ~NoSession.open
  BY DEF NoSession
<1>2. \A x \in OpenSession : x.open = TRUE
  BY DEF OpenSession
<1>3. Session = {NoSession} \cup OpenSession
  BY DEF Session, OpenSession
<1>4. \A x \in Session : x.open => x \in OpenSession
  BY <1>1, <1>3
<1> QED BY <1>1, <1>2, <1>3, <1>4

(* What a step that opens no session may do to one: nothing, close it, or     *)
(* change who holds it and when it was used.                                  *)
Kept(s) ==
  \/ sessions'[s] = sessions[s]
  \/ sessions'[s] = NoSession
  \/ /\ sessions[s] \in OpenSession /\ sessions'[s] \in OpenSession
     /\ sessions'[s].role = sessions[s].role /\ sessions'[s].by = sessions[s].by

Shrinks == sessions' = [s \in Slots |-> sessions'[s]] /\ \A s \in Slots : Kept(s)

LEMMA KeptTypes ==
  ASSUME sessions \in [Slots -> Session], Shrinks
  PROVE  sessions' \in [Slots -> Session]
<1>1. \A s \in Slots : sessions'[s] \in Session
  BY SessionKinds DEF Shrinks, Kept
<1> QED BY <1>1 DEF Shrinks

LEMMA KeptBacked ==
  ASSUME sessions \in [Slots -> Session], Shrinks, SessionsInv,
         UNCHANGED <<mem, post>> \/ (post' # "boot" /\ mem' = mem)
  PROVE  SessionsInv'
<1>1. \A s \in Slots : sessions'[s].open =>
        sessions[s].open /\ sessions'[s].role = sessions[s].role
                         /\ sessions'[s].by = sessions[s].by
  BY SessionKinds DEF Shrinks, Kept
<1>2. Closed => Closed'
  BY SessionKinds DEF Shrinks, Kept, Closed
<1> QED BY <1>1, <1>2 DEF SessionsInv, SessionsBacked

LEMMA TouchedKept ==
  ASSUME AccountsTypeOK, NEW c, sessions' = Touched(c)
  PROVE  Shrinks
<1>1. ASSUME NEW s \in Slots, s \in Of(c), ~TooOld(s)
      PROVE  Kept(s)
  <2>1. sessions[s] \in OpenSession
    BY <1>1, SessionKinds DEF Of, AccountsTypeOK
  <2>2. sessions'[s] = [sessions[s] EXCEPT !.used = clock] /\ clock \in Nat
    BY <1>1 DEF Touched, AccountsTypeOK
  <2>3. sessions'[s] \in OpenSession /\ sessions'[s].role = sessions[s].role
                                     /\ sessions'[s].by = sessions[s].by
    BY <2>1, <2>2 DEF OpenSession
  <2> QED BY <2>1, <2>3 DEF Kept
<1>2. \A s \in Slots : s \notin Of(c) \/ TooOld(s) => Kept(s)
  BY DEF Touched, Kept
<1> QED BY <1>1, <1>2 DEF Shrinks, Touched

LEMMA ClosedKept ==
  ASSUME AccountsTypeOK,
         AllOut \/ UsersOut \/ UNCHANGED sessions
         \/ \E c \in Clients : sessions' = [s \in Slots |->
              IF s \in Of(c) THEN NoSession ELSE sessions[s]]
  PROVE  Shrinks
<1>1. CASE AllOut
  BY <1>1 DEF AllOut, Shrinks, Kept
<1>2. CASE UsersOut
  BY <1>2 DEF UsersOut, Shrinks, Kept
<1>3. CASE UNCHANGED sessions
  BY <1>3 DEF AccountsTypeOK, Shrinks, Kept
<1>4. ASSUME NEW c \in Clients,
             sessions' = [s \in Slots |-> IF s \in Of(c) THEN NoSession ELSE sessions[s]]
      PROVE  Shrinks
  BY <1>4 DEF Shrinks, Kept
<1> QED BY <1>1, <1>2, <1>3, <1>4

-------------------------------------------------------------------------------
(* Memory and flash                                                        *)

LEMMA KeysSaved ==
  /\ KeysUpTo(0) = {} /\ KeysUpTo(1) = {"web"} /\ KeysUpTo(2) = {"web", "api"}
  /\ KeysUpTo(3) = {"web", "api", "admin"}
  /\ KeysUpTo(4) = {"web", "api", "admin", "user"}
  /\ KeysUpTo(5) = {"web", "api", "admin", "user", "key"}
BY DEF KeysUpTo, Keys

LEMMA StoredSaved ==
  ASSUME mem \in Saved, nvs \in Saved, NEW ks
  PROVE  /\ Stored(ks) \in Saved
         /\ Stored(ks).admin \in {mem.admin, nvs.admin}
         /\ Stored(ks).user \in {mem.user, nvs.user}
         /\ ("user" \in ks => "admin" \in ks) =>
              \/ Stored(ks).admin = mem.admin
              \/ Stored(ks).admin = nvs.admin /\ Stored(ks).user = nvs.user
         /\ {"web", "api", "admin", "user", "key"} \subseteq ks => Stored(ks) = mem
<1>1. DOMAIN nvs = {"web", "api", "admin", "user", "key"}
  BY DEF Saved
<1>2. Stored(ks) = [k \in {"web", "api", "admin", "user", "key"} |->
                      IF k \in ks THEN mem[k] ELSE nvs[k]]
  BY <1>1 DEF Stored
<1>3. Stored(ks) \in Saved
  BY <1>2 DEF Saved
<1>4. /\ Stored(ks).admin = IF "admin" \in ks THEN mem.admin ELSE nvs.admin
      /\ Stored(ks).user = IF "user" \in ks THEN mem.user ELSE nvs.user
  BY <1>2
<1>5. ASSUME {"web", "api", "admin", "user", "key"} \subseteq ks
      PROVE  Stored(ks) = mem
  BY <1>2, <1>5 DEF Saved
<1> QED BY <1>3, <1>4, <1>5

-------------------------------------------------------------------------------
(* The steps, by what they do: a setter, or a step that leaves accounts as they *)
(* are.                                                                         *)

LEMMA SetterKeeps ==
  ASSUME AccountsTypeOK, MemoryInv, ~saving, NEW m \in Saved, Change(m),
         m.admin = mem.admin \/ m.user = mem.user, Differ(m)
  PROVE  mem' = m /\ mem' \in Saved /\ nvs' \in Saved /\ saving' = TRUE
         /\ degraded' = degraded /\ faults' = faults /\ MemoryInv'
BY DEF Change, MemoryInv, AccountsTypeOK

LEMMA SaveKeeps ==
  ASSUME AccountsTypeOK, MemoryInv, SaveEnds
  PROVE  mem' = mem /\ nvs' \in Saved /\ MemoryInv'
<1>1. CASE nvs' = Stored(KeysUpTo(5)) /\ UNCHANGED degraded
  <2>1. nvs' = mem
    BY <1>1, KeysSaved, StoredSaved DEF AccountsTypeOK
  <2> QED BY <1>1, <2>1 DEF MemoryInv, SaveEnds, AccountsTypeOK
<1>2. CASE degraded' = TRUE /\ \E ks \in SUBSET KeysUpTo(5) : nvs' = Stored(ks)
  <2>1. nvs' \in Saved
    BY <1>2, StoredSaved DEF AccountsTypeOK
  <2> QED BY <1>2, <2>1 DEF MemoryInv, SaveEnds
<1> QED BY <1>1, <1>2 DEF SaveEnds

(* What a reset leaves in flash pairs no password with one like it. *)
LEMMA ResetKeeps ==
  ASSUME AccountsTypeOK, MemoryInv, AccountsReset
  PROVE  mem' = nvs' /\ mem' \in Saved /\ ~saving' /\ degraded' = degraded /\ MemoryInv'
<1>1. mem' = nvs' /\ ~saving' /\ degraded' = degraded
  BY DEF AccountsReset
<1>2. PICK n \in 0 .. 5 : nvs' = IF saving THEN Stored(KeysUpTo(n)) ELSE nvs
  BY DEF AccountsReset
<1>3. "user" \in KeysUpTo(n) => "admin" \in KeysUpTo(n)
  BY <1>2, KeysSaved
<1>4. CASE saving
  <2> DEFINE kept == Stored(KeysUpTo(n))
  <2>0. mem \in Saved /\ nvs \in Saved
    BY DEF AccountsTypeOK
  <2>1. /\ kept \in Saved
        /\ kept.admin \in {mem.admin, nvs.admin} /\ kept.user \in {mem.user, nvs.user}
        /\ kept.admin = mem.admin \/ (kept.admin = nvs.admin /\ kept.user = nvs.user)
    <3> DEFINE ks == KeysUpTo(n)
    <3>1. "user" \in ks => "admin" \in ks
      BY <1>3
    <3>2. kept = Stored(ks)
      OBVIOUS
    <3> HIDE DEF ks, kept
    <3> QED BY <2>0, <3>1, <3>2, StoredSaved
  <2>2. nvs' = kept
    BY <1>2, <1>4
  <2> HIDE DEF kept
  <2>3. ~degraded => Differ(kept)
    BY <2>1 DEF MemoryInv, Differ
  <2> QED BY <1>1, <2>1, <2>2, <2>3 DEF MemoryInv
<1>5. CASE ~saving
  BY <1>1, <1>2, <1>5 DEF MemoryInv, AccountsTypeOK
<1> QED BY <1>4, <1>5

LEMMA LoginBacked ==
  ASSUME AccountsTypeOK, SessionsInv, NEW c \in Clients, NEW p \in Passwords, Login(c, p)
  PROVE  sessions' \in [Slots -> Session] /\ SessionsInv'
<1>1. PICK role \in RoleOf(p) : \E s \in FreeSlot(role) :
        sessions' = [t \in Slots |->
          IF t = s THEN [open |-> TRUE, holder |-> c, role |-> role,
                         born |-> clock, used |-> clock, by |-> p]
          ELSE IF t \in Of(c) THEN [sessions[t] EXCEPT !.holder = Nobody]
          ELSE sessions[t]]
  BY DEF Login
<1>2. PICK s \in FreeSlot(role) :
        sessions' = [t \in Slots |->
          IF t = s THEN [open |-> TRUE, holder |-> c, role |-> role,
                         born |-> clock, used |-> clock, by |-> p]
          ELSE IF t \in Of(c) THEN [sessions[t] EXCEPT !.holder = Nobody]
          ELSE sessions[t]]
  BY <1>1
<1> DEFINE new == [open |-> TRUE, holder |-> c, role |-> role,
                   born |-> clock, used |-> clock, by |-> p]
<1>3. role \in Roles /\ p = IF role = "admin" THEN mem.admin ELSE mem.user
  BY <1>1 DEF RoleOf, Roles
<1>4. new \in OpenSession /\ new.role = role /\ new.by = p
  BY <1>3 DEF OpenSession, AccountsTypeOK
<1>5. UNCHANGED <<mem, post>> /\ post = "idle" /\ mem.web
  BY DEF Login, Idle
<1>6. ASSUME NEW t \in Slots
      PROVE  sessions'[t] = new \/ Kept(t)
  <2>1. CASE t # s /\ t \in Of(c)
    <3>1. sessions[t] \in OpenSession
      BY <2>1, SessionKinds DEF Of, AccountsTypeOK
    <3>2. sessions'[t] = [sessions[t] EXCEPT !.holder = Nobody]
      BY <1>2, <2>1
    <3>3. sessions'[t] \in OpenSession /\ sessions'[t].role = sessions[t].role
                                       /\ sessions'[t].by = sessions[t].by
      BY <3>1, <3>2 DEF OpenSession
    <3> QED BY <3>1, <3>3 DEF Kept
  <2>2. CASE t = s
    BY <1>2, <2>2
  <2>3. CASE t # s /\ t \notin Of(c)
    BY <1>2, <2>3 DEF Kept
  <2> QED BY <2>1, <2>2, <2>3
<1> HIDE DEF new
<1>7. \A t \in Slots : sessions'[t] \in Session
  BY <1>4, <1>6, SessionKinds DEF Kept, AccountsTypeOK
<1>8. ASSUME NEW t \in Slots, sessions'[t].open
      PROVE  sessions'[t].by = IF sessions'[t].role = "admin" THEN mem.admin ELSE mem.user
  <2>1. CASE sessions'[t] = new
    BY <2>1, <1>3, <1>4
  <2>2. CASE Kept(t)
    <3>1. sessions[t].open /\ sessions'[t].role = sessions[t].role
                           /\ sessions'[t].by = sessions[t].by
      BY <2>2, <1>8, SessionKinds DEF Kept
    <3> QED BY <3>1 DEF SessionsInv, SessionsBacked
  <2> QED BY <1>6, <2>1, <2>2
<1> QED BY <1>2, <1>5, <1>7, <1>8 DEF SessionsInv, SessionsBacked

(* A step that changes neither account nor flash, or that is refused.         *)
Quiet == UNCHANGED <<mem, nvs, saving, degraded>>

LEMMA QuietKeeps ==
  ASSUME AccountsTypeOK, MemoryInv, NoLockout, Quiet, post' = "boot" => post = "boot",
         post # "boot" \/ (mem.web => mem.admin # NoPassword) \/ post' = "boot"
  PROVE  MemoryInv' /\ NoLockout' /\ mem' \in Saved /\ nvs' \in Saved
BY DEF Quiet, MemoryInv, NoLockout, AccountsTypeOK

LEMMA Fields ==
  ASSUME AccountsTypeOK
  PROVE  /\ mem.web \in BOOLEAN /\ mem.api \in BOOLEAN /\ mem.key \in BOOLEAN
         /\ mem.admin \in Held /\ mem.user \in Held /\ NoPassword \in Held
         /\ \A p \in Passwords : p \in Held /\ p # NoPassword
BY AccountsAssumption DEF AccountsTypeOK, Saved, Held

LEMMA Changed ==
  ASSUME AccountsTypeOK, NEW x \in BOOLEAN, NEW p \in Held
  PROVE  /\ [mem EXCEPT !.web = x] \in Saved /\ [mem EXCEPT !.web = x].web = x
         /\ [mem EXCEPT !.web = x].admin = mem.admin /\ [mem EXCEPT !.web = x].user = mem.user
         /\ [mem EXCEPT !.api = x] \in Saved /\ [mem EXCEPT !.api = x].web = mem.web
         /\ [mem EXCEPT !.api = x].admin = mem.admin /\ [mem EXCEPT !.api = x].user = mem.user
         /\ [mem EXCEPT !.key = x] \in Saved /\ [mem EXCEPT !.key = x].web = mem.web
         /\ [mem EXCEPT !.key = x].admin = mem.admin /\ [mem EXCEPT !.key = x].user = mem.user
         /\ [mem EXCEPT !.admin = p] \in Saved /\ [mem EXCEPT !.admin = p].web = mem.web
         /\ [mem EXCEPT !.admin = p].admin = p /\ [mem EXCEPT !.admin = p].user = mem.user
         /\ [mem EXCEPT !.user = p] \in Saved /\ [mem EXCEPT !.user = p].web = mem.web
         /\ [mem EXCEPT !.user = p].admin = mem.admin /\ [mem EXCEPT !.user = p].user = p
         /\ [mem EXCEPT !.admin = p, !.web = x] \in Saved
         /\ [mem EXCEPT !.admin = p, !.web = x].web = x
         /\ [mem EXCEPT !.admin = p, !.web = x].admin = p
         /\ [mem EXCEPT !.admin = p, !.web = x].user = mem.user
BY DEF AccountsTypeOK, Saved

(* What is proved of every setter once its account m is known. *)
LEMMA SetterStep ==
  ASSUME AccountsInv, ~saving, NEW m \in Saved, Change(m),
         m.admin = mem.admin \/ m.user = mem.user, ~degraded => Differ(m),
         post' = "boot" \/ (m.web => m.admin # NoPassword), Shrinks,
         post' \in {"boot", "idle", "password", "user", "remove", "web", "api", "key", "reply"},
         clock' = clock, typed' \in BOOLEAN,
         post' = "boot" => Closed',
         \A s \in Slots : sessions'[s].open =>
           /\ sessions[s].open /\ m.web /\ sessions'[s].role = sessions[s].role
           /\ sessions'[s].by = sessions[s].by
           /\ IF sessions[s].role = "admin" THEN m.admin = mem.admin ELSE m.user = mem.user
  PROVE  AccountsInv'
<1> USE DEF AccountsInv
<1>1. /\ mem' = m /\ mem' \in Saved /\ nvs' \in Saved /\ saving' = TRUE
      /\ degraded' = degraded /\ faults' = faults /\ MemoryInv'
  <2>1. CASE degraded
    BY <2>1 DEF Change, MemoryInv, AccountsTypeOK
  <2>2. CASE ~degraded
    BY <2>2, SetterKeeps
  <2> QED BY <2>1, <2>2
<1>2. sessions' \in [Slots -> Session]
  BY KeptTypes DEF AccountsTypeOK
<1>3. AccountsTypeOK'
  BY <1>1, <1>2 DEF AccountsTypeOK
<1>4. NoLockout'
  BY <1>1 DEF NoLockout
<1>5. SessionsInv'
  BY <1>1 DEF SessionsInv, SessionsBacked
<1> QED BY <1>1, <1>3, <1>4, <1>5

LEMMA QuietStep ==
  ASSUME AccountsInv, Quiet, Shrinks, faults' = faults, clock' \in 0 .. MaxClock,
         typed' \in BOOLEAN,
         post' = post \/ (post' \in {"boot", "idle", "password", "user", "remove", "web", "api", "key", "reply"} /\ post' # "boot"),
         post' # "boot" => post # "boot" \/ ~Unreachable
  PROVE  AccountsInv'
<1> USE DEF AccountsInv
<1>1. MemoryInv' /\ NoLockout' /\ mem' \in Saved /\ nvs' \in Saved
  BY QuietKeeps DEF Unreachable
<1>2. sessions' \in [Slots -> Session]
  BY KeptTypes DEF AccountsTypeOK
<1>3. AccountsTypeOK'
  BY <1>1, <1>2 DEF AccountsTypeOK, Quiet
<1>4. SessionsInv'
  BY KeptBacked DEF AccountsTypeOK, Quiet
<1> QED BY <1>1, <1>3, <1>4

LEMMA WhoStays ==
  ASSUME AccountsTypeOK, NEW s \in Slots, sessions'[s].open
  PROVE  /\ ~AllOut
         /\ UsersOut => /\ sessions[s].role = "admin" /\ sessions'[s] = sessions[s]
                        /\ sessions[s].open
<1>1. ~AllOut
  BY SessionKinds DEF AllOut
<1>2. ASSUME UsersOut
      PROVE  sessions[s].role = "admin" /\ sessions'[s] = sessions[s] /\ sessions[s].open
  <2>1. sessions'[s] = IF sessions[s].open /\ sessions[s].role = "user"
                       THEN NoSession ELSE sessions[s]
    BY <1>2 DEF UsersOut
  <2>2. sessions'[s] = sessions[s] /\ sessions[s].open /\ sessions[s].role # "user"
    BY <2>1, SessionKinds
  <2>3. sessions[s] \in OpenSession
    BY <2>2, SessionKinds DEF AccountsTypeOK
  <2> QED BY <2>2, <2>3 DEF OpenSession, Roles
<1> QED BY <1>1, <1>2

LEMMA AccountsStep == AccountsInv /\ [AccountsNext]_accountVars => AccountsInv'
<1> SUFFICES ASSUME AccountsInv, [AccountsNext]_accountVars PROVE AccountsInv'
  OBVIOUS
<1>0. AccountsTypeOK /\ NoLockout /\ MemoryInv /\ SessionsInv
  BY DEF AccountsInv
<1>t. clock \in 0 .. MaxClock /\ typed \in BOOLEAN /\ sessions \in [Slots -> Session]
  BY <1>0 DEF AccountsTypeOK
<1>1. CASE SaveEnds
  <2>1. mem' = mem /\ nvs' \in Saved /\ MemoryInv'
    BY <1>0, <1>1, SaveKeeps
  <2>2. UNCHANGED <<sessions, clock, post, typed>> /\ saving' = FALSE
        /\ (degraded' = degraded \/ degraded' = TRUE) /\ faults' \in 0 .. MaxAccountFaults
    <3>1. UNCHANGED <<sessions, clock, post, typed>> /\ saving' = FALSE
      BY <1>1 DEF SaveEnds
    <3>2. \/ degraded' = degraded /\ faults' = faults
          \/ degraded' = TRUE /\ faults < MaxAccountFaults /\ faults' = faults + 1
      BY <1>1 DEF SaveEnds
    <3> QED BY <3>1, <3>2, <1>0, AccountsAssumption DEF AccountsTypeOK
  <2>3. AccountsTypeOK'
    <3>1. degraded' \in BOOLEAN
      BY <1>0, <2>2 DEF AccountsTypeOK
    <3> QED BY <1>0, <2>1, <2>2, <3>1 DEF AccountsTypeOK
  <2>4. NoLockout' /\ SessionsInv'
    BY <1>0, <2>1, <2>2 DEF NoLockout, SessionsInv, SessionsBacked, Closed
  <2> QED BY <2>1, <2>3, <2>4 DEF AccountsInv
<1>2. CASE AccountsReset
  <2>1. mem' = nvs' /\ mem' \in Saved /\ ~saving' /\ degraded' = degraded /\ MemoryInv'
    BY <1>0, <1>2, ResetKeeps
  <2>2. /\ sessions' = [s \in Slots |-> NoSession] /\ clock' = 0 /\ post' = "boot"
        /\ saving' = FALSE /\ typed' = FALSE /\ faults' \in 0 .. MaxAccountFaults
    BY <1>0, <1>2, AccountsAssumption DEF AccountsReset, AccountsTypeOK
  <2>3. AccountsTypeOK'
    <3>1. sessions' \in [Slots -> Session] /\ clock' \in 0 .. MaxClock
      BY <2>2, SessionKinds, AccountsAssumption
    <3>2. degraded' \in BOOLEAN
      BY <1>0, <2>1 DEF AccountsTypeOK
    <3> QED BY <2>1, <2>2, <3>1, <3>2 DEF AccountsTypeOK
  <2>4. NoLockout' /\ SessionsInv'
    BY <2>2, SessionKinds DEF NoLockout, SessionsInv, SessionsBacked, Closed
  <2> QED BY <2>1, <2>3, <2>4 DEF AccountsInv
<1>3. CASE ClearOldDefault
  <2> DEFINE m == [mem EXCEPT !.admin = NoPassword, !.web = FALSE]
  <2>1. /\ m \in Saved /\ m.admin \in {mem.admin, NoPassword} /\ m.user = mem.user
    BY <1>0, Fields, Changed
  <2>2. /\ Change(m) /\ ~saving /\ post' = "boot" /\ post = "boot"
        /\ UNCHANGED <<sessions, clock, typed>>
    BY <1>3 DEF ClearOldDefault, Booting
  <2>3. Closed /\ Closed' /\ \A s \in Slots : ~sessions'[s].open
    BY <1>0, <2>2, SessionKinds DEF SessionsInv, Closed
  <2>4. (~degraded => Differ(m)) /\ Shrinks
    BY <1>0, <2>1, <2>2, ClosedKept DEF MemoryInv, Differ
  <2> HIDE DEF m
  <2> QED BY <2>1, <2>2, <2>3, <2>4, <1>t, SetterStep
<1>4. CASE MakeKey
  <2> DEFINE m == [mem EXCEPT !.key = TRUE]
  <2>1. /\ m \in Saved /\ m.admin \in {mem.admin, NoPassword} /\ m.user = mem.user
    BY <1>0, Fields, Changed
  <2>2. /\ Change(m) /\ ~saving /\ post' = "boot" /\ post = "boot"
        /\ UNCHANGED <<sessions, clock, typed>>
    BY <1>4 DEF MakeKey, Booting
  <2>3. Closed /\ Closed' /\ \A s \in Slots : ~sessions'[s].open
    BY <1>0, <2>2, SessionKinds DEF SessionsInv, Closed
  <2>4. (~degraded => Differ(m)) /\ Shrinks
    BY <1>0, <2>1, <2>2, ClosedKept DEF MemoryInv, Differ
  <2> HIDE DEF m
  <2> QED BY <2>1, <2>2, <2>3, <2>4, <1>t, SetterStep
<1>5. CASE UnlockWeb
  <2> DEFINE m == [mem EXCEPT !.web = FALSE]
  <2>1. /\ m \in Saved /\ m.admin \in {mem.admin, NoPassword} /\ m.user = mem.user
    BY <1>0, Fields, Changed
  <2>2. /\ Change(m) /\ ~saving /\ post' = "boot" /\ post = "boot"
        /\ UNCHANGED <<sessions, clock, typed>>
    BY <1>5 DEF UnlockWeb, Booting
  <2>3. Closed /\ Closed' /\ \A s \in Slots : ~sessions'[s].open
    BY <1>0, <2>2, SessionKinds DEF SessionsInv, Closed
  <2>4. (~degraded => Differ(m)) /\ Shrinks
    BY <1>0, <2>1, <2>2, ClosedKept DEF MemoryInv, Differ
  <2> HIDE DEF m
  <2> QED BY <2>1, <2>2, <2>3, <2>4, <1>t, SetterStep
<1>6. CASE Booted
  <2>1. Quiet /\ faults' = faults /\ clock' \in 0 .. MaxClock /\ typed' \in BOOLEAN
    BY <1>6, <1>t DEF Booted, Booting, Quiet
  <2>2. Shrinks
    BY <1>6, <1>0, ClosedKept DEF Booted, Booting
  <2>3. /\ post' = post \/ post' \in {"boot", "idle", "password", "user", "remove", "web", "api", "key", "reply"} \ {"boot"}
        /\ post' # "boot" => post # "boot" \/ ~Unreachable
    BY <1>6 DEF Booted, Booting
  <2> QED BY <2>1, <2>2, <2>3, QuietStep
<1>7. CASE \E c \in Clients : Request(c)
  <2>1. Quiet /\ faults' = faults /\ clock' \in 0 .. MaxClock /\ typed' \in BOOLEAN
    BY <1>7, <1>t DEF Request, Idle, Quiet
  <2>2. Shrinks
    BY <1>7, <1>0, TouchedKept DEF Request, Idle
  <2>3. /\ post' = post \/ post' \in {"boot", "idle", "password", "user", "remove", "web", "api", "key", "reply"} \ {"boot"}
        /\ post' # "boot" => post # "boot" \/ ~Unreachable
    BY <1>7 DEF Request, Idle
  <2> QED BY <2>1, <2>2, <2>3, QuietStep
<1>8. CASE \E c \in Clients : Logout(c)
  <2>1. Quiet /\ faults' = faults /\ clock' \in 0 .. MaxClock /\ typed' \in BOOLEAN
    BY <1>8, <1>t DEF Logout, Idle, Quiet
  <2>2. Shrinks
    BY <1>8, <1>0, ClosedKept DEF Logout, Idle
  <2>3. /\ post' = post \/ post' \in {"boot", "idle", "password", "user", "remove", "web", "api", "key", "reply"} \ {"boot"}
        /\ post' # "boot" => post # "boot" \/ ~Unreachable
    BY <1>8 DEF Logout, Idle
  <2> QED BY <2>1, <2>2, <2>3, QuietStep
<1>9. CASE \E c \in Clients : PostBegin(c)
  <2>1. Quiet /\ faults' = faults /\ clock' \in 0 .. MaxClock /\ typed' \in BOOLEAN
    BY <1>9, <1>t DEF PostBegin, AdminAuthorized, Idle, Quiet
  <2>2. Shrinks
    BY <1>9, <1>0, ClosedKept, TouchedKept DEF PostBegin, AdminAuthorized, Idle
  <2>3. /\ post' = post \/ post' \in {"boot", "idle", "password", "user", "remove", "web", "api", "key", "reply"} \ {"boot"}
        /\ post' # "boot" => post # "boot" \/ ~Unreachable
    BY <1>9 DEF PostBegin, AdminAuthorized, Idle
  <2> QED BY <2>1, <2>2, <2>3, QuietStep
<1>10. CASE Passed \/ Replied
  <2>1. Quiet /\ faults' = faults /\ clock' \in 0 .. MaxClock /\ typed' \in BOOLEAN
    BY <1>10, <1>t DEF Passed, Replied, Skip, At, Goes, Quiet
  <2>2. Shrinks
    BY <1>10, <1>0, ClosedKept DEF Passed, Replied, Skip, At, Goes
  <2>3. /\ post' = post \/ post' \in {"boot", "idle", "password", "user", "remove", "web", "api", "key", "reply"} \ {"boot"}
        /\ post' # "boot" => post # "boot" \/ ~Unreachable
    BY <1>10 DEF Passed, Replied, Skip, At, Goes
  <2> QED BY <2>1, <2>2, <2>3, QuietStep
<1>11. CASE Refuse
  <2>1. Quiet /\ faults' = faults /\ clock' \in 0 .. MaxClock /\ typed' \in BOOLEAN
    BY <1>11, <1>t DEF Refuse, Refused, At, Goes, Quiet
  <2>2. Shrinks
    BY <1>11, <1>0, ClosedKept DEF Refuse, Refused, At, Goes
  <2>3. /\ post' = post \/ post' \in {"boot", "idle", "password", "user", "remove", "web", "api", "key", "reply"} \ {"boot"}
        /\ post' # "boot" => post # "boot" \/ ~Unreachable
    BY <1>11 DEF Refuse, Refused, At, Goes
  <2> QED BY <2>1, <2>2, <2>3, QuietStep
<1>12. CASE Tick
  <2>1. Quiet /\ faults' = faults /\ clock' \in 0 .. MaxClock /\ typed' \in BOOLEAN
    BY <1>12, <1>t, AccountsAssumption DEF Tick, Quiet
  <2>2. Shrinks
    BY <1>12, <1>0, ClosedKept DEF Tick
  <2>3. /\ post' = post \/ post' \in {"boot", "idle", "password", "user", "remove", "web", "api", "key", "reply"} \ {"boot"}
        /\ post' # "boot" => post # "boot" \/ ~Unreachable
    BY <1>12 DEF Tick
  <2> QED BY <2>1, <2>2, <2>3, QuietStep
<1>13. CASE \E c \in Clients : \E p \in Passwords : Login(c, p)
  <2>1. sessions' \in [Slots -> Session] /\ SessionsInv'
    BY <1>13, <1>0, LoginBacked
  <2>2. Quiet /\ UNCHANGED <<clock, post, typed, faults>> /\ post # "boot"
    BY <1>13 DEF Login, Quiet, Idle
  <2>3. MemoryInv' /\ NoLockout' /\ mem' \in Saved /\ nvs' \in Saved
    BY <1>0, <2>2, QuietKeeps
  <2>4. AccountsTypeOK'
    BY <1>0, <2>1, <2>2, <2>3 DEF AccountsTypeOK, Quiet
  <2> QED BY <2>1, <2>3, <2>4 DEF AccountsInv
<1>14. CASE \E p \in Passwords : SetAdminPassword(p)
  <2>p. PICK p \in Passwords : SetAdminPassword(p)
    BY <1>14
  <2> DEFINE m == [mem EXCEPT !.admin = p]
  <2>1. m \in Saved /\ m.admin = p /\ m.user = mem.user /\ m.web = mem.web
    BY <1>0, <2>p, Fields, Changed
  <2>2. /\ Change(m) /\ ~saving /\ post' \in {"boot", "idle", "password", "user", "remove", "web", "api", "key", "reply"} \ {"boot"}
        /\ post # "boot" /\ clock' = clock /\ typed' \in BOOLEAN /\ AllOut /\ p # mem.user
    BY <2>p, <1>t DEF SetAdminPassword, At, Goes
  <2>3. (~degraded => Differ(m)) /\ (m.web => m.admin # NoPassword)
    BY <1>0, <2>1, <2>2, <2>p, Fields DEF MemoryInv, NoLockout, Differ
  <2>4. Shrinks
    BY <1>0, <2>2, ClosedKept
  <2>5. \A s \in Slots : ~sessions'[s].open
    BY <1>0, <2>2, WhoStays
  <2> HIDE DEF m
  <2> QED BY <2>1, <2>2, <2>3, <2>4, <2>5, <1>t, SetterStep
<1>15. CASE \E p \in Passwords : SetUserPassword(p)
  <2>p. PICK p \in Passwords : SetUserPassword(p)
    BY <1>15
  <2> DEFINE m == [mem EXCEPT !.user = p]
  <2>1. m \in Saved /\ m.admin = mem.admin /\ m.user = p /\ m.web = mem.web
    BY <1>0, <2>p, Fields, Changed
  <2>2. /\ Change(m) /\ ~saving /\ post' \in {"boot", "idle", "password", "user", "remove", "web", "api", "key", "reply"} \ {"boot"}
        /\ post # "boot" /\ clock' = clock /\ typed' \in BOOLEAN /\ UsersOut /\ p # mem.admin
    BY <2>p, <1>t DEF SetUserPassword, At, Goes
  <2>3. (~degraded => Differ(m)) /\ (m.web => m.admin # NoPassword)
    BY <1>0, <2>1, <2>2, <2>p, Fields DEF MemoryInv, NoLockout, Differ
  <2>4. Shrinks
    BY <1>0, <2>2, ClosedKept
  <2>5. \A s \in Slots : sessions'[s].open =>
          sessions[s].open /\ sessions'[s] = sessions[s] /\ sessions[s].role = "admin" /\ m.web
    BY <1>0, <2>1, <2>2, WhoStays DEF SessionsInv, SessionsBacked
  <2> HIDE DEF m
  <2> QED BY <2>1, <2>2, <2>3, <2>4, <2>5, <1>t, SetterStep
<1>16. CASE RemoveUser
  <2> DEFINE m == [mem EXCEPT !.user = NoPassword]
  <2>1. m \in Saved /\ m.admin = mem.admin /\ m.user = NoPassword /\ m.web = mem.web
    BY <1>0, Fields, Changed
  <2>2. /\ Change(m) /\ ~saving /\ post' \in {"boot", "idle", "password", "user", "remove", "web", "api", "key", "reply"} \ {"boot"}
        /\ post # "boot" /\ clock' = clock /\ typed' \in BOOLEAN /\ UsersOut
    BY <1>16, <1>t DEF RemoveUser, At, Goes
  <2>3. (~degraded => Differ(m)) /\ (m.web => m.admin # NoPassword)
    BY <1>0, <2>1, <2>2, Fields DEF MemoryInv, NoLockout, Differ
  <2>4. Shrinks
    BY <1>0, <2>2, ClosedKept
  <2>5. \A s \in Slots : sessions'[s].open =>
          sessions[s].open /\ sessions'[s] = sessions[s] /\ sessions[s].role = "admin" /\ m.web
    BY <1>0, <2>1, <2>2, WhoStays DEF SessionsInv, SessionsBacked
  <2> HIDE DEF m
  <2> QED BY <2>1, <2>2, <2>3, <2>4, <2>5, <1>t, SetterStep
<1>17. CASE RegenerateKey
  <2> DEFINE m == [mem EXCEPT !.key = TRUE]
  <2>1. m \in Saved /\ m.admin = mem.admin /\ m.user = mem.user /\ m.web = mem.web
    BY <1>0, Fields, Changed
  <2>2. /\ Change(m) /\ ~saving /\ post' \in {"boot", "idle", "password", "user", "remove", "web", "api", "key", "reply"} \ {"boot"}
        /\ post # "boot" /\ clock' = clock /\ typed' \in BOOLEAN /\ UNCHANGED sessions
    BY <1>17, <1>t DEF RegenerateKey, At, Goes
  <2>3. (~degraded => Differ(m)) /\ (m.web => m.admin # NoPassword)
    BY <1>0, <2>1, <2>2, Fields DEF MemoryInv, NoLockout, Differ
  <2>4. Shrinks
    BY <1>0, <2>2, ClosedKept
  <2>5. \A s \in Slots : sessions'[s].open =>
          sessions[s].open /\ sessions'[s] = sessions[s] /\ m.web
    BY <1>0, <2>1, <2>2 DEF SessionsInv, SessionsBacked
  <2> HIDE DEF m
  <2> QED BY <2>1, <2>2, <2>3, <2>4, <2>5, <1>t, SetterStep
<1>18. CASE \E want \in BOOLEAN : SetApiAuth(want)
  <2>p. PICK want \in BOOLEAN : SetApiAuth(want)
    BY <1>18
  <2> DEFINE m == [mem EXCEPT !.api = want]
  <2>1. m \in Saved /\ m.admin = mem.admin /\ m.user = mem.user /\ m.web = mem.web
    BY <1>0, <2>p, Fields, Changed
  <2>2. /\ Change(m) /\ ~saving /\ post' \in {"boot", "idle", "password", "user", "remove", "web", "api", "key", "reply"} \ {"boot"}
        /\ post # "boot" /\ clock' = clock /\ typed' \in BOOLEAN /\ UNCHANGED sessions
    BY <2>p, <1>t DEF SetApiAuth, At, Goes
  <2>3. (~degraded => Differ(m)) /\ (m.web => m.admin # NoPassword)
    BY <1>0, <2>1, <2>2, <2>p, Fields DEF MemoryInv, NoLockout, Differ
  <2>4. Shrinks
    BY <1>0, <2>2, ClosedKept
  <2>5. \A s \in Slots : sessions'[s].open =>
          sessions[s].open /\ sessions'[s] = sessions[s] /\ m.web
    BY <1>0, <2>1, <2>2 DEF SessionsInv, SessionsBacked
  <2> HIDE DEF m
  <2> QED BY <2>1, <2>2, <2>3, <2>4, <2>5, <1>t, SetterStep
<1>19. CASE \E want \in BOOLEAN : SetWebAuth(want)
  <2>p. PICK want \in BOOLEAN : SetWebAuth(want)
    BY <1>19
  <2> DEFINE m == [mem EXCEPT !.web = want]
  <2>1. m \in Saved /\ m.admin = mem.admin /\ m.user = mem.user /\ m.web = want
    BY <1>0, <2>p, Fields, Changed
  <2>2. /\ Change(m) /\ ~saving /\ post' \in {"boot", "idle", "password", "user", "remove", "web", "api", "key", "reply"} \ {"boot"}
        /\ post # "boot" /\ clock' = clock /\ typed' \in BOOLEAN /\ (want => UNCHANGED sessions /\ ~mem.web /\ mem.admin # NoPassword) /\ (~want => AllOut)
    BY <2>p, <1>t DEF SetWebAuth, At, Goes
  <2>3. (~degraded => Differ(m)) /\ (m.web => m.admin # NoPassword)
    BY <1>0, <2>1, <2>2, <2>p, Fields DEF MemoryInv, NoLockout, Differ
  <2>4. Shrinks
    BY <1>0, <2>2, ClosedKept
  <2>5. \A s \in Slots : ~sessions'[s].open
    BY <1>0, <2>1, <2>2, WhoStays DEF SessionsInv, SessionsBacked
  <2> HIDE DEF m
  <2> QED BY <2>1, <2>2, <2>3, <2>4, <2>5, <1>t, SetterStep
<1>20. CASE UNCHANGED accountVars
  <2>1. Quiet /\ UNCHANGED <<sessions, clock, post, typed, faults>>
    BY <1>20 DEF accountVars, Quiet
  <2>2. Shrinks
    BY <2>1, <1>0, ClosedKept
  <2> QED BY <2>1, <2>2, <1>t, QuietStep
<1> QED
  BY <1>1, <1>2, <1>3, <1>4, <1>5, <1>6, <1>7, <1>8, <1>9, <1>10, <1>11, <1>12,
     <1>13, <1>14, <1>15, <1>16, <1>17, <1>18, <1>19, <1>20
  DEF AccountsNext, Boots, Browsing, Setters

-------------------------------------------------------------------------------
(* The theorems                                                            *)

LEMMA AccountsStart == AccountsInit => AccountsInv
<1> SUFFICES ASSUME AccountsInit PROVE AccountsInv
  OBVIOUS
<1> DEFINE old == [Blank EXCEPT !.web = TRUE, !.admin = Legacy, !.key = TRUE]
<1>1. /\ Blank \in Saved /\ Blank.admin = NoPassword /\ Blank.user = NoPassword
      /\ old \in Saved /\ old.admin = Legacy /\ old.user = NoPassword
  <2>1. Blank \in Saved /\ Blank.admin = NoPassword /\ Blank.user = NoPassword
    <3>1. NoPassword \in Held
      BY DEF Held
    <3> QED BY <3>1 DEF Blank, Saved
  <2>2. Legacy \in Held /\ TRUE \in BOOLEAN
    BY AccountsAssumption DEF Held
  <2> HIDE DEF old
  <2>3. ASSUME NEW b \in Saved, NEW x \in BOOLEAN, NEW y \in BOOLEAN, NEW p \in Held
        PROVE  /\ [b EXCEPT !.web = x, !.admin = p, !.key = y] \in Saved
               /\ [b EXCEPT !.web = x, !.admin = p, !.key = y].admin = p
               /\ [b EXCEPT !.web = x, !.admin = p, !.key = y].user = b.user
    BY DEF Saved
  <2>4. old \in Saved /\ old.admin = Legacy /\ old.user = Blank.user
    BY <2>1, <2>2, <2>3 DEF old
  <2> QED BY <2>1, <2>4
<1>2. /\ mem = nvs /\ nvs \in {Blank, old} /\ sessions = [s \in Slots |-> NoSession]
      /\ clock = 0 /\ post = "boot" /\ faults = 0
      /\ saving = FALSE /\ typed = FALSE /\ degraded = FALSE
  BY DEF AccountsInit
<1> HIDE DEF old
<1>3. AccountsTypeOK
  <2>1. sessions \in [Slots -> Session]
    BY <1>2, SessionKinds
  <2>2. mem \in Saved /\ nvs \in Saved
    BY <1>1, <1>2
  <2>3. clock \in 0 .. MaxClock /\ faults \in 0 .. MaxAccountFaults
    BY <1>2, AccountsAssumption
  <2> QED BY <1>2, <2>1, <2>2, <2>3 DEF AccountsTypeOK
<1>4. MemoryInv
  BY <1>1, <1>2, AccountsAssumption DEF MemoryInv, Differ
<1>5. NoLockout /\ SessionsInv
  BY <1>2, SessionKinds DEF NoLockout, SessionsInv, SessionsBacked, Closed
<1> QED BY <1>3, <1>4, <1>5 DEF AccountsInv

LEMMA AccountsAlways == AccountsSpec => []AccountsInv
BY AccountsStart, AccountsStep, PTL DEF AccountsSpec

(* Every variable of the accounts keeps its type, with any number of sessions. *)
THEOREM AccountsTypeCorrect == AccountsSpec => []AccountsTypeOK
<1>1. AccountsInv => AccountsTypeOK
  BY DEF AccountsInv
<1> QED BY <1>1, AccountsAlways, PTL

(* After auth_mgr_init() a login is required only where there is a password to *)
(* log in with, whatever save failed, was cut by a reset, or was refused.      *)
THEOREM NobodyLockedOut == AccountsSpec => []NoLockout
<1>1. AccountsInv => NoLockout
  BY DEF AccountsInv
<1> QED BY <1>1, AccountsAlways, PTL

(* No session survives the change of the password it was opened with, nor the  *)
(* end of the requirement to log in.                                           *)
THEOREM SessionsAlwaysBacked == AccountsSpec => []SessionsBacked
<1>1. AccountsInv => SessionsBacked
  BY DEF AccountsInv, SessionsInv
<1> QED BY <1>1, AccountsAlways, PTL

(* Unless a save fails, flash and memory agree between requests and never pair *)
(* the administrator's password with a user's like it, resets inside a save    *)
(* included.                                                                   *)
THEOREM AccountsAlwaysKept == AccountsSpec => []AccountsKept
<1>1. AccountsInv => AccountsKept
  BY DEF AccountsInv, MemoryInv, AccountsKept, Idle
<1> QED BY <1>1, AccountsAlways, PTL

===============================================================================
