---------------------------- MODULE PairingWindow ----------------------------
(***************************************************************************)
(* The owner's side of pairing (hvac_group/group_config.cpp) with the web  *)
(* handlers and the mDNS advert, and the persistence of the group: five    *)
(* keys written one after the other, of which a write may be refused       *)
(* without notice or a reset may keep only the first.  What the replica    *)
(* holds besides its members is in GroupReplica.                           *)
(***************************************************************************)
EXTENDS Naturals, FiniteSets

CONSTANTS
  Self,            \* the head modelled
  Guests,          \* the other heads
  MaxAttempts,     \* kPairingMaxAttempts
  Ttl,             \* kPairingTtlSeconds, in units of the clock
  MaxGroups,       \* bound: groups that come to exist
  MaxGroupFaults   \* bound: resets and failed writes

ASSUME PairingAssumption ==
  /\ Self \notin Guests
  /\ MaxAttempts \in Nat \ {0} /\ Ttl \in Nat \ {0}
  /\ MaxGroups \in Nat /\ MaxGroupFaults \in Nat

NoGroup == 0
GroupIds == 1 .. MaxGroups
Everyone == Guests \cup {Self}

(* What persist_locked() writes, in its order; a group's secret is named like *)
(* the group.                                                                 *)
Group == [gid : GroupIds \cup {NoGroup}, secret : GroupIds \cup {NoGroup},
          peers : SUBSET Everyone, replica : SUBSET Everyone]
Order == <<"gid", "secret", "peers", "replica">>

VARIABLES
  cfg,       \* s_cfg with the members of s_replica
  kept,      \* the same in NVS
  window,    \* s_pair.active
  attempts,  \* s_pair.attempts_left
  age,       \* time since the window was opened
  advert,    \* pair=1 is in the mDNS record
  used,      \* groups that exist already
  guests,    \* history: whom the present code has let in
  ghost,     \* history: leaving was not saved, and the replica is gone
  groupFaults

pairingVars == <<cfg, kept, window, attempts, age, advert, used, guests, ghost, groupFaults>>

PairingTypeOK ==
  /\ cfg \in Group /\ kept \in Group
  /\ window \in BOOLEAN /\ advert \in BOOLEAN /\ ghost \in BOOLEAN
  /\ attempts \in 0 .. MaxAttempts
  /\ age \in 0 .. Ttl
  /\ used \in 0 .. MaxGroups
  /\ guests \subseteq Guests
  /\ groupFaults \in 0 .. MaxGroupFaults

Alone == [gid |-> NoGroup, secret |-> NoGroup, peers |-> {}, replica |-> {}]

PairingInit ==
  /\ cfg = Alone /\ kept = Alone
  /\ window = FALSE /\ attempts = 0 /\ age = 0 /\ advert = FALSE
  /\ used = 0 /\ guests = {}
  /\ ghost = FALSE
  /\ groupFaults = 0

--------------------------------------------------------------------------------
(* reproject_locked(): peers follow from the replica. *)
Project(c) == [c EXCEPT !.peers = c.replica \ {Self}]

Written(c, ks) == [k \in DOMAIN c |-> IF k \in ks THEN c[k] ELSE kept[k]]

Fault == groupFaults < MaxGroupFaults /\ groupFaults' = groupFaults + 1

(* persist_locked(c) returns ESP_OK: it only looks at the commit, so that some *)
(* keys may be missing.                                                        *)
Persists(c) ==
  \/ kept' = c /\ UNCHANGED groupFaults
  \/ Fault /\ \E ks \in SUBSET DOMAIN c : kept' = Written(c, ks)

(* It returns an error, and nothing is written. *)
Unsaved == Fault /\ UNCHANGED kept

(* hvac_group::init(): what is made of the stored keys.  A replica that does *)
(* not name this head is replaced by one made from the list of peers.        *)
AnyReplica(n) == TRUE         \* mutant: whatever can be parsed
Sound(n) == Self \in n.replica
Loaded(n) ==
  IF n.gid = NoGroup THEN [n EXCEPT !.replica = {}, !.peers = n.peers \ {Self}]
  ELSE IF Sound(n) THEN Project(n)
  ELSE Project([n EXCEPT !.replica = n.peers \cup {Self}])

(* A reset leaves n in flash; what init() repairs it saves. *)
Restarted(n) ==
  /\ cfg' = Loaded(n)
  /\ kept' \in IF n.gid # NoGroup /\ ~Sound(n) THEN {n, Loaded(n)} ELSE {n}
  /\ window' = FALSE /\ attempts' = 0 /\ age' = 0 /\ advert' = FALSE
  /\ ghost' = FALSE
  /\ UNCHANGED guests
  /\ Fault

(* A reset while c is written: the first keys have it. *)
Cut(c) ==
  /\ \E n \in 0 .. 4 : Restarted(Written(c, {Order[i] : i \in 1 .. n}))
  /\ used' = IF c.gid > used THEN c.gid ELSE used

HeadReset == Restarted(kept) /\ UNCHANGED used

--------------------------------------------------------------------------------
(* The window is closed, or left as it is. *)
CloseWindow == window' = FALSE /\ attempts' = 0 /\ age' = 0
SameWindow == UNCHANGED <<window, attempts, age>>

InGroup == cfg.gid # NoGroup /\ cfg.secret # NoGroup

Founded == [gid |-> used + 1, secret |-> used + 1, peers |-> {}, replica |-> {Self}]

(* handle_group_pair_start: a head that is in no group founds one first. *)
OpenWindow ==
  /\ window' = TRUE /\ attempts' = MaxAttempts /\ age' = 0
  /\ guests' = {}
  /\ advert' = TRUE

PairStart ==
  \/ /\ InGroup
     /\ OpenWindow
     /\ UNCHANGED <<cfg, kept, used, ghost, groupFaults>>
  \/ /\ ~InGroup /\ used < MaxGroups
     /\ \/ /\ cfg' = Founded /\ Persists(Founded)
           /\ used' = used + 1 /\ ghost' = FALSE
           /\ OpenWindow
        \/ Cut(Founded)

(* handle_group_pair_stop, and handle_group_pair_status once the time is over. *)
PairStop ==
  /\ CloseWindow /\ advert' = FALSE
  /\ UNCHANGED <<cfg, kept, used, guests, ghost, groupFaults>>

Expired == age = Ttl
PairStatus ==
  /\ ~window \/ Expired
  /\ PairStop

TimePasses ==
  /\ window /\ age < Ttl
  /\ age' = age + 1
  /\ UNCHANGED <<cfg, kept, window, attempts, advert, used, guests, ghost, groupFaults>>

(* evaluate_claim() *)
Decision(matches) ==
  IF ~window THEN "NoActiveCode"
  ELSE IF Expired THEN "Expired"
  ELSE IF attempts = 0 THEN "LockedOut"
  ELSE IF matches THEN "Ok" ELSE "BadCode"

(* A wrong code, or the right one from a head with no usable id: the last one *)
(* burns the code, and the handler answers 401 and leaves the advert.         *)
BadCode ==
  /\ Decision(FALSE) = "BadCode"
  /\ IF attempts = 1 THEN CloseWindow ELSE attempts' = attempts - 1 /\ UNCHANGED <<window, age>>
  /\ UNCHANGED <<cfg, kept, advert, used, guests, ghost, groupFaults>>

(* Too late: the window is reaped, and the advert goes. *)
DeadCode ==
  /\ Decision(FALSE) \in {"Expired", "LockedOut"}
  /\ PairStop

(* The right code: the head is enrolled, saved, and handed the group; the code *)
(* is burnt.  If the save fails all is as before and the answer is 409.        *)
Enrolled(h) == Project([cfg EXCEPT !.replica = @ \cup {h}])

(* Mutant: the code stays good. *)
ClaimAgain(h) ==
  /\ Decision(TRUE) = "Ok"
  /\ \/ /\ cfg' = Enrolled(h) /\ Persists(Enrolled(h))
        /\ guests' = guests \cup {h}
        /\ SameWindow /\ advert' = FALSE /\ UNCHANGED <<used, ghost>>
     \/ Cut(Enrolled(h))

Claim(h) ==
  /\ Decision(TRUE) = "Ok"
  /\ \/ /\ cfg' = Enrolled(h) /\ Persists(Enrolled(h))
        /\ guests' = guests \cup {h}
        /\ CloseWindow /\ advert' = FALSE /\ UNCHANGED <<used, ghost>>
     \/ Cut(Enrolled(h))

(* handle_group_leave: the window is closed, the advert forgotten; the replica *)
(* is emptied before it is known whether flash took it.                        *)
Dropped(c) ==
  \/ cfg' = Alone /\ Persists(Alone) /\ ghost' = FALSE
  \/ Unsaved /\ cfg' = [c EXCEPT !.replica = {}] /\ ghost' = (c.gid # NoGroup)

Leave ==
  \/ CloseWindow /\ Dropped(cfg) /\ UNCHANGED <<advert, used, guests>>
  \/ Cut(Alone)

(* merge_remote_json: members a peer names are added; a peer that knows this *)
(* head to be removed makes it leave, with whatever window is open.          *)
Merge ==
  /\ InGroup
  /\ \E m \in SUBSET Guests :
       LET c == Project([cfg EXCEPT !.replica = m \cup {Self}])
       IN  c # cfg /\ \/ /\ cfg' = c /\ Persists(c)
                         /\ ghost' = FALSE
                         /\ SameWindow /\ UNCHANGED <<advert, used, guests>>
                      \/ Cut(c)

Evicted ==
  /\ InGroup
  /\ \/ Dropped(cfg) /\ SameWindow /\ UNCHANGED <<advert, used, guests>>
     \/ Cut(Alone)

(* join_group: another owner's group is adopted in memory, saved or not. *)
JoinGroup ==
  /\ used < MaxGroups
  /\ \E m \in SUBSET Guests :
       LET c == [gid |-> used + 1, secret |-> used + 1, peers |-> m,
                 replica |-> m \cup {Self}]
       IN  \/ /\ cfg' = c /\ (Persists(c) \/ Unsaved)
              /\ used' = used + 1 /\ ghost' = FALSE
              /\ SameWindow /\ UNCHANGED <<advert, guests>>
           \/ Cut(c)

PairingNext ==
  \/ PairStart \/ PairStop \/ PairStatus \/ TimePasses \/ BadCode \/ DeadCode
  \/ \E h \in Guests : Claim(h)
  \/ Leave \/ Merge \/ Evicted \/ JoinGroup \/ HeadReset

PairingSpec == PairingInit /\ [][PairingNext]_pairingVars

--------------------------------------------------------------------------------
(* A code lets one head in, within its time, and is burnt by the fifth wrong *)
(* guess, whatever is cancelled, retried, cut or not saved around it.        *)
Promise == INSTANCE PairingPromise WITH
             MaxTries <- MaxAttempts,
             Heads    <- Guests,
             open     <- window /\ ~Expired,
             left     <- IF Expired THEN 0 ELSE attempts
CodeKeepsPromise == Promise!Spec

(* A head that has a group is a member of it, and its peers are the others,  *)
(* after any reset and any write that was cut or refused; only a leave that  *)
(* could not be saved takes the members away.                                *)
MemberOfOwnGroup ==
  cfg.gid # NoGroup /\ ~ghost => Self \in cfg.replica /\ cfg.peers = cfg.replica \ {Self}

================================================================================
