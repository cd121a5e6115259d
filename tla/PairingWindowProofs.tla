-------------------------- MODULE PairingWindowProofs --------------------------
(***************************************************************************)
(* Pairing window: proofs for every number of heads, of guesses, of groups *)
(* and of faults.                                                          *)
(***************************************************************************)
EXTENDS PairingWindow, TLAPS

(* A code that is still open has let nobody in. *)
UnusedInv == window => guests = {}

PairingInv == PairingTypeOK /\ MemberOfOwnGroup /\ UnusedInv

-------------------------------------------------------------------------------
(* Groups, and what a write or a reset makes of them                       *)

LEMMA NewGroup ==
  ASSUME NEW g \in GroupIds \cup {NoGroup}, NEW p \in SUBSET Everyone,
         NEW r \in SUBSET Everyone
  PROVE  [gid |-> g, secret |-> g, peers |-> p, replica |-> r] \in Group
BY DEF Group

LEMMA GroupFields ==
  ASSUME NEW c \in Group
  PROVE  /\ c.gid \in GroupIds \cup {NoGroup} /\ c.secret \in GroupIds \cup {NoGroup}
         /\ c.peers \in SUBSET Everyone /\ c.replica \in SUBSET Everyone
         /\ DOMAIN c = {"gid", "secret", "peers", "replica"}
BY DEF Group

LEMMA Projected ==
  ASSUME NEW c \in Group, NEW r \in SUBSET Everyone
  PROVE  /\ [c EXCEPT !.replica = r] \in Group
         /\ Project([c EXCEPT !.replica = r]) \in Group
         /\ Project([c EXCEPT !.replica = r]).gid = c.gid
         /\ Project([c EXCEPT !.replica = r]).replica = r
         /\ Project([c EXCEPT !.replica = r]).peers = r \ {Self}
<1>1. [c EXCEPT !.replica = r] \in Group /\ [c EXCEPT !.replica = r].gid = c.gid
      /\ [c EXCEPT !.replica = r].replica = r
  BY DEF Group
<1> DEFINE d == [c EXCEPT !.replica = r]
<1> HIDE DEF d
<1>2. ASSUME NEW e \in Group
      PROVE  /\ Project(e) \in Group /\ Project(e).gid = e.gid
             /\ Project(e).replica = e.replica /\ Project(e).peers = e.replica \ {Self}
  BY DEF Group, Project
<1> QED BY <1>1, <1>2

LEMMA ProjectedSame ==
  ASSUME NEW c \in Group
  PROVE  /\ Project(c) \in Group /\ Project(c).gid = c.gid
         /\ Project(c).replica = c.replica /\ Project(c).peers = c.replica \ {Self}
BY DEF Group, Project

LEMMA WrittenTypes ==
  ASSUME PairingTypeOK, NEW c \in Group, NEW ks
  PROVE  Written(c, ks) \in Group
<1>1. Written(c, ks) = [k \in {"gid", "secret", "peers", "replica"} |->
                          IF k \in ks THEN c[k] ELSE kept[k]]
  BY GroupFields DEF Written
<1> QED BY <1>1 DEF Group, PairingTypeOK

(* Whatever is in flash, init() makes the head a member of the group it finds. *)
LEMMA LoadedMember ==
  ASSUME NEW n \in Group
  PROVE  /\ Loaded(n) \in Group
         /\ Loaded(n).gid # NoGroup =>
              /\ Self \in Loaded(n).replica
              /\ Loaded(n).peers = Loaded(n).replica \ {Self}
<1>1. n.peers \cup {Self} \in SUBSET Everyone
  BY GroupFields DEF Everyone
<1>2. CASE n.gid = NoGroup
  <2>1. Loaded(n) = [n EXCEPT !.replica = {}, !.peers = n.peers \ {Self}]
    BY <1>2 DEF Loaded
  <2>2. Loaded(n) \in Group /\ Loaded(n).gid = n.gid
    BY <2>1 DEF Group
  <2> QED BY <1>2, <2>2
<1>3. CASE n.gid # NoGroup /\ Sound(n)
  BY <1>3, ProjectedSame DEF Loaded, Sound
<1>4. CASE n.gid # NoGroup /\ ~Sound(n)
  BY <1>1, <1>4, Projected DEF Loaded
<1> QED BY <1>2, <1>3, <1>4

LEMMA PersistTypes ==
  ASSUME PairingTypeOK, NEW c \in Group, Persists(c)
  PROVE  kept' \in Group /\ groupFaults' \in 0 .. MaxGroupFaults
BY WrittenTypes, PairingAssumption DEF Persists, Fault, PairingTypeOK

LEMMA RestartedMember ==
  ASSUME PairingTypeOK, NEW n \in Group, Restarted(n), used' \in 0 .. MaxGroups
  PROVE  PairingInv'
<1>1. /\ cfg' = Loaded(n) /\ kept' \in {n, Loaded(n)} /\ window' = FALSE /\ attempts' = 0
      /\ age' = 0 /\ advert' = FALSE /\ ghost' = FALSE /\ guests' = guests
      /\ groupFaults' = groupFaults + 1 /\ groupFaults < MaxGroupFaults
  BY DEF Restarted, Fault
<1>2. cfg' \in Group /\ kept' \in Group
  BY <1>1, LoadedMember
<1>3. groupFaults' \in 0 .. MaxGroupFaults /\ attempts' \in 0 .. MaxAttempts /\ age' \in 0 .. Ttl
  BY <1>1, PairingAssumption DEF PairingTypeOK
<1>4. PairingTypeOK'
  BY <1>1, <1>2, <1>3 DEF PairingTypeOK
<1>5. MemberOfOwnGroup' /\ UnusedInv'
  BY <1>1, LoadedMember DEF MemberOfOwnGroup, UnusedInv
<1> QED BY <1>4, <1>5 DEF PairingInv

LEMMA CutMember ==
  ASSUME PairingTypeOK, NEW c \in Group, Cut(c)
  PROVE  PairingInv'
<1>1. used' \in 0 .. MaxGroups
  BY GroupFields, PairingAssumption DEF Cut, PairingTypeOK, GroupIds, NoGroup
<1>2. PICK n \in 0 .. 4 : Restarted(Written(c, {Order[i] : i \in 1 .. n}))
  BY DEF Cut
<1>3. Written(c, {Order[i] : i \in 1 .. n}) \in Group
  BY WrittenTypes
<1> QED BY <1>1, <1>2, <1>3, RestartedMember

-------------------------------------------------------------------------------
(* The steps: on the window alone, or to another group c                   *)

LEMMA WindowOnly ==
  ASSUME PairingInv, UNCHANGED <<cfg, kept, used, ghost, groupFaults>>,
         window' \in BOOLEAN, advert' \in BOOLEAN, attempts' \in 0 .. MaxAttempts,
         age' \in 0 .. Ttl, guests' \subseteq Guests, window' => guests' = {}
  PROVE  PairingInv'
BY DEF PairingInv, PairingTypeOK, MemberOfOwnGroup, UnusedInv

LEMMA OtherGroup ==
  ASSUME PairingInv, NEW c \in Group, cfg' = c, kept' \in Group,
         groupFaults' \in 0 .. MaxGroupFaults, used' \in 0 .. MaxGroups,
         window' \in BOOLEAN, advert' \in BOOLEAN, attempts' \in 0 .. MaxAttempts,
         age' \in 0 .. Ttl, guests' \subseteq Guests, window' => guests' = {},
         ghost' \in BOOLEAN,
         c.gid # NoGroup /\ ~ghost' => Self \in c.replica /\ c.peers = c.replica \ {Self}
  PROVE  PairingInv'
BY DEF PairingInv, PairingTypeOK, MemberOfOwnGroup, UnusedInv

LEMMA Windows ==
  ASSUME PairingInv
  PROVE  /\ CloseWindow => /\ window' = FALSE /\ attempts' \in 0 .. MaxAttempts
                           /\ age' \in 0 .. Ttl
         /\ SameWindow => /\ window' \in BOOLEAN /\ attempts' \in 0 .. MaxAttempts
                          /\ age' \in 0 .. Ttl /\ (window' => guests = {})
         /\ OpenWindow => /\ window' = TRUE /\ advert' = TRUE /\ guests' = {}
                          /\ attempts' \in 0 .. MaxAttempts /\ age' \in 0 .. Ttl
         /\ advert \in BOOLEAN /\ guests \subseteq Guests
BY PairingAssumption
DEF PairingInv, PairingTypeOK, UnusedInv, CloseWindow, SameWindow, OpenWindow

LEMMA AloneGroup ==
  Alone \in Group /\ Alone.gid = NoGroup
BY DEF Alone, Group

LEMMA DroppedGroup ==
  ASSUME PairingInv, Dropped(cfg)
  PROVE  /\ cfg' \in Group /\ kept' \in Group /\ groupFaults' \in 0 .. MaxGroupFaults
         /\ ghost' \in BOOLEAN /\ (cfg'.gid # NoGroup => ghost')
<1>1. CASE cfg' = Alone /\ Persists(Alone) /\ ghost' = FALSE
  BY <1>1, AloneGroup, PersistTypes DEF PairingInv
<1>2. CASE Unsaved /\ cfg' = [cfg EXCEPT !.replica = {}] /\ ghost' = (cfg.gid # NoGroup)
  <2>1. cfg' \in Group /\ cfg'.gid = cfg.gid
    BY <1>2 DEF PairingInv, PairingTypeOK, Group
  <2>2. kept' \in Group /\ groupFaults' \in 0 .. MaxGroupFaults
    BY <1>2, PairingAssumption DEF PairingInv, PairingTypeOK, Unsaved, Fault
  <2> QED BY <1>2, <2>1, <2>2
<1> QED BY <1>1, <1>2 DEF Dropped

LEMMA FoundedGroup ==
  ASSUME PairingTypeOK, used < MaxGroups
  PROVE  /\ used + 1 \in 0 .. MaxGroups /\ used + 1 \in GroupIds
         /\ Founded \in Group /\ Founded.replica = {Self} /\ Founded.peers = {}
<1>1. used + 1 \in 0 .. MaxGroups /\ used + 1 \in GroupIds
  BY PairingAssumption DEF PairingTypeOK, GroupIds
<1>2. {Self} \in SUBSET Everyone /\ {} \in SUBSET Everyone
  BY DEF Everyone
<1> QED BY <1>1, <1>2, NewGroup DEF Founded

LEMMA PairingStep == PairingInv /\ [PairingNext]_pairingVars => PairingInv'
<1> SUFFICES ASSUME PairingInv, [PairingNext]_pairingVars PROVE PairingInv'
  OBVIOUS
<1>0. PairingTypeOK /\ cfg \in Group /\ kept \in Group
  BY DEF PairingInv, PairingTypeOK
<1>1. CASE PairStart
  <2>1. CASE OpenWindow /\ UNCHANGED <<cfg, kept, used, ghost, groupFaults>>
    BY <2>1, Windows, WindowOnly
  <2>2. CASE used < MaxGroups /\ cfg' = Founded /\ Persists(Founded) /\ used' = used + 1
             /\ ghost' = FALSE /\ OpenWindow
    <3>1. Founded \in Group /\ used' \in 0 .. MaxGroups
          /\ Founded.replica = {Self} /\ Founded.peers = {}
      BY <1>0, <2>2, FoundedGroup
    <3>2. kept' \in Group /\ groupFaults' \in 0 .. MaxGroupFaults
      BY <1>0, <2>2, <3>1, PersistTypes
    <3> QED BY <2>2, <3>1, <3>2, Windows, OtherGroup
  <2>3. CASE used < MaxGroups /\ Cut(Founded)
    BY <1>0, <2>3, FoundedGroup, CutMember
  <2> QED BY <1>1, <2>1, <2>2, <2>3 DEF PairStart
<1>2. CASE PairStop \/ PairStatus \/ DeadCode
  BY <1>2, Windows, WindowOnly DEF PairStop, PairStatus, DeadCode
<1>3. CASE TimePasses
  <2>1. age' \in 0 .. Ttl
    BY <1>0, <1>3, PairingAssumption DEF TimePasses, PairingTypeOK
  <2> QED
    BY <1>3, <2>1, WindowOnly DEF TimePasses, PairingInv, PairingTypeOK, UnusedInv
<1>4. CASE BadCode
  <2>1. attempts # 0
    BY <1>4 DEF BadCode, Decision
  <2>2. UNCHANGED <<cfg, kept, advert, used, guests, ghost, groupFaults>>
    BY <1>4 DEF BadCode
  <2>3. CASE CloseWindow
    BY <2>2, <2>3, Windows, WindowOnly
  <2>4. CASE attempts' = attempts - 1 /\ UNCHANGED <<window, age>>
    <3>1. attempts' \in 0 .. MaxAttempts /\ age' \in 0 .. Ttl /\ window' \in BOOLEAN
      BY <1>0, <2>1, <2>4, PairingAssumption DEF PairingTypeOK
    <3>2. window' => guests' = {}
      BY <2>2, <2>4 DEF PairingInv, UnusedInv
    <3> QED BY <2>2, <3>1, <3>2, Windows, WindowOnly
  <2> QED BY <1>4, <2>3, <2>4 DEF BadCode
<1>5. ASSUME NEW h \in Guests, Claim(h) PROVE PairingInv'
  <2>1. cfg.replica \cup {h} \in SUBSET Everyone
    BY <1>0, GroupFields DEF Everyone
  <2>2. /\ Enrolled(h) \in Group /\ Enrolled(h).gid = cfg.gid
        /\ Enrolled(h).replica = cfg.replica \cup {h}
        /\ Enrolled(h).peers = Enrolled(h).replica \ {Self}
    <3> DEFINE r == cfg.replica \cup {h}
    <3>1. r \in SUBSET Everyone /\ Enrolled(h) = Project([cfg EXCEPT !.replica = r])
      BY <2>1 DEF Enrolled
    <3> HIDE DEF r
    <3>2. /\ Enrolled(h) \in Group /\ Enrolled(h).gid = cfg.gid
          /\ Enrolled(h).replica = r /\ Enrolled(h).peers = r \ {Self}
      BY <1>0, <3>1, Projected
    <3> QED BY <3>2 DEF r
  <2>3. CASE cfg' = Enrolled(h) /\ Persists(Enrolled(h)) /\ guests' = guests \cup {h}
             /\ CloseWindow /\ advert' = FALSE /\ UNCHANGED <<used, ghost>>
    <3>1. kept' \in Group /\ groupFaults' \in 0 .. MaxGroupFaults
      BY <1>0, <2>2, <2>3, PersistTypes
    <3>2. cfg.gid # NoGroup /\ ~ghost => Self \in Enrolled(h).replica
      BY <2>2 DEF PairingInv, MemberOfOwnGroup
    <3>3. ghost' \in BOOLEAN /\ used' \in 0 .. MaxGroups /\ guests' \subseteq Guests
      BY <1>0, <1>5, <2>3 DEF PairingTypeOK
    <3>4. Enrolled(h).gid # NoGroup /\ ~ghost' =>
            Self \in Enrolled(h).replica /\ Enrolled(h).peers = Enrolled(h).replica \ {Self}
      BY <2>2, <2>3, <3>2
    <3> QED BY <2>2, <2>3, <3>1, <3>3, <3>4, Windows, OtherGroup
  <2>4. CASE Cut(Enrolled(h))
    BY <1>0, <2>2, <2>4, CutMember
  <2> QED BY <1>5, <2>3, <2>4 DEF Claim
<1>6. CASE Leave \/ Evicted
  <2>1. CASE Dropped(cfg) /\ (CloseWindow \/ SameWindow) /\ UNCHANGED <<advert, used, guests>>
    <3>1. used' \in 0 .. MaxGroups
      BY <1>0, <2>1 DEF PairingTypeOK
    <3> QED BY <2>1, <3>1, DroppedGroup, Windows, OtherGroup
  <2>2. CASE Cut(Alone)
    BY <1>0, <2>2, AloneGroup, CutMember
  <2> QED BY <1>6, <2>1, <2>2 DEF Leave, Evicted
<1>7. CASE Merge
  <2>1. PICK m \in SUBSET Guests :
          LET c == Project([cfg EXCEPT !.replica = m \cup {Self}])
          IN  c # cfg /\ \/ /\ cfg' = c /\ Persists(c)
                            /\ ghost' = FALSE
                            /\ SameWindow /\ UNCHANGED <<advert, used, guests>>
                         \/ Cut(c)
    BY <1>7 DEF Merge
  <2> DEFINE c == Project([cfg EXCEPT !.replica = m \cup {Self}])
  <2>2. m \cup {Self} \in SUBSET Everyone
    BY DEF Everyone
  <2>3. c \in Group /\ c.gid = cfg.gid /\ c.replica = m \cup {Self}
        /\ c.peers = c.replica \ {Self}
    BY <1>0, <2>2, Projected
  <2>4. \/ /\ cfg' = c /\ Persists(c) /\ ghost' = FALSE
           /\ SameWindow /\ UNCHANGED <<advert, used, guests>>
        \/ Cut(c)
    BY <2>1
  <2> HIDE DEF c
  <2>5. CASE cfg' = c /\ Persists(c) /\ ghost' = FALSE
             /\ SameWindow /\ UNCHANGED <<advert, used, guests>>
    <3>1. kept' \in Group /\ groupFaults' \in 0 .. MaxGroupFaults
      BY <1>0, <2>3, <2>5, PersistTypes
    <3>2. used' \in 0 .. MaxGroups
      BY <1>0, <2>5 DEF PairingTypeOK
    <3>3. Self \in c.replica
      BY <2>3
    <3> QED BY <2>3, <2>5, <3>1, <3>2, <3>3, Windows, OtherGroup
  <2> QED BY <1>0, <2>3, <2>4, <2>5, CutMember
<1>8. CASE JoinGroup
  <2>1. PICK m \in SUBSET Guests :
          LET c == [gid |-> used + 1, secret |-> used + 1, peers |-> m,
                    replica |-> m \cup {Self}]
          IN  \/ /\ cfg' = c /\ (Persists(c) \/ Unsaved)
                 /\ used' = used + 1 /\ ghost' = FALSE
                 /\ SameWindow /\ UNCHANGED <<advert, guests>>
              \/ Cut(c)
    BY <1>8 DEF JoinGroup
  <2> DEFINE c == [gid |-> used + 1, secret |-> used + 1, peers |-> m,
                   replica |-> m \cup {Self}]
  <2>2. used < MaxGroups /\ used + 1 \in GroupIds /\ used + 1 \in 0 .. MaxGroups
    BY <1>0, <1>8, FoundedGroup DEF JoinGroup
  <2>3. c \in Group /\ Self \in c.replica /\ c.peers = c.replica \ {Self}
    <3>1. m \in SUBSET Everyone /\ m \cup {Self} \in SUBSET Everyone
      BY DEF Everyone
    <3>2. m = (m \cup {Self}) \ {Self}
      BY PairingAssumption
    <3> QED BY <2>2, <3>1, <3>2, NewGroup
  <2>4. \/ /\ cfg' = c /\ (Persists(c) \/ Unsaved)
           /\ used' = used + 1 /\ ghost' = FALSE
           /\ SameWindow /\ UNCHANGED <<advert, guests>>
        \/ Cut(c)
    BY <2>1
  <2> HIDE DEF c
  <2>5. CASE /\ cfg' = c /\ (Persists(c) \/ Unsaved)
             /\ used' = used + 1 /\ ghost' = FALSE
             /\ SameWindow /\ UNCHANGED <<advert, guests>>
    <3>1. kept' \in Group /\ groupFaults' \in 0 .. MaxGroupFaults
      BY <1>0, <2>3, <2>5, PersistTypes, PairingAssumption DEF Unsaved, Fault, PairingTypeOK
    <3> QED BY <2>2, <2>3, <2>5, <3>1, Windows, OtherGroup
  <2> QED BY <1>0, <2>3, <2>4, <2>5, CutMember
<1>9. CASE HeadReset
  <2>1. used' \in 0 .. MaxGroups
    BY <1>0, <1>9 DEF HeadReset, PairingTypeOK
  <2> QED BY <1>0, <1>9, <2>1, RestartedMember DEF HeadReset
<1>10. CASE UNCHANGED pairingVars
  BY <1>10 DEF pairingVars, PairingInv, PairingTypeOK, MemberOfOwnGroup, UnusedInv
<1> QED
  BY <1>1, <1>2, <1>3, <1>4, <1>5, <1>6, <1>7, <1>8, <1>9, <1>10 DEF PairingNext

-------------------------------------------------------------------------------
(* The theorems                                                            *)

LEMMA PairingStart == PairingInit => PairingInv
<1> SUFFICES ASSUME PairingInit PROVE PairingInv
  OBVIOUS
<1>1. cfg = Alone /\ kept = Alone /\ window = FALSE /\ attempts = 0 /\ age = 0
      /\ advert = FALSE /\ used = 0 /\ guests = {} /\ ghost = FALSE /\ groupFaults = 0
  BY DEF PairingInit
<1>2. /\ attempts \in 0 .. MaxAttempts /\ age \in 0 .. Ttl /\ used \in 0 .. MaxGroups
      /\ groupFaults \in 0 .. MaxGroupFaults
  BY <1>1, PairingAssumption
<1>3. PairingTypeOK
  BY <1>1, <1>2, AloneGroup DEF PairingTypeOK
<1>4. MemberOfOwnGroup /\ UnusedInv
  BY <1>1, AloneGroup DEF MemberOfOwnGroup, UnusedInv
<1> QED BY <1>3, <1>4 DEF PairingInv

LEMMA PairingAlways == PairingSpec => []PairingInv
BY PairingStart, PairingStep, PTL DEF PairingSpec

(* Every variable of the pairing window keeps its type. *)
THEOREM PairingTypeCorrect == PairingSpec => []PairingTypeOK
<1>1. PairingInv => PairingTypeOK
  BY DEF PairingInv
<1> QED BY <1>1, PairingAlways, PTL

(* A head that has a group is a member of it, and its peers are the others,  *)
(* whichever of the five keys a reset or a refused write kept.               *)
THEOREM AlwaysMember == PairingSpec => []MemberOfOwnGroup
<1>1. PairingInv => MemberOfOwnGroup
  BY DEF PairingInv
<1> QED BY <1>1, PairingAlways, PTL

(* What a step does to a code, told by what it does to the window.           *)
LEMMA CodeMoves ==
  ASSUME PairingInv
  PROVE  /\ OpenWindow => Promise!Offer
         /\ CloseWindow /\ guests' = guests => Promise!Close
         /\ SameWindow /\ guests' = guests => UNCHANGED Promise!promiseVars
<1>1. Ttl # 0
  BY PairingAssumption
<1> QED
  BY <1>1
  DEF OpenWindow, CloseWindow, SameWindow, Expired, Promise!Offer, Promise!Close,
      Promise!Gone, Promise!promiseVars

LEMMA CodeCut ==
  ASSUME PairingInv, NEW n, Restarted(n)
  PROVE  Promise!Next
<1>1. CloseWindow /\ guests' = guests
  BY DEF Restarted, CloseWindow
<1> QED BY <1>1, CodeMoves DEF Promise!Next

LEMMA CodeStep ==
  ASSUME PairingInv, [PairingNext]_pairingVars
  PROVE  Promise!Next \/ UNCHANGED Promise!promiseVars
<1>t. /\ attempts \in 0 .. MaxAttempts /\ age \in 0 .. Ttl /\ window \in BOOLEAN
      /\ Ttl \in Nat \ {0} /\ MaxAttempts \in Nat
  BY PairingAssumption DEF PairingInv, PairingTypeOK
<1>c. ASSUME NEW c, Cut(c) PROVE Promise!Next
  BY <1>c, CodeCut DEF Cut
<1>w. (OpenWindow \/ (CloseWindow /\ guests' = guests)) => Promise!Next
  BY CodeMoves DEF Promise!Next
<1>1. CASE PairStart
  BY <1>1, <1>c, <1>w DEF PairStart
<1>2. CASE PairStop \/ PairStatus \/ DeadCode
  BY <1>2, <1>w DEF PairStop, PairStatus, DeadCode
<1>3. CASE TimePasses
  <2>1. window /\ ~Expired /\ UNCHANGED <<window, attempts, guests>>
    BY <1>3, <1>t DEF TimePasses, Expired
  <2>2. CASE Expired'
    <3>1. Promise!Close
      BY <2>1, <2>2 DEF Promise!Close, Promise!Gone
    <3> QED BY <3>1 DEF Promise!Next
  <2>3. CASE ~Expired'
    BY <2>1, <2>3 DEF Promise!promiseVars
  <2> QED BY <2>2, <2>3
<1>4. CASE BadCode
  <2>1. window /\ ~Expired /\ attempts # 0 /\ guests' = guests
    BY <1>4 DEF BadCode, Decision
  <2>2. CASE attempts = 1 /\ CloseWindow
    <3>1. Promise!Refuse
      BY <2>1, <2>2, <1>t DEF Promise!Refuse, CloseWindow, Expired
    <3> QED BY <3>1 DEF Promise!Next
  <2>3. CASE attempts # 1 /\ attempts' = attempts - 1 /\ UNCHANGED <<window, age>>
    <3>1. ~Expired' /\ attempts > 0 /\ attempts > 1
      BY <2>1, <2>3, <1>t DEF Expired
    <3>2. Promise!Refuse
      BY <2>1, <2>3, <3>1 DEF Promise!Refuse
    <3> QED BY <3>2 DEF Promise!Next
  <2> QED BY <1>4, <2>2, <2>3 DEF BadCode
<1>5. ASSUME NEW h \in Guests, Claim(h) PROVE Promise!Next
  <2>1. window /\ ~Expired /\ guests = {}
    BY <1>5 DEF Claim, Decision, PairingInv, UnusedInv
  <2>2. CASE CloseWindow /\ guests' = guests \cup {h}
    <3>1. ~Expired'
      BY <2>2, <1>t DEF CloseWindow, Expired
    <3>2. guests' = {h}
      BY <2>1, <2>2
    <3>3. Promise!Admit(h)
      BY <2>1, <2>2, <3>1, <3>2 DEF Promise!Admit, Promise!Gone, CloseWindow
    <3> QED BY <3>3 DEF Promise!Next
  <2> QED BY <1>5, <1>c, <2>2 DEF Claim
<1>6. CASE Leave \/ Merge \/ Evicted \/ JoinGroup
  <2>1. \/ (CloseWindow \/ SameWindow) /\ guests' = guests
        \/ \E c : Cut(c)
    BY <1>6 DEF Leave, Merge, Evicted, JoinGroup
  <2> QED BY <2>1, <1>c, <1>w, CodeMoves
<1>7. CASE HeadReset
  BY <1>7, CodeCut DEF HeadReset
<1>8. CASE UNCHANGED pairingVars
  BY <1>8 DEF pairingVars, Promise!promiseVars, Expired
<1> QED BY <1>1, <1>2, <1>3, <1>4, <1>5, <1>6, <1>7, <1>8 DEF PairingNext

(* A code lets one head in, within its time, and is burnt by the last wrong  *)
(* guess: the window implements PairingPromise for every number of guesses   *)
(* and every length of time.                                                 *)
THEOREM CodeKept == PairingSpec => CodeKeepsPromise
<1>1. PairingInit => Promise!Init
  BY PairingAssumption DEF PairingInit, Promise!Init, Expired
<1>2. PairingInv /\ [PairingNext]_pairingVars => [Promise!Next]_(Promise!promiseVars)
  BY CodeStep
<1> QED
  BY <1>1, <1>2, PairingAlways, PTL DEF PairingSpec, CodeKeepsPromise, Promise!Spec

===============================================================================
