------------------------ MODULE GroupReplicaProofs ------------------------
(***************************************************************************)
(* What the heads of a group replicate: proofs for every number of heads,  *)
(* every text and every bound.  The induction is over the replicas there   *)
(* are, in memory, in NVS, in answers and in offers: each is Sound, its    *)
(* clock covers it and no tombstone vetoes a member of it.  Where nobody   *)
(* is enrolled twice it is also over the registers in them (Written): each *)
(* was written once, by the head it names, whose next write is later.      *)
(***************************************************************************)
EXTENDS GroupReplica, TLAPS

Sound(r) == r \in Replica /\ Covered(r) /\ Unvetoed(r)

-----------------------------------------------------------------------------
(* The pure functions                                                      *)

(* The register nobody has written and the replica of a standalone head.   *)
LEMMA EmptyIsSound == Unwritten \in Register /\ Sound(Empty)
<1>1. Unwritten \in Register
  BY GroupAssumption DEF Unwritten, Register
<1>2. Empty \in Replica
  BY <1>1 DEF Empty, Replica
<1>3. Covered(Empty)
  BY DEF Covered, Versions, Empty, Unwritten
<1>4. Unvetoed(Empty)
  BY DEF Unvetoed, Members, Empty
<1> QED BY <1>1, <1>2, <1>3, <1>4 DEF Sound

(* bump_clock_to_cover has nothing to do where the clock already covers.   *)
LEMMA CoverIsClock ==
  ASSUME NEW r \in Replica, Covered(r)
  PROVE  Cover(r) = r.lamport
<1>1. Versions(r) \subseteq Nat /\ r.lamport \in Versions(r)
  BY DEF Versions, Replica, Register
<1>2. \A v \in Versions(r) : r.lamport >= v
  BY <1>1 DEF Covered
<1>3. PICK m \in Versions(r) : m = Cover(r) /\ \A v \in Versions(r) : m >= v
  BY <1>1, <1>2 DEF Cover, Max
<1> QED BY <1>1, <1>2, <1>3

(* What covering means, version by version. *)
Parts(r) ==
  /\ r.label.version <= r.lamport
  /\ \A u \in Heads : /\ r.add[u] <= r.lamport /\ r.tomb[u] <= r.lamport
                       /\ r.name[u].version <= r.lamport

(* A clock covers a replica when it is at or past each of its versions. *)
LEMMA CoveredParts ==
  ASSUME NEW r \in Replica
  PROVE  Covered(r) <=> Parts(r)
<1>1. Covered(r) => Parts(r)
  BY DEF Covered, Versions, Parts
<1>2. ASSUME Parts(r), NEW v \in Versions(r)
      PROVE  v <= r.lamport
  <2>1. r.lamport <= r.lamport
    BY DEF Replica
  <2> QED BY <1>2, <2>1 DEF Versions, Parts
<1> QED BY <1>1, <1>2 DEF Covered

(* A later write, a larger number: one of the two, and what it says.        *)
LEMMA LaterIsOne ==
  ASSUME NEW a, NEW b
  PROVE  Later(a, b) \in {a, b}
BY DEF Later

(* A larger number is one that neither of the two passes. *)
LEMMA LargerBounds ==
  ASSUME NEW m \in Nat, NEW n \in Nat
  PROVE  Larger(m, n) \in Nat /\ m <= Larger(m, n) /\ n <= Larger(m, n)
BY DEF Larger

(* The union of two sound replicas is sound: its clock is the later one,    *)
(* and what a tombstone of either vetoes is out.                           *)
LEMMA UnionIsSound ==
  ASSUME NEW l, NEW r, Sound(l), Sound(r)
  PROVE  Sound(Union(l, r))
<1> DEFINE tomb == [u \in Heads |-> Larger(l.tomb[u], r.tomb[u])]
           taken == {u \in Heads : r.add[u] > tomb[u]}
           add == [u \in Heads |-> IF u \in taken THEN Larger(l.add[u], r.add[u])
                                   ELSE l.add[u]]
           live == {u \in Heads : add[u] > tomb[u]}
           name == [u \in Heads |-> IF u \notin live THEN Unwritten
                                    ELSE IF u \in taken THEN Later(l.name[u], r.name[u])
                                    ELSE l.name[u]]
           top == Larger(l.lamport, r.lamport)
           out == Union(l, r)
<1>1. l \in Replica /\ r \in Replica /\ Parts(l) /\ Parts(r)
  BY CoveredParts DEF Sound
<1>2. /\ out.lamport = top /\ out.label = Later(l.label, r.label)
      /\ out.add = [u \in Heads |-> IF u \in live THEN add[u] ELSE 0]
      /\ out.tomb = tomb /\ out.name = name
  BY DEF Union
<1>3. top \in Nat /\ l.lamport <= top /\ r.lamport <= top
  BY <1>1, LargerBounds DEF Replica
<1>4. out.label \in Register /\ out.label.version <= top
  <2>1. /\ l.label \in Register /\ l.label.version <= l.lamport /\ l.lamport \in Nat
        /\ r.label \in Register /\ r.label.version <= r.lamport /\ r.lamport \in Nat
    BY <1>1 DEF Replica, Parts
  <2>2. out.label \in {l.label, r.label}
    BY <1>2, LaterIsOne
  <2> HIDE DEF top, out
  <2>3. \A g \in Register : g.version \in Nat
    BY DEF Register
  <2> QED BY <1>3, <2>1, <2>2, <2>3
<1>5. ASSUME NEW u \in Heads
      PROVE  /\ tomb[u] \in Nat /\ tomb[u] <= top
             /\ add[u] \in Nat /\ add[u] <= top
             /\ name[u] \in Register /\ name[u].version <= top
  <2>1. /\ l.tomb[u] \in Nat /\ r.tomb[u] \in Nat /\ l.add[u] \in Nat /\ r.add[u] \in Nat
        /\ l.name[u] \in Register /\ r.name[u] \in Register
        /\ l.lamport \in Nat /\ r.lamport \in Nat
    BY <1>1 DEF Replica
  <2>2. /\ l.tomb[u] <= top /\ r.tomb[u] <= top /\ l.add[u] <= top /\ r.add[u] <= top
        /\ l.name[u].version <= top /\ r.name[u].version <= top
    <3> HIDE DEF top
    <3> QED BY <1>1, <1>3, <2>1 DEF Parts, Register
  <2>3. tomb[u] = Larger(l.tomb[u], r.tomb[u])
    OBVIOUS
  <2>4. add[u] \in {Larger(l.add[u], r.add[u]), l.add[u]}
    OBVIOUS
  <2>5. name[u] \in {Unwritten, Later(l.name[u], r.name[u]), l.name[u]}
    OBVIOUS
  <2>6. Unwritten \in Register /\ Unwritten.version <= top
    <3> HIDE DEF top
    <3> QED BY <1>3, EmptyIsSound DEF Unwritten
  <2> HIDE DEF top, tomb, add, name
  <2>7. tomb[u] \in Nat /\ tomb[u] <= top
    BY <2>1, <2>2, <2>3 DEF Larger
  <2>8. add[u] \in Nat /\ add[u] <= top
    BY <2>1, <2>2, <2>4 DEF Larger
  <2>9. name[u] \in Register /\ name[u].version <= top
    BY <2>1, <2>2, <2>5, <2>6, LaterIsOne
  <2> QED BY <2>7, <2>8, <2>9
<1>6. out \in Replica
  <2> HIDE DEF add, live, top
  <2>1. out.add \in [Heads -> Nat]
    BY <1>2, <1>5
  <2>2. out.tomb \in [Heads -> Nat] /\ out.name \in [Heads -> Register]
    <3>1. tomb \in [Heads -> Nat] /\ name \in [Heads -> Register]
      <4>1. tomb = [u \in Heads |-> tomb[u]] /\ name = [u \in Heads |-> name[u]]
        OBVIOUS
      <4> HIDE DEF tomb, name
      <4> QED BY <1>5, <4>1
    <3> QED BY <1>2, <3>1
  <2>3. out = [lamport |-> out.lamport, label |-> out.label, add |-> out.add,
               tomb |-> out.tomb, name |-> out.name]
    BY DEF Union
  <2> HIDE DEF out, tomb, name
  <2>4. out.lamport \in Nat /\ out.label \in Register
    BY <1>2, <1>3, <1>4
  <2> QED BY <2>1, <2>2, <2>3, <2>4 DEF Replica
<1>7. Parts(out)
  <2> HIDE DEF out, tomb, add, live, top, name
  <2> QED BY <1>2, <1>3, <1>4, <1>5 DEF Parts
<1>8. Unvetoed(out)
  <2> HIDE DEF out, tomb, add, top, name
  <2> QED BY <1>2 DEF Unvetoed, Members
<1>9. Sound(out)
  <2> HIDE DEF out
  <2> QED BY <1>6, <1>7, <1>8, CoveredParts DEF Sound
<1> QED BY <1>9

(* So a merge is the union: the bump at its end changes nothing. *)
LEMMA MergeIsUnion ==
  ASSUME NEW l, NEW r, Sound(l), Sound(r)
  PROVE  Merge(l, r) = Union(l, r)
<1>1. Sound(Union(l, r))
  BY UnionIsSound
<1>2. Cover(Union(l, r)) = Union(l, r).lamport
  BY <1>1, CoverIsClock DEF Sound
<1>3. [Union(l, r) EXCEPT !.lamport = Union(l, r).lamport] = Union(l, r)
  BY <1>1 DEF Sound, Replica
<1> QED BY <1>2, <1>3 DEF Merge

(* A write of the admin, stamped one past everything seen, is sound.       *)
LEMMA StampIsNext ==
  ASSUME NEW r, Sound(r), NEW v \in Text, NEW w \in Heads
  PROVE  /\ Cover(r) = r.lamport /\ r.lamport \in Nat
         /\ Stamp(r, v, w) \in Register
         /\ Stamp(r, v, w).version = r.lamport + 1
<1>1. Cover(r) = r.lamport /\ r.lamport \in Nat
  BY CoverIsClock DEF Sound, Replica
<1> QED BY <1>1 DEF Stamp, Register

(* A label the admin writes leaves the replica sound. *)
LEMMA SetLabelIsSound ==
  ASSUME NEW r, Sound(r), NEW v \in Text, NEW w \in Heads
  PROVE  Sound(SetLabel(r, v, w))
<1> DEFINE out == SetLabel(r, v, w)
<1>1. r \in Replica /\ Parts(r) /\ Unvetoed(r)
  BY CoveredParts DEF Sound
<1>2. /\ out.lamport = r.lamport + 1 /\ out.label = Stamp(r, v, w)
      /\ out.add = r.add /\ out.tomb = r.tomb /\ out.name = r.name
      /\ out \in Replica
  <2>1. out = [r EXCEPT !.label = Stamp(r, v, w), !.lamport = r.lamport + 1]
    BY StampIsNext DEF SetLabel
  <2>2. Stamp(r, v, w) \in Register /\ r.lamport + 1 \in Nat
    BY StampIsNext
  <2> HIDE DEF out
  <2> QED BY <1>1, <2>1, <2>2 DEF Replica
<1>3. Parts(out)
  <2> HIDE DEF out
  <2> QED BY <1>1, <1>2, StampIsNext DEF Parts, Replica, Register
<1>4. Unvetoed(out)
  <2> HIDE DEF out
  <2> QED BY <1>1, <1>2 DEF Unvetoed, Members
<1>5. Sound(out)
  <2> HIDE DEF out
  <2> QED BY <1>2, <1>3, <1>4, CoveredParts DEF Sound
<1> QED BY <1>5

(* A head's name, written for a member or for nobody, is sound. *)
LEMMA SetNameIsSound ==
  ASSUME NEW r, Sound(r), NEW u \in Heads, NEW v \in Text, NEW w \in Heads
  PROVE  Sound(SetName(r, u, v, w))
<1> DEFINE out == [r EXCEPT !.name[u] = Stamp(r, v, w), !.lamport = Cover(r) + 1]
<1>1. r \in Replica /\ Parts(r) /\ Unvetoed(r)
  BY CoveredParts DEF Sound
<1>2. /\ out.lamport = r.lamport + 1
      /\ out.name = [r.name EXCEPT ![u] = Stamp(r, v, w)]
      /\ out.add = r.add /\ out.tomb = r.tomb /\ out.label = r.label
      /\ out \in Replica
  <2>1. out = [r EXCEPT !.name[u] = Stamp(r, v, w), !.lamport = r.lamport + 1]
    BY StampIsNext
  <2>2. Stamp(r, v, w) \in Register /\ r.lamport + 1 \in Nat
    BY StampIsNext
  <2> HIDE DEF out
  <2> QED BY <1>1, <2>1, <2>2 DEF Replica
<1>3. Parts(out)
  <2> HIDE DEF out
  <2> QED BY <1>1, <1>2, StampIsNext DEF Parts, Replica, Register
<1>4. Unvetoed(out)
  <2> HIDE DEF out
  <2> QED BY <1>1, <1>2 DEF Unvetoed, Members
<1>5. Sound(out)
  <2> HIDE DEF out
  <2> QED BY <1>2, <1>3, <1>4, CoveredParts DEF Sound
<1> QED BY <1>5 DEF SetName

(* A head that is enrolled again is in, whatever tombstone it had.         *)
LEMMA AddMemberIsSound ==
  ASSUME NEW r, Sound(r), NEW u \in Heads
  PROVE  Sound(AddMember(r, u)) /\ u \in Members(AddMember(r, u))
<1> DEFINE out == [r EXCEPT !.add[u] = Cover(r) + 1, !.lamport = Cover(r) + 1]
<1>1. r \in Replica /\ Parts(r) /\ Unvetoed(r)
  BY CoveredParts DEF Sound
<1>2. Cover(r) = r.lamport /\ r.lamport \in Nat
  BY <1>1, CoverIsClock DEF Sound, Replica
<1>3. /\ out.lamport = r.lamport + 1
      /\ out.add = [r.add EXCEPT ![u] = r.lamport + 1]
      /\ out.name = r.name /\ out.tomb = r.tomb /\ out.label = r.label
      /\ out \in Replica
  <2>1. out = [r EXCEPT !.add[u] = r.lamport + 1, !.lamport = r.lamport + 1]
    BY <1>2
  <2>2. r.lamport + 1 \in Nat
    BY <1>2
  <2> HIDE DEF out
  <2> QED BY <1>1, <2>1, <2>2 DEF Replica
<1>4. Parts(out)
  <2> HIDE DEF out
  <2> QED BY <1>1, <1>2, <1>3 DEF Parts, Replica, Register
<1>5. Unvetoed(out) /\ u \in Members(out)
  <2> HIDE DEF out
  <2> QED BY <1>1, <1>2, <1>3 DEF Unvetoed, Members, Parts, Replica
<1>6. Sound(out)
  <2> HIDE DEF out
  <2> QED BY <1>3, <1>4, <1>5, CoveredParts DEF Sound
<1> QED BY <1>5, <1>6 DEF AddMember

(* A head that is removed is out of a replica that stays sound.            *)
LEMMA RemoveMemberIsSound ==
  ASSUME NEW r, Sound(r), NEW u \in Heads
  PROVE  Sound(RemoveMember(r, u)) /\ u \notin Members(RemoveMember(r, u))
<1> DEFINE rest == [r EXCEPT !.add[u] = 0, !.name[u] = Unwritten]
           out == [rest EXCEPT !.tomb[u] = Cover(rest) + 1,
                               !.lamport = Cover(rest) + 1]
<1>1. r \in Replica /\ Parts(r) /\ Unvetoed(r)
  BY CoveredParts DEF Sound
<1>2. /\ rest.lamport = r.lamport
      /\ rest.add = [r.add EXCEPT ![u] = 0]
      /\ rest.name = [r.name EXCEPT ![u] = Unwritten]
      /\ rest.tomb = r.tomb /\ rest.label = r.label
      /\ rest \in Replica
  BY <1>1, EmptyIsSound DEF Replica
<1>3. Parts(rest)
  <2> HIDE DEF rest
  <2> QED BY <1>1, <1>2 DEF Parts, Replica, Register, Unwritten
<1>4. Cover(rest) = r.lamport /\ r.lamport \in Nat
  <2> HIDE DEF rest
  <2> QED BY <1>1, <1>2, <1>3, CoveredParts, CoverIsClock DEF Replica
<1>5. /\ out.lamport = r.lamport + 1
      /\ out.tomb = [rest.tomb EXCEPT ![u] = r.lamport + 1]
      /\ out.add = rest.add /\ out.name = rest.name /\ out.label = rest.label
      /\ out \in Replica
  <2>1. out = [rest EXCEPT !.tomb[u] = r.lamport + 1, !.lamport = r.lamport + 1]
    BY <1>4
  <2>2. r.lamport + 1 \in Nat
    BY <1>4
  <2> HIDE DEF rest, out
  <2> QED BY <1>2, <2>1, <2>2 DEF Replica
<1>6. Parts(out)
  <2> HIDE DEF rest, out
  <2> QED BY <1>2, <1>3, <1>4, <1>5 DEF Parts, Replica, Register
<1>7. Unvetoed(out) /\ u \notin Members(out)
  <2> HIDE DEF rest, out
  <2> QED BY <1>1, <1>2, <1>5 DEF Unvetoed, Members, Replica
<1>8. Sound(out)
  <2> HIDE DEF rest, out
  <2> QED BY <1>5, <1>6, <1>7, CoveredParts DEF Sound
<1> QED BY <1>7, <1>8 DEF RemoveMember

-----------------------------------------------------------------------------
(* The invariant                                                           *)

WithClock(r, c) == [r EXCEPT !.lamport = c]

(* In memory and, as a reboot will read it, in NVS. *)
KeptSound ==
  \A h \in Heads : Sound(replica[h]) /\ Sound(WithClock(replica[h], clock[h]))

(* On the way. *)
SentSound ==
  \A h \in Heads : /\ reply[h] = None \/ Sound(reply[h])
                   /\ offer[h] = None \/ Sound(offer[h])

SoundInv == TypeOK /\ KeptSound /\ SentSound

(* The clock alone may be set back, as far as it still covers. *)
LEMMA WithClockParts ==
  ASSUME NEW r, Sound(r), NEW c \in Nat
  PROVE  /\ WithClock(r, c) \in Replica /\ Unvetoed(WithClock(r, c))
         /\ WithClock(r, r.lamport) = r
BY DEF WithClock, Sound, Replica, Unvetoed, Members

(* persist_locked stores what it has in memory. *)
LEMMA KeepIsSound ==
  ASSUME SoundInv, NEW h \in Heads, NEW r, Sound(r), Keep(h, r)
  PROVE  /\ replica' \in [Heads -> Replica] /\ clock' \in [Heads -> Nat]
         /\ KeptSound'
<1>1. r \in Replica /\ r.lamport \in Nat
  BY DEF Sound, Replica
<1>2. replica' \in [Heads -> Replica] /\ clock' \in [Heads -> Nat]
  BY <1>1 DEF Keep, SoundInv, TypeOK
<1>3. ASSUME NEW k \in Heads
      PROVE  Sound(replica'[k]) /\ Sound(WithClock(replica'[k], clock'[k]))
  <2>1. CASE k = h
    <3>1. replica'[k] = r /\ clock'[k] = r.lamport
      BY <2>1 DEF Keep, SoundInv, TypeOK
    <3> QED BY <1>1, <3>1, WithClockParts
  <2>2. CASE k # h
    <3>1. replica'[k] = replica[k] /\ clock'[k] = clock[k]
      BY <2>2 DEF Keep, SoundInv, TypeOK
    <3> QED BY <3>1 DEF SoundInv, KeptSound
  <2> QED BY <2>1, <2>2
<1> QED BY <1>2, <1>3 DEF KeptSound

(* A bound that is used is still a number. *)
LEMMA SpendKeepsType ==
  ASSUME TypeOK, NEW what \in {"writes", "claims", "reboots", "lost"}, NEW most,
         Spend(what, most)
  PROVE  spent' \in [writes : Nat, claims : Nat, reboots : Nat, lost : Nat]
BY DEF TypeOK, Spend

(* The founder's replica and the empty ones are sound. *)
LEMMA InitIsSound == Init => SoundInv
<1> SUFFICES ASSUME Init PROVE SoundInv
  OBVIOUS
<1>1. Founder \in Heads /\ Sound(Empty) /\ Sound(Founded)
  BY GroupAssumption, EmptyIsSound, AddMemberIsSound DEF Founded
<1>2. \A h \in Heads : /\ replica[h] \in {Empty, Founded}
                       /\ clock[h] = replica[h].lamport
  BY DEF Init
<1>3. \A h \in Heads : Sound(replica[h]) /\ clock[h] = replica[h].lamport
  BY <1>1, <1>2
<1>4. \A h \in Heads : WithClock(replica[h], clock[h]) = replica[h] /\ clock[h] \in Nat
  BY <1>3, WithClockParts DEF Sound, Replica
<1>5. replica \in [Heads -> Replica] /\ clock \in [Heads -> Nat]
  <2>1. /\ replica = [h \in Heads |-> replica[h]]
        /\ clock = [h \in Heads |-> clock[h]]
    BY DEF Init
  <2> QED BY <1>3, <1>4, <2>1 DEF Sound
<1>6. TypeOK
  <2>1. /\ dev \in [Heads -> Text]
        /\ noting \in [Heads -> BOOLEAN] /\ stale \in [Heads -> BOOLEAN]
        /\ boot \in [Heads -> Boot]
        /\ list \in [Heads -> SUBSET Heads] /\ \A h \in Heads : h \notin list[h]
    BY GroupAssumption DEF Init, Boot, Booting
  <2>2. /\ reply \in [Heads -> Replica \cup {None}]
        /\ offer \in [Heads -> Replica \cup {None}]
    BY DEF Init
  <2>3. /\ claims \in [Heads -> Nat]
        /\ spent \in [writes : Nat, claims : Nat, reboots : Nat, lost : Nat]
    BY DEF Init
  <2> QED BY <1>5, <2>1, <2>2, <2>3 DEF TypeOK
<1>7. KeptSound
  BY <1>3, <1>4 DEF KeptSound
<1>8. SentSound
  BY DEF SentSound, Init
<1> QED BY <1>6, <1>7, <1>8 DEF SoundInv

(* What the admin does at a head, in the web handlers. *)
LEMMA LabelGroupStep ==
  ASSUME SoundInv, NEW h \in Heads, NEW v \in Text, LabelGroup(h, v)
  PROVE  SoundInv'
<1>1. Sound(SetLabel(replica[h], v, h))
  BY SetLabelIsSound DEF SoundInv, KeptSound
<1>2. /\ replica' \in [Heads -> Replica] /\ clock' \in [Heads -> Nat] /\ KeptSound'
  BY <1>1, KeepIsSound DEF LabelGroup
<1>3. spent' \in [writes : Nat, claims : Nat, reboots : Nat, lost : Nat]
  BY SpendKeepsType DEF LabelGroup, Write, SoundInv
<1>4. UNCHANGED <<dev, noting, boot, list, reply, offer, stale, claims>>
  BY DEF LabelGroup
<1> QED BY <1>2, <1>3, <1>4 DEF SoundInv, TypeOK, SentSound

(* A rename stores the new name and leaves the replica for later. *)
LEMMA RenameStep ==
  ASSUME SoundInv, NEW h \in Heads, NEW v \in Text, Rename(h, v)
  PROVE  SoundInv'
<1>1. spent' \in [writes : Nat, claims : Nat, reboots : Nat, lost : Nat]
  BY SpendKeepsType DEF Rename, Write, SoundInv
<1>2. /\ dev' = [dev EXCEPT ![h] = v]
      /\ noting' = [noting EXCEPT ![h] = TRUE]
      /\ UNCHANGED <<replica, clock, boot, list, reply, offer, stale, claims>>
  BY DEF Rename
<1> QED BY <1>1, <1>2 DEF SoundInv, TypeOK, KeptSound, SentSound

(* The name a head announces is a member's. *)
LEMMA AnnounceIsSound ==
  ASSUME SoundInv, NEW h \in Heads, NEW v \in Text, Announce(h, v)
  PROVE  /\ replica' \in [Heads -> Replica] /\ clock' \in [Heads -> Nat] /\ KeptSound'
         /\ stale' \in [Heads -> BOOLEAN]
<1>1. Sound(SetName(replica[h], h, v, h))
  BY SetNameIsSound DEF SoundInv, KeptSound
<1>2. stale' \in [Heads -> BOOLEAN]
  BY DEF Announce, SoundInv, TypeOK
<1>3. CASE InGroup(h)
  BY <1>1, <1>2, <1>3, KeepIsSound DEF Announce
<1>4. CASE ~InGroup(h)
  BY <1>2, <1>4 DEF Announce, SoundInv, TypeOK, KeptSound
<1> QED BY <1>3, <1>4

(* A handler's announcement of the name. *)
LEMMA NoteSelfNameStep ==
  ASSUME SoundInv, NEW h \in Heads, NoteSelfName(h)
  PROVE  SoundInv'
<1>1. Announce(h, dev[h]) /\ dev[h] \in Text
  BY DEF NoteSelfName, SoundInv, TypeOK
<1>2. /\ replica' \in [Heads -> Replica] /\ clock' \in [Heads -> Nat] /\ KeptSound'
      /\ stale' \in [Heads -> BOOLEAN]
  BY <1>1, AnnounceIsSound
<1>3. /\ noting' = [noting EXCEPT ![h] = FALSE]
      /\ UNCHANGED <<dev, boot, list, reply, offer, claims, spent>>
  BY DEF NoteSelfName
<1> QED BY <1>2, <1>3 DEF SoundInv, TypeOK, SentSound

(* The record of a boot's announcement is of its type. *)
LEMMA BootingType ==
  ASSUME TypeOK, NEW h \in Heads
  PROVE  /\ boot[h].step \in {"done", "ask", "read", "note"} /\ boot[h].name \in Text
         /\ \A s \in {"done", "ask", "read", "note"}, v \in Text :
              [boot EXCEPT ![h] = Booting(s, v)] \in [Heads -> Boot]
BY DEF TypeOK, Boot, Booting

(* The boot's three steps: whether there is a group, the name, the note. *)
LEMMA BootsStep ==
  ASSUME SoundInv, NEW h \in Heads, Boots(h)
  PROVE  SoundInv'
<1>1. /\ TypeOK /\ Blank \in Text /\ dev[h] \in Text
      /\ boot[h].name \in Text
      /\ \A s \in {"done", "ask", "read", "note"}, v \in Text :
           [boot EXCEPT ![h] = Booting(s, v)] \in [Heads -> Boot]
  BY GroupAssumption, BootingType DEF SoundInv, TypeOK
<1>2. CASE BootAsks(h) \/ BootReads(h)
  <2>1. UNCHANGED <<replica, clock, dev, noting, list, reply, offer, stale, claims, spent>>
    BY <1>2 DEF BootAsks, BootReads
  <2>2. boot' \in [Heads -> Boot]
    BY <1>1, <1>2 DEF BootAsks, BootReads
  <2> QED BY <2>1, <2>2 DEF SoundInv, TypeOK, KeptSound, SentSound
<1>3. CASE BootNotes(h)
  <2>1. Announce(h, boot[h].name)
    BY <1>3 DEF BootNotes
  <2>2. /\ replica' \in [Heads -> Replica] /\ clock' \in [Heads -> Nat] /\ KeptSound'
        /\ stale' \in [Heads -> BOOLEAN]
    BY <1>1, <2>1, AnnounceIsSound
  <2>3. /\ boot' \in [Heads -> Boot]
        /\ UNCHANGED <<dev, noting, list, reply, offer, claims, spent>>
    BY <1>1, <1>3 DEF BootNotes
  <2> QED BY <2>2, <2>3 DEF SoundInv, TypeOK, SentSound
<1> QED BY <1>2, <1>3 DEF Boots

(* An eviction writes a tombstone. *)
LEMMA EvictStep ==
  ASSUME SoundInv, NEW h \in Heads, NEW u \in Heads, Evict(h, u)
  PROVE  SoundInv'
<1>1. Sound(RemoveMember(replica[h], u))
  BY RemoveMemberIsSound DEF SoundInv, KeptSound
<1>2. /\ replica' \in [Heads -> Replica] /\ clock' \in [Heads -> Nat] /\ KeptSound'
  BY <1>1, KeepIsSound DEF Evict
<1>3. spent' \in [writes : Nat, claims : Nat, reboots : Nat, lost : Nat]
  BY SpendKeepsType DEF Evict, Write, SoundInv
<1>4. UNCHANGED <<dev, noting, boot, list, reply, offer, stale, claims>>
  BY DEF Evict
<1> QED BY <1>2, <1>3, <1>4 DEF SoundInv, TypeOK, SentSound

(* Leaving empties the replica. *)
LEMMA LeaveStep ==
  ASSUME SoundInv, NEW h \in Heads, Leave(h)
  PROVE  SoundInv'
<1>1. /\ replica' \in [Heads -> Replica] /\ clock' \in [Heads -> Nat] /\ KeptSound'
  BY EmptyIsSound, KeepIsSound DEF Leave
<1>2. spent' \in [writes : Nat, claims : Nat, reboots : Nat, lost : Nat]
  BY SpendKeepsType DEF Leave, Write, SoundInv
<1>3. UNCHANGED <<dev, noting, boot, list, reply, offer, stale, claims>>
  BY DEF Leave
<1> QED BY <1>1, <1>2, <1>3 DEF SoundInv, TypeOK, SentSound

(* What an owner hands to the head it enrols is what it stores itself. *)
LEMMA ClaimStep ==
  ASSUME SoundInv, NEW o \in Heads, NEW j \in Heads, Claim(o, j)
  PROVE  SoundInv'
<1> DEFINE added == AddMember(replica[o], j)
           named == IF dev[j] = Blank THEN added ELSE SetName(added, j, dev[j], j)
<1>1. Sound(added)
  BY AddMemberIsSound DEF SoundInv, KeptSound
<1>2. dev[j] \in Text
  BY DEF SoundInv, TypeOK
<1>3. Sound(named)
  <2> HIDE DEF added
  <2> QED BY <1>1, <1>2, SetNameIsSound
<1>4. /\ Keep(o, named) /\ offer' = [offer EXCEPT ![j] = named]
      /\ claims' = [claims EXCEPT ![j] = @ + 1]
      /\ UNCHANGED <<dev, noting, boot, list, reply, stale>>
  BY DEF Claim
<1>5. spent' \in [writes : Nat, claims : Nat, reboots : Nat, lost : Nat]
  BY SpendKeepsType DEF Claim, SoundInv
<1> HIDE DEF named
<1>6. /\ replica' \in [Heads -> Replica] /\ clock' \in [Heads -> Nat] /\ KeptSound'
  BY <1>3, <1>4, KeepIsSound
<1>7. TypeOK'
  <2>1. named \in Replica
    BY <1>3 DEF Sound
  <2>2. offer' \in [Heads -> Replica \cup {None}]
    BY <1>4, <2>1 DEF SoundInv, TypeOK
  <2>3. claims' \in [Heads -> Nat]
    BY <1>4 DEF SoundInv, TypeOK
  <2> QED BY <1>4, <1>5, <1>6, <2>2, <2>3 DEF SoundInv, TypeOK
<1>8. SentSound'
  BY <1>3, <1>4 DEF SoundInv, TypeOK, SentSound
<1> QED BY <1>6, <1>7, <1>8 DEF SoundInv

(* The joiner adopts the owner's replica, itself in it. *)
LEMMA JoinStep ==
  ASSUME SoundInv, NEW j \in Heads, Join(j)
  PROVE  SoundInv'
<1>1. Sound(AddMember(offer[j], j))
  BY AddMemberIsSound DEF SoundInv, SentSound, Join
<1>2. /\ replica' \in [Heads -> Replica] /\ clock' \in [Heads -> Nat] /\ KeptSound'
  BY <1>1, KeepIsSound DEF Join
<1>3. /\ offer' = [offer EXCEPT ![j] = None]
      /\ noting' = [noting EXCEPT ![j] = TRUE]
      /\ UNCHANGED <<dev, boot, list, reply, stale, claims, spent>>
  BY DEF Join
<1> QED BY <1>2, <1>3 DEF SoundInv, TypeOK, SentSound

(* An offer that is lost changes nothing that is kept. *)
LEMMA OfferLostStep ==
  ASSUME SoundInv, NEW j \in Heads, OfferLost(j)
  PROVE  SoundInv'
<1>1. spent' \in [writes : Nat, claims : Nat, reboots : Nat, lost : Nat]
  BY SpendKeepsType DEF OfferLost, SoundInv
<1>2. /\ offer' = [offer EXCEPT ![j] = None]
      /\ UNCHANGED <<replica, clock, dev, noting, boot, list, reply, stale, claims>>
  BY DEF OfferLost
<1> QED BY <1>1, <1>2 DEF SoundInv, TypeOK, KeptSound, SentSound

(* A round polls others only. *)
LEMMA DueAreOthers ==
  ASSUME TypeOK, NEW h \in Heads
  PROVE  Due(h) \subseteq Heads /\ h \notin Due(h)
BY DEF TypeOK, Due, Peers, Members

(* The answer to a poll is the replica of the head that answers. *)
LEMMA PollStep ==
  ASSUME SoundInv, NEW h \in Heads, NEW k \in Heads, Poll(h, k)
  PROVE  SoundInv'
<1>1. Due(h) \subseteq Heads /\ h \notin Due(h)
  BY DueAreOthers DEF SoundInv
<1>2. /\ reply' = [reply EXCEPT ![h] = replica[k]]
      /\ list' = [list EXCEPT ![h] = Due(h) \ {k}]
      /\ UNCHANGED <<replica, clock, dev, noting, boot, offer, stale, claims, spent>>
  BY DEF Poll
<1>3. Sound(replica[k]) /\ replica[k] \in Replica
  BY DEF SoundInv, KeptSound, Sound
<1>4. TypeOK'
  BY <1>1, <1>2, <1>3 DEF SoundInv, TypeOK
<1>5. KeptSound' /\ SentSound'
  BY <1>2, <1>3 DEF SoundInv, TypeOK, KeptSound, SentSound
<1> QED BY <1>4, <1>5 DEF SoundInv

(* A poll without an answer shortens the round. *)
LEMMA PollFailsStep ==
  ASSUME SoundInv, NEW h \in Heads, NEW k \in Heads, PollFails(h, k)
  PROVE  SoundInv'
<1>1. Due(h) \subseteq Heads /\ h \notin Due(h)
  BY DueAreOthers DEF SoundInv
<1>2. /\ list' = [list EXCEPT ![h] = Due(h) \ {k}]
      /\ UNCHANGED <<replica, clock, dev, noting, boot, reply, offer, stale, claims, spent>>
  BY DEF PollFails
<1> QED BY <1>1, <1>2 DEF SoundInv, TypeOK, KeptSound, SentSound

(* A merge that moves the clock alone leaves NVS as it was, and what is    *)
(* there is covered by the clock it was stored with.                       *)
LEMMA AbsorbIsSound ==
  ASSUME SoundInv, NEW h \in Heads, NEW r, Sound(r), Absorb(h, r)
  PROVE  /\ replica' \in [Heads -> Replica] /\ clock' \in [Heads -> Nat]
         /\ KeptSound'
<1> DEFINE merged == Merge(replica[h], r)
<1>1. Sound(replica[h])
  BY DEF SoundInv, KeptSound
<1>2. Sound(merged)
  BY <1>1, MergeIsUnion, UnionIsSound
<1>3. CASE ~Changes(replica[h], r)
  <2>1. merged = WithClock(replica[h], merged.lamport)
    BY <1>3 DEF Changes, WithClock
  <2>2. replica' = [replica EXCEPT ![h] = merged] /\ clock' = clock
    BY <1>3 DEF Absorb
  <2> HIDE DEF merged
  <2>3. WithClock(merged, clock[h]) = WithClock(replica[h], clock[h])
    <3>1. WithClock(WithClock(replica[h], merged.lamport), clock[h])
            = WithClock(replica[h], clock[h])
      BY <1>1 DEF WithClock, Sound, Replica
    <3> QED BY <2>1, <3>1
  <2>4. ASSUME NEW k \in Heads
        PROVE  Sound(replica'[k]) /\ Sound(WithClock(replica'[k], clock'[k]))
    <3>1. CASE k = h
      <4>1. replica'[k] = merged /\ clock'[k] = clock[h]
        BY <2>2, <3>1 DEF SoundInv, TypeOK
      <4> QED BY <1>2, <2>3, <4>1 DEF SoundInv, KeptSound
    <3>2. CASE k # h
      <4>1. replica'[k] = replica[k] /\ clock'[k] = clock[k]
        BY <2>2, <3>2 DEF SoundInv, TypeOK
      <4> QED BY <4>1 DEF SoundInv, KeptSound
    <3> QED BY <3>1, <3>2
  <2>5. merged \in Replica
    BY <1>2 DEF Sound
  <2> QED BY <2>2, <2>4, <2>5 DEF KeptSound, SoundInv, TypeOK
<1>4. CASE Changes(replica[h], r)
  <2>1. Keep(h, IF h \in Members(merged) THEN merged ELSE Empty)
    BY <1>4 DEF Absorb
  <2> HIDE DEF merged
  <2>2. Sound(IF h \in Members(merged) THEN merged ELSE Empty)
    BY <1>2, EmptyIsSound
  <2> QED BY <2>1, <2>2, KeepIsSound
<1> QED BY <1>3, <1>4

(* The poll task merges the answer it got. *)
LEMMA MergeReplyStep ==
  ASSUME SoundInv, NEW h \in Heads, MergeReply(h)
  PROVE  SoundInv'
<1>1. Sound(reply[h])
  BY DEF SoundInv, SentSound, MergeReply, Consume
<1>2. /\ replica' \in [Heads -> Replica] /\ clock' \in [Heads -> Nat] /\ KeptSound'
  <2>1. CASE InGroup(h)
    BY <1>1, <2>1, AbsorbIsSound DEF MergeReply
  <2>2. CASE ~InGroup(h)
    BY <2>2 DEF MergeReply, SoundInv, TypeOK, KeptSound
  <2> QED BY <2>1, <2>2
<1>3. /\ reply' = [reply EXCEPT ![h] = None]
      /\ UNCHANGED <<dev, noting, boot, list, offer, stale, claims, spent>>
  BY DEF MergeReply, Consume
<1> QED BY <1>2, <1>3 DEF SoundInv, TypeOK, SentSound

(* A reboot reads what NVS has, the clock of the last store included. *)
LEMMA RebootStep ==
  ASSUME SoundInv, NEW h \in Heads, Reboot(h)
  PROVE  SoundInv'
<1>1. spent' \in [writes : Nat, claims : Nat, reboots : Nat, lost : Nat]
  BY SpendKeepsType DEF Reboot, Crash, SoundInv
<1>2. /\ replica' = [replica EXCEPT ![h] = WithClock(replica[h], clock[h])]
      /\ noting' = [noting EXCEPT ![h] = FALSE]
      /\ boot' = [boot EXCEPT ![h] = Booting("ask", Blank)]
      /\ list' = [list EXCEPT ![h] = {}]
      /\ reply' = [reply EXCEPT ![h] = None]
      /\ offer' = [offer EXCEPT ![h] = None]
      /\ UNCHANGED <<clock, dev, stale, claims>>
  BY DEF Reboot, Crash, WithClock
<1>3. WithClock(WithClock(replica[h], clock[h]), clock[h]) = WithClock(replica[h], clock[h])
  BY DEF WithClock, SoundInv, TypeOK, Replica
<1>4. ASSUME NEW k \in Heads
      PROVE  Sound(replica'[k]) /\ Sound(WithClock(replica'[k], clock'[k]))
  <2>1. CASE k = h
    <3>1. replica'[k] = WithClock(replica[h], clock[h]) /\ clock'[k] = clock[h]
      BY <1>2, <2>1 DEF SoundInv, TypeOK
    <3> QED BY <1>3, <3>1 DEF SoundInv, KeptSound
  <2>2. CASE k # h
    <3>1. replica'[k] = replica[k] /\ clock'[k] = clock[k]
      BY <1>2, <2>2 DEF SoundInv, TypeOK
    <3> QED BY <3>1 DEF SoundInv, KeptSound
  <2> QED BY <2>1, <2>2
<1>5. WithClock(replica[h], clock[h]) \in Replica
  BY DEF SoundInv, KeptSound, Sound
<1>6. TypeOK'
  <2>1. boot' \in [Heads -> Boot]
    BY <1>2, GroupAssumption, BootingType DEF SoundInv
  <2> QED BY <1>1, <1>2, <1>5, <2>1 DEF SoundInv, TypeOK
<1>7. SentSound'
  BY <1>2 DEF SoundInv, TypeOK, SentSound
<1> QED BY <1>4, <1>6, <1>7 DEF SoundInv, KeptSound

(* Every step keeps every replica sound. *)
LEMMA NextKeepsSound == SoundInv /\ [Next]_vars => SoundInv'
<1> SUFFICES ASSUME SoundInv, [Next]_vars PROVE SoundInv'
  OBVIOUS
<1>1. CASE UNCHANGED vars
  BY <1>1 DEF vars, SoundInv, TypeOK, KeptSound, SentSound
<1>2. CASE Next
  <2>1. PICK h \in Heads :
          \/ h \in Writers /\ Admin(h)
          \/ Gossip(h)
          \/ NoteSelfName(h) \/ Join(h) \/ OfferLost(h) \/ Reboot(h)
    BY <1>2 DEF Next
  <2>2. CASE Admin(h)
    BY <2>2, LabelGroupStep, RenameStep, EvictStep, LeaveStep, ClaimStep DEF Admin
  <2>3. CASE Gossip(h)
    BY <2>3, BootsStep, PollStep, PollFailsStep, MergeReplyStep DEF Gossip
  <2>4. CASE NoteSelfName(h) \/ Join(h) \/ OfferLost(h) \/ Reboot(h)
    BY <2>4, NoteSelfNameStep, JoinStep, OfferLostStep, RebootStep
  <2> QED BY <2>1, <2>2, <2>3, <2>4
<1> QED BY <1>1, <1>2

(* Sound in memory, in NVS and on the way, for ever. *)
LEMMA AlwaysSound == Spec => []SoundInv
BY InitIsSound, NextKeepsSound, PTL DEF Spec

(* A replica that is kept, answered or offered is a sound one. *)
LEMMA ReplicasAreSound ==
  ASSUME SoundInv, NEW r \in Replicas
  PROVE  Sound(r)
BY DEF Replicas, SoundInv, KeptSound, SentSound

-----------------------------------------------------------------------------
(* Who wrote what                                                          *)

(* The registers of a replica: slot 0 has the label, slot u the name of u. *)
Slot == Heads \cup {0}
Reg(r, s) == IF s = 0 THEN r.label ELSE r.name[s]
Marks(s) == {Reg(r, s) : r \in Replicas}

(* A version of an origin is one write, and a head is named by itself only.*)
MarksInv ==
  \A s \in Slot : \A a \in Marks(s) :
    /\ a.origin = 0 => a = Unwritten
    /\ s # 0 => a.origin \in {0, s}
    /\ \A b \in Marks(s) : a.version = b.version /\ a.origin = b.origin => a = b

(* No write of h is past c. *)
Upto(h, c) == \A s \in Slot : \A a \in Marks(s) : a.origin = h => a.version <= c

(* Nobody knows a later name of h than a. *)
Latest(h, a) == \A b \in Marks(h) : ~Wins(b, a)

(* A head that was never enrolled has written nothing; one that is being   *)
(* enrolled will go on after the clock it is handed, and one in the group  *)
(* after the clock it would have after a crash.                            *)
Life(h) ==
  /\ clock[h] <= replica[h].lamport
  /\ claims[h] = 0 => /\ offer[h] = None /\ ~InGroup(h)
                      /\ \A s \in Slot : \A a \in Marks(s) : a.origin # h
  /\ offer[h] # None => /\ ~InGroup(h) /\ Upto(h, offer[h].lamport)
                        /\ Latest(h, offer[h].name[h])
  /\ InGroup(h) => Upto(h, clock[h]) /\ Latest(h, replica[h].name[h])

(* Unless it is about to announce its name, a head in the group has, but   *)
(* for a boot's note of the name before a rename.                          *)
Quiet(h) == ~noting[h] /\ Booted(h) /\ ~stale[h]
Named(h) ==
  InGroup(h) /\ Quiet(h) =>
    \/ replica[h].name[h].value = dev[h]
    \/ h = Founder /\ replica[h].name[h] = Unwritten

Written == MarksInv /\ \A h \in Heads : Life(h) /\ Named(h)
HistoryInv == SoundInv /\ (NoRejoin => Written)

(* A register says who wrote it, and when. *)
LEMMA RegisterParts ==
  ASSUME NEW a \in Register
  PROVE  a.version \in Nat /\ a.origin \in Heads \cup {0} /\ a.origin \in Nat
<1>1. a.version \in Nat /\ a.origin \in Heads \cup {0}
  BY DEF Register
<1>2. \A o \in Heads \cup {0} : o \in Nat
  BY GroupAssumption
<1> QED BY <1>1, <1>2

(* The registers are of their type. *)
LEMMA MarksType ==
  ASSUME SoundInv, NEW s \in Slot, NEW a \in Marks(s)
  PROVE  /\ a \in Register /\ a.version \in Nat /\ a.origin \in Heads \cup {0}
         /\ a.origin \in Nat
<1>1. PICK r \in Replicas : a = Reg(r, s)
  BY DEF Marks
<1>2. r \in Replica
  BY ReplicasAreSound DEF Sound
<1>3. a \in Register
  BY <1>1, <1>2 DEF Reg, Slot, Replica
<1> QED BY <1>3, RegisterParts

(* A replica of which every register is known, or unwritten, or the new    *)
(* one in slot s0.                                                         *)
Carried(r) == \A s \in Slot : Reg(r, s) \in Marks(s) \cup {Unwritten}
Brings(r, s0, new) ==
  \A s \in Slot : Reg(r, s) \in Marks(s) \cup {Unwritten} \/ (s = s0 /\ Reg(r, s) = new)

(* Every replica there is carries known registers. *)
LEMMA KnownCarried ==
  ASSUME NEW h \in Heads
  PROVE  /\ Carried(replica[h])
         /\ reply[h] # None => Carried(reply[h])
         /\ offer[h] # None => Carried(offer[h])
<1>1. \A r \in Replicas : Carried(r)
  BY DEF Carried, Marks
<1> QED BY <1>1 DEF Replicas

(* The clock is no register. *)
LEMMA ClockIsNoRegister ==
  ASSUME NEW r \in Replica, NEW c, Carried(r)
  PROVE  Carried(WithClock(r, c))
BY DEF Carried, Reg, WithClock, Replica

(* A step after which every replica is carried. *)
AllCarried ==
  \A h \in Heads : /\ Carried(replica'[h])
                   /\ reply'[h] # None => Carried(reply'[h])
                   /\ offer'[h] # None => Carried(offer'[h])
AllBring(s0, new) ==
  \A h \in Heads : /\ Brings(replica'[h], s0, new)
                   /\ reply'[h] # None => Brings(reply'[h], s0, new)
                   /\ offer'[h] # None => Brings(offer'[h], s0, new)

(* After such a step each register was there or is unwritten.             *)
LEMMA CarriedMarks ==
  ASSUME AllCarried, NEW s \in Slot, NEW a \in Marks(s)'
  PROVE  a \in Marks(s) \/ a = Unwritten
<1>1. PICK r \in Replicas' : a = Reg(r, s)
  BY DEF Marks
<1>2. Carried(r)
  BY DEF Replicas, AllCarried
<1> QED BY <1>1, <1>2 DEF Carried

(* The same with the new write.                                           *)
LEMMA BroughtMarks ==
  ASSUME NEW s0, NEW new, AllBring(s0, new), NEW s \in Slot, NEW a \in Marks(s)'
  PROVE  a \in Marks(s) \/ a = Unwritten \/ (s = s0 /\ a = new)
<1>1. PICK r \in Replicas' : a = Reg(r, s)
  BY DEF Marks
<1>2. Brings(r, s0, new)
  BY DEF Replicas, AllBring
<1> QED BY <1>1, <1>2 DEF Brings

(* What is carried keeps its author. *)
LEMMA MarksStay ==
  ASSUME MarksInv, AllCarried
  PROVE  MarksInv'
<1> SUFFICES ASSUME NEW s \in Slot, NEW a \in Marks(s)'
             PROVE  /\ a.origin = 0 => a = Unwritten
                    /\ s # 0 => a.origin \in {0, s}
                    /\ \A b \in Marks(s)' :
                         a.version = b.version /\ a.origin = b.origin => a = b
  BY DEF MarksInv
<1>1. \A b \in Marks(s)' : b \in Marks(s) \/ b = Unwritten
  BY CarriedMarks
<1>2. Unwritten.origin = 0
  BY DEF Unwritten
<1> QED BY <1>1, <1>2 DEF MarksInv

(* A new write is later than all of its author. *)
LEMMA MarksGrow ==
  ASSUME SoundInv, MarksInv, NEW s0 \in Slot, NEW new \in Register, AllBring(s0, new),
         new.origin \in Heads, s0 # 0 => new.origin = s0,
         \A a \in Marks(s0) : a.origin = new.origin => a.version < new.version
  PROVE  MarksInv'
<1> SUFFICES ASSUME NEW s \in Slot, NEW a \in Marks(s)'
             PROVE  /\ a.origin = 0 => a = Unwritten
                    /\ s # 0 => a.origin \in {0, s}
                    /\ \A b \in Marks(s)' :
                         a.version = b.version /\ a.origin = b.origin => a = b
  BY DEF MarksInv
<1>1. \A b \in Marks(s)' : b \in Marks(s) \/ b = Unwritten \/ (s = s0 /\ b = new)
  BY BroughtMarks
<1>2. Unwritten.origin = 0 /\ new.origin # 0 /\ new.version \in Nat
  BY GroupAssumption DEF Unwritten, Register
<1>3. \A b \in Marks(s) : b.version \in Nat
  BY MarksType
<1> QED BY <1>1, <1>2, <1>3 DEF MarksInv

(* The same of the state after a step. *)
UptoAfter(h, c) == \A s \in Slot : \A a \in Marks(s)' : a.origin = h => a.version <= c
LatestAfter(h, a) == \A b \in Marks(h)' : ~Wins(b, a)

(* Nobody writes in the name of h, which stays in the group as it was or   *)
(* comes into it with what it was offered.                                 *)
GoesOn(h) ==
  /\ claims'[h] = claims[h] /\ offer'[h] \in {offer[h], None}
  /\ clock'[h] <= replica'[h].lamport
  /\ InGroup(h)' =>
       \/ /\ InGroup(h) /\ clock'[h] >= clock[h]
          /\ replica'[h].name[h] = replica[h].name[h]
       \/ /\ offer[h] # None /\ offer'[h] = None /\ clock'[h] >= offer[h].lamport
          /\ replica'[h].name[h] = offer[h].name[h]

(* The life of a head goes on when nobody writes in its name.              *)
LEMMA LifeGoesOn ==
  ASSUME SoundInv, SoundInv', MarksInv, NEW h \in Heads, Life(h),
         \A s \in Slot : \A a \in Marks(s)' :
           a \in Marks(s) \/ a = Unwritten \/ (a.origin # h /\ s # h),
         GoesOn(h)
  PROVE  Life(h)'
<1>1. Unwritten.origin = 0 /\ Unwritten.version = 0 /\ h # 0 /\ h \in Slot
  BY GroupAssumption DEF Unwritten, Slot
<1>2. \A s \in Slot : \A a \in Marks(s) : a.version \in Nat /\ a.origin \in Nat
  BY MarksType
<1>3. ASSUME NEW c \in Nat, NEW d \in Nat, Upto(h, c), c <= d
      PROVE  UptoAfter(h, d)
  <2> SUFFICES ASSUME NEW s \in Slot, NEW a \in Marks(s)', a.origin = h
               PROVE  a.version <= d
    BY DEF UptoAfter
  <2>1. a \in Marks(s)
    BY <1>1
  <2> QED BY <1>2, <1>3, <2>1 DEF Upto
<1>4. ASSUME NEW a \in Register, Latest(h, a)
      PROVE  LatestAfter(h, a)
  <2> SUFFICES ASSUME NEW b \in Marks(h)' PROVE ~Wins(b, a)
    BY DEF LatestAfter
  <2>1. b \in Marks(h) \/ b = Unwritten
    BY <1>1
  <2>2. a.version \in Nat /\ a.origin \in Nat
    BY RegisterParts
  <2> QED BY <1>1, <1>4, <2>1, <2>2 DEF Latest, Wins
<1>5. /\ replica[h] \in Replica /\ clock[h] \in Nat /\ clock'[h] \in Nat
      /\ offer[h] # None => offer[h] \in Replica
  BY DEF SoundInv, TypeOK
<1>6. /\ replica[h].name[h] \in Register
      /\ offer[h] # None => offer[h].lamport \in Nat /\ offer[h].name[h] \in Register
  BY <1>5 DEF Replica
<1>7. ASSUME claims'[h] = 0
      PROVE  /\ offer'[h] = None /\ ~InGroup(h)'
             /\ \A s \in Slot : \A a \in Marks(s)' : a.origin # h
  BY <1>1, <1>7 DEF Life, GoesOn
<1>8. ASSUME offer'[h] # None
      PROVE  /\ ~InGroup(h)' /\ UptoAfter(h, offer'[h].lamport)
             /\ LatestAfter(h, offer'[h].name[h])
  <2>1. offer'[h] = offer[h] /\ offer[h] # None
    BY <1>8 DEF GoesOn
  <2>2. ~InGroup(h)' /\ Upto(h, offer[h].lamport) /\ Latest(h, offer[h].name[h])
    BY <2>1 DEF Life, GoesOn
  <2>3. offer[h].lamport <= offer[h].lamport
    BY <1>6, <2>1
  <2> QED BY <1>3, <1>4, <1>6, <2>1, <2>2, <2>3
<1>9. ASSUME InGroup(h)'
      PROVE  UptoAfter(h, clock'[h]) /\ LatestAfter(h, replica'[h].name[h])
  <2>1. CASE /\ InGroup(h) /\ clock'[h] >= clock[h]
             /\ replica'[h].name[h] = replica[h].name[h]
    <3>1. Upto(h, clock[h]) /\ Latest(h, replica[h].name[h])
      BY <2>1 DEF Life
    <3> QED BY <1>3, <1>4, <1>5, <1>6, <2>1, <3>1
  <2>2. CASE /\ offer[h] # None /\ clock'[h] >= offer[h].lamport
             /\ replica'[h].name[h] = offer[h].name[h]
    <3>1. Upto(h, offer[h].lamport) /\ Latest(h, offer[h].name[h])
      BY <2>2 DEF Life
    <3> QED BY <1>3, <1>4, <1>5, <1>6, <2>2, <3>1
  <2> QED BY <1>9, <2>1, <2>2 DEF GoesOn
<1> QED BY <1>7, <1>8, <1>9 DEF GoesOn, Life, Upto, UptoAfter, Latest, LatestAfter

(* A head that has announced its name has announced it since, too.         *)
StaysNamed(h) ==
  InGroup(h)' /\ Quiet(h)' =>
    \/ replica'[h].name[h].value = dev'[h]
    \/ /\ InGroup(h) /\ Quiet(h) /\ dev'[h] = dev[h]
       /\ replica'[h].name[h] = replica[h].name[h]

Untouched(h) ==
  UNCHANGED <<replica[h], clock[h], dev[h], noting[h], boot[h], stale[h], reply[h],
              offer[h], claims[h]>>

(* A head that the step does not touch.                                   *)
LEMMA UntouchedGoesOn ==
  ASSUME SoundInv, NEW h \in Heads, Life(h), Untouched(h)
  PROVE  GoesOn(h) /\ StaysNamed(h)
<1>1. clock[h] \in Nat /\ clock[h] <= replica[h].lamport
  BY DEF SoundInv, TypeOK, Life
<1>2. InGroup(h)' = InGroup(h)
  BY DEF InGroup, Untouched
<1>3. Quiet(h)' = Quiet(h)
  BY DEF Quiet, Booted, Untouched
<1> QED BY <1>1, <1>2, <1>3 DEF Untouched, GoesOn, StaysNamed

(* What StaysNamed is for.                                                *)
LEMMA StaysNamedIsNamed ==
  ASSUME NEW h \in Heads, Named(h), StaysNamed(h)
  PROVE  Named(h)'
BY DEF Named, StaysNamed

(* A step of one head that writes nothing new. *)
LEMMA OneHeadStep ==
  ASSUME SoundInv, SoundInv', Written, NEW h \in Heads,
         \A g \in Heads \ {h} : Untouched(g),
         Carried(replica'[h]), reply'[h] # None => Carried(reply'[h]),
         GoesOn(h), StaysNamed(h)
  PROVE  Written'
<1>1. \A g \in Heads : GoesOn(g) /\ StaysNamed(g)
  BY UntouchedGoesOn DEF Written
<1>2. AllCarried
  <2> SUFFICES ASSUME NEW g \in Heads
               PROVE  /\ Carried(replica'[g])
                      /\ reply'[g] # None => Carried(reply'[g])
                      /\ offer'[g] # None => Carried(offer'[g])
    BY DEF AllCarried
  <2>1. CASE g = h
    BY <2>1, KnownCarried DEF GoesOn
  <2>2. CASE g # h
    BY <2>2, KnownCarried DEF Untouched
  <2> QED BY <2>1, <2>2
<1>3. MarksInv'
  BY <1>2, MarksStay DEF Written
<1>4. \A g \in Heads : Life(g)'
  BY <1>1, <1>2, CarriedMarks, LifeGoesOn DEF Written
<1>5. \A g \in Heads : Named(g)'
  BY <1>1, StaysNamedIsNamed DEF Written
<1> QED BY <1>3, <1>4, <1>5 DEF Written

(* A head writes its own name or the label: one past all it has written.   *)
LEMMA OneHeadWrites ==
  ASSUME SoundInv, SoundInv', Written, NEW h \in Heads,
         \A g \in Heads \ {h} : Untouched(g),
         NEW s0 \in {0, h}, NEW new \in Register, Brings(replica'[h], s0, new),
         UNCHANGED <<reply[h], offer[h], claims[h]>>, InGroup(h),
         new.origin = h, new.version = replica[h].lamport + 1,
         clock'[h] = new.version, replica'[h].lamport = new.version,
         replica'[h].name[h] = IF s0 = h THEN new ELSE replica[h].name[h],
         StaysNamed(h)
  PROVE  Written'
<1>1. /\ h # 0 /\ h \in Slot /\ s0 \in Slot
      /\ Unwritten.origin = 0 /\ Unwritten.version = 0
  BY GroupAssumption DEF Slot, Unwritten
<1>2. /\ claims[h] # 0 /\ offer[h] = None /\ Upto(h, clock[h])
      /\ Latest(h, replica[h].name[h])
      /\ clock[h] \in Nat /\ replica[h].lamport \in Nat /\ clock[h] <= replica[h].lamport
  <2>1. replica[h] \in Replica /\ clock[h] \in Nat /\ Life(h)
    BY DEF SoundInv, TypeOK, Written
  <2> QED BY <2>1 DEF Life, Replica
<1>3. \A s \in Slot : \A a \in Marks(s) : a.version \in Nat /\ a.origin \in Nat
  BY MarksType
<1>4. new.version \in Nat /\ \A s \in Slot : \A a \in Marks(s) : a.origin = h => a.version < new.version
  BY <1>2, <1>3 DEF Upto
<1>5. AllBring(s0, new)
  <2> SUFFICES ASSUME NEW g \in Heads
               PROVE  /\ Brings(replica'[g], s0, new)
                      /\ reply'[g] # None => Brings(reply'[g], s0, new)
                      /\ offer'[g] # None => Brings(offer'[g], s0, new)
    BY DEF AllBring
  <2>1. \A r : Carried(r) => Brings(r, s0, new)
    BY DEF Carried, Brings
  <2>2. CASE g = h
    BY <2>1, <2>2, KnownCarried
  <2>3. CASE g # h
    BY <2>1, <2>3, KnownCarried DEF Untouched
  <2> QED BY <2>2, <2>3
<1>6. MarksInv /\ MarksInv'
  BY <1>1, <1>4, <1>5, MarksGrow DEF Written
<1>7. \A s \in Slot : \A a \in Marks(s)' : a \in Marks(s) \/ a = Unwritten \/ (s = s0 /\ a = new)
  BY <1>5, BroughtMarks
<1>8. ASSUME NEW g \in Heads, g # h
      PROVE  Life(g)' /\ Named(g)'
  <2>1. GoesOn(g) /\ StaysNamed(g) /\ Life(g) /\ Named(g)
    BY <1>8, UntouchedGoesOn DEF Written
  <2>2. \A s \in Slot : \A a \in Marks(s)' :
          a \in Marks(s) \/ a = Unwritten \/ (a.origin # g /\ s # g)
    BY <1>7, <1>8, GroupAssumption
  <2> QED BY <1>6, <2>1, <2>2, LifeGoesOn, StaysNamedIsNamed
<1>9. UptoAfter(h, clock'[h])
  BY <1>1, <1>2, <1>3, <1>4, <1>7 DEF UptoAfter
<1>10. LatestAfter(h, replica'[h].name[h])
  <2> SUFFICES ASSUME NEW b \in Marks(h)' PROVE ~Wins(b, replica'[h].name[h])
    BY DEF LatestAfter
  <2>1. CASE s0 = h
    <3>1. b \in Marks(h) \/ b = Unwritten \/ b = new
      BY <1>1, <1>7
    <3>2. b.version < new.version \/ b = new
      <4>1. CASE b \in Marks(h) /\ b.origin = h
        BY <1>1, <1>4, <4>1
      <4>2. CASE b \in Marks(h) /\ b.origin # h
        <5>1. b = Unwritten
          BY <1>1, <1>6, <4>2 DEF MarksInv
        <5> QED BY <1>1, <1>2, <5>1
      <4> QED BY <1>1, <1>2, <3>1, <4>1, <4>2
    <3>3. b.version \in Nat
      BY <1>1, <1>3, <1>4, <3>1
    <3> QED BY <1>1, <1>4, <2>1, <3>2, <3>3 DEF Wins
  <2>2. CASE s0 = 0
    <3>1. b \in Marks(h) \/ b = Unwritten
      BY <1>1, <1>7, <2>2
    <3>2. replica'[h].name[h] = replica[h].name[h] /\ replica[h].name[h] \in Register
      BY <1>1, <2>2 DEF SoundInv, TypeOK, Replica
    <3> QED BY <1>1, <1>2, <3>1, <3>2, RegisterParts DEF Latest, Wins
  <2> QED BY <2>1, <2>2
<1>11. Life(h)'
  <2>1. clock'[h] <= replica'[h].lamport
    BY <1>4
  <2> QED BY <1>2, <1>9, <1>10, <2>1 DEF Life, Upto, UptoAfter, Latest, LatestAfter
<1>12. Named(h)'
  BY StaysNamedIsNamed DEF Written
<1> QED BY <1>6, <1>8, <1>11, <1>12 DEF Written

-----------------------------------------------------------------------------
(* The registers of what the pure functions return                         *)

(* A standalone head has no register that was written.                    *)
LEMMA EmptyIsCarried == Carried(Empty)
BY DEF Carried, Reg, Empty, Slot

(* An enrolment writes no register and does not set back the clock.       *)
LEMMA AddMemberRegs ==
  ASSUME NEW r, Sound(r), NEW u \in Heads
  PROVE  /\ AddMember(r, u).lamport >= r.lamport /\ AddMember(r, u).lamport \in Nat
         /\ AddMember(r, u).label = r.label /\ AddMember(r, u).name = r.name
         /\ Carried(r) => Carried(AddMember(r, u))
<1> DEFINE out == AddMember(r, u)
<1>1. Cover(r) = r.lamport /\ r.lamport \in Nat /\ r \in Replica
  BY CoverIsClock DEF Sound, Replica
<1>2. /\ out.lamport \in {r.lamport, r.lamport + 1}
      /\ out.label = r.label /\ out.name = r.name
  BY <1>1 DEF AddMember, Replica
<1> HIDE DEF out
<1>3. out.lamport >= r.lamport /\ out.lamport \in Nat
  BY <1>1, <1>2
<1>4. Carried(r) => Carried(out)
  BY <1>2 DEF Carried, Reg
<1> QED BY <1>2, <1>3, <1>4 DEF out

(* A removal clears the name of the removed head alone.                   *)
LEMMA RemoveMemberRegs ==
  ASSUME NEW r, Sound(r), NEW u \in Heads, Carried(r)
  PROVE  /\ RemoveMember(r, u).lamport >= r.lamport
         /\ Carried(RemoveMember(r, u))
         /\ \A h \in Heads \ {u} : RemoveMember(r, u).name[h] = r.name[h]
<1> DEFINE rest == [r EXCEPT !.add[u] = 0, !.name[u] = Unwritten]
           out == [rest EXCEPT !.tomb[u] = Cover(rest) + 1,
                               !.lamport = Cover(rest) + 1]
<1>1. r \in Replica /\ Parts(r) /\ r.lamport \in Nat
  BY CoveredParts DEF Sound, Replica
<1>2. /\ rest.lamport = r.lamport
      /\ rest.add = [r.add EXCEPT ![u] = 0]
      /\ rest.name = [r.name EXCEPT ![u] = Unwritten]
      /\ rest.tomb = r.tomb /\ rest.label = r.label
      /\ rest \in Replica
  BY <1>1, EmptyIsSound DEF Replica
<1>3. Cover(rest) = r.lamport
  <2> HIDE DEF rest
  <2>1. Parts(rest)
    BY <1>1, <1>2 DEF Parts, Replica, Register, Unwritten
  <2> QED BY <1>1, <1>2, <2>1, CoveredParts, CoverIsClock DEF Replica
<1>4. out.lamport = r.lamport + 1 /\ out.name = rest.name /\ out.label = r.label
  <2>1. rest \in [lamport : Nat, label : Register, add : [Heads -> Nat], tomb : [Heads -> Nat],
                  name : [Heads -> Register]]
    BY <1>2 DEF Replica
  <2> HIDE DEF rest
  <2> QED BY <1>2, <1>3, <2>1
<1>5. \A h \in Heads : out.name[h] = IF h = u THEN Unwritten ELSE r.name[h]
  <2>1. r.name \in [Heads -> Register]
    BY <1>1 DEF Replica
  <2> HIDE DEF out, rest
  <2> QED BY <1>2, <1>4, <2>1
<1>6. Carried(out)
  <2> HIDE DEF out
  <2> QED BY <1>4, <1>5 DEF Carried, Reg, Slot
<1>7. RemoveMember(r, u) \in {out, r}
  BY DEF RemoveMember
<1> HIDE DEF out, rest
<1> QED BY <1>1, <1>4, <1>5, <1>6, <1>7

(* A merge takes each register from one of the two; the latest name of a   *)
(* member stays.                                                           *)
LEMMA MergeRegs ==
  ASSUME NEW l, NEW r, Sound(l), Sound(r), Carried(l), Carried(r)
  PROVE  /\ Merge(l, r).lamport >= l.lamport
         /\ Carried(Merge(l, r))
         /\ \A h \in Members(Merge(l, r)) :
              Latest(h, l.name[h]) /\ r.name[h] \in Marks(h) \cup {Unwritten}
              => Merge(l, r).name[h] = l.name[h]
<1> DEFINE tomb == [u \in Heads |-> Larger(l.tomb[u], r.tomb[u])]
           taken == {u \in Heads : r.add[u] > tomb[u]}
           add == [u \in Heads |-> IF u \in taken THEN Larger(l.add[u], r.add[u])
                                   ELSE l.add[u]]
           live == {u \in Heads : add[u] > tomb[u]}
           name == [u \in Heads |-> IF u \notin live THEN Unwritten
                                    ELSE IF u \in taken THEN Later(l.name[u], r.name[u])
                                    ELSE l.name[u]]
           out == Union(l, r)
<1>1. Merge(l, r) = out
  BY MergeIsUnion
<1>2. /\ out.lamport = Larger(l.lamport, r.lamport) /\ out.label = Later(l.label, r.label)
      /\ out.add = [u \in Heads |-> IF u \in live THEN add[u] ELSE 0]
      /\ out.tomb = tomb /\ out.name = name
  BY DEF Union
<1>3. out.lamport >= l.lamport
  <2>1. l.lamport \in Nat /\ r.lamport \in Nat
    BY DEF Sound, Replica
  <2>2. out.lamport = Larger(l.lamport, r.lamport)
    BY <1>2
  <2> HIDE DEF out
  <2> QED BY <2>1, <2>2 DEF Larger
<1>4. out.label \in {l.label, r.label}
  BY <1>2, LaterIsOne
<1>5. \A u \in Heads : out.name[u] \in {Unwritten, l.name[u], r.name[u]}
  <2> HIDE DEF out, live, taken
  <2> QED BY <1>2, LaterIsOne
<1>6. Carried(out)
  <2> HIDE DEF out
  <2> QED BY <1>4, <1>5 DEF Carried, Reg, Slot
<1>7. ASSUME NEW h \in Members(out), Latest(h, l.name[h]),
             r.name[h] \in Marks(h) \cup {Unwritten}
      PROVE  out.name[h] = l.name[h]
  <2>1. h \in Heads /\ h \in live
    <3> HIDE DEF out, live
    <3> QED BY <1>2 DEF Members
  <2>2. out.name[h] \in {Later(l.name[h], r.name[h]), l.name[h]}
    <3> HIDE DEF out, live, taken
    <3> QED BY <1>2, <2>1
  <2>3. ~Wins(r.name[h], l.name[h])
    <3>1. l.name[h] \in Register
      BY <2>1 DEF Sound, Replica
    <3>2. ~Wins(Unwritten, l.name[h])
      BY <3>1, RegisterParts DEF Wins, Unwritten
    <3> QED BY <1>7, <3>2 DEF Latest
  <2> HIDE DEF out
  <2> QED BY <2>2, <2>3 DEF Later
<1> HIDE DEF out
<1> QED BY <1>1, <1>3, <1>6, <1>7

-----------------------------------------------------------------------------
(* The steps                                                               *)

(* A head that keeps its replica, and may lose an offer.                  *)
LEMMA StandsStill ==
  ASSUME SoundInv, NEW h \in Heads, Life(h),
         UNCHANGED <<replica[h], clock[h], claims[h]>>, offer'[h] \in {offer[h], None}
  PROVE  GoesOn(h)
<1>1. clock[h] \in Nat /\ clock[h] <= replica[h].lamport
  BY DEF SoundInv, TypeOK, Life
<1>2. InGroup(h)' = InGroup(h)
  BY DEF InGroup
<1> QED BY <1>1, <1>2 DEF GoesOn

(* A head that stores a replica without a write of its own. *)
LEMMA KeepGoesOn ==
  ASSUME SoundInv, NEW h \in Heads, NEW r, Sound(r), Keep(h, r), Life(h),
         claims'[h] = claims[h], offer'[h] \in {offer[h], None},
         h \in Members(r) =>
           InGroup(h) /\ r.lamport >= replica[h].lamport /\ r.name[h] = replica[h].name[h]
  PROVE  GoesOn(h)
<1>1. replica'[h] = r /\ clock'[h] = r.lamport /\ r.lamport \in Nat
  BY DEF Keep, SoundInv, TypeOK, Sound, Replica
<1>2. InGroup(h)' <=> h \in Members(r)
  BY <1>1 DEF InGroup
<1>3. clock[h] \in Nat /\ replica[h].lamport \in Nat /\ clock[h] <= replica[h].lamport
  BY DEF SoundInv, TypeOK, Replica, Life
<1> QED BY <1>1, <1>2, <1>3 DEF GoesOn

(* What one head stores is its own.                                       *)
LEMMA KeepOthers ==
  ASSUME SoundInv, NEW h \in Heads, NEW r, Keep(h, r)
  PROVE  /\ replica'[h] = r
         /\ \A g \in Heads \ {h} : UNCHANGED <<replica[g], clock[g]>>
BY DEF Keep, SoundInv, TypeOK

(* POST /api/device, before the name is announced.                        *)
LEMMA RenameHistory ==
  ASSUME SoundInv, SoundInv', Written, NEW h \in Heads, NEW v \in Text, Rename(h, v)
  PROVE  Written'
<1>1. /\ dev' = [dev EXCEPT ![h] = v]
      /\ noting' = [noting EXCEPT ![h] = TRUE]
      /\ UNCHANGED <<replica, clock, boot, list, reply, offer, stale, claims>>
  BY DEF Rename
<1>2. \A g \in Heads \ {h} : Untouched(g)
  BY <1>1 DEF Untouched, SoundInv, TypeOK
<1>3. GoesOn(h)
  BY <1>1, StandsStill DEF Written
<1>4. StaysNamed(h)
  BY <1>1 DEF StaysNamed, Quiet, SoundInv, TypeOK
<1>5. Carried(replica'[h]) /\ (reply'[h] # None => Carried(reply'[h]))
  BY <1>1, KnownCarried
<1> QED BY <1>2, <1>3, <1>4, <1>5, OneHeadStep

(* POST /api/group/member/remove.                                         *)
LEMMA EvictHistory ==
  ASSUME SoundInv, SoundInv', Written, NEW h \in Heads, NEW u \in Heads, Evict(h, u)
  PROVE  Written'
<1> DEFINE r == RemoveMember(replica[h], u)
<1>1. /\ Keep(h, r) /\ u # h /\ InGroup(h)
      /\ UNCHANGED <<dev, noting, boot, list, reply, offer, stale, claims>>
  BY DEF Evict, Peers
<1>2. Sound(r) /\ Sound(replica[h])
  BY RemoveMemberIsSound DEF SoundInv, KeptSound
<1>3. /\ r.lamport >= replica[h].lamport /\ Carried(r)
      /\ r.name[h] = replica[h].name[h]
  BY <1>1, <1>2, KnownCarried, RemoveMemberRegs
<1> HIDE DEF r
<1>4. /\ replica'[h] = r /\ \A g \in Heads \ {h} : Untouched(g)
  BY <1>1, KeepOthers DEF Untouched
<1>5. GoesOn(h)
  BY <1>1, <1>2, <1>3, KeepGoesOn DEF Written
<1>6. StaysNamed(h)
  BY <1>1, <1>3, <1>4 DEF StaysNamed, Quiet, Booted
<1>7. Carried(replica'[h]) /\ (reply'[h] # None => Carried(reply'[h]))
  BY <1>1, <1>3, <1>4, KnownCarried
<1> QED BY <1>4, <1>5, <1>6, <1>7, OneHeadStep

(* POST /api/group/leave.                                                 *)
LEMMA LeaveHistory ==
  ASSUME SoundInv, SoundInv', Written, NEW h \in Heads, Leave(h)
  PROVE  Written'
<1>1. /\ Keep(h, Empty) /\ UNCHANGED <<dev, noting, boot, list, reply, offer, stale, claims>>
  BY DEF Leave
<1>2. replica'[h] = Empty /\ \A g \in Heads \ {h} : Untouched(g)
  BY <1>1, KeepOthers DEF Untouched
<1>3. h \notin Members(Empty)
  BY DEF Members, Empty
<1>4. GoesOn(h)
  BY <1>1, <1>3, EmptyIsSound, KeepGoesOn DEF Written
<1>5. StaysNamed(h)
  BY <1>2, <1>3 DEF StaysNamed, InGroup
<1>6. Carried(replica'[h]) /\ (reply'[h] # None => Carried(reply'[h]))
  BY <1>1, <1>2, KnownCarried, EmptyIsCarried
<1> QED BY <1>2, <1>4, <1>5, <1>6, OneHeadStep

(* A head whose offer is lost never comes in.                             *)
LEMMA OfferLostHistory ==
  ASSUME SoundInv, SoundInv', Written, NEW h \in Heads, OfferLost(h)
  PROVE  Written'
<1>1. /\ offer' = [offer EXCEPT ![h] = None]
      /\ UNCHANGED <<replica, clock, dev, noting, boot, list, reply, stale, claims>>
  BY DEF OfferLost
<1>2. \A g \in Heads \ {h} : Untouched(g)
  BY <1>1 DEF Untouched, SoundInv, TypeOK
<1>3. GoesOn(h)
  <2>1. offer'[h] = None
    BY <1>1 DEF SoundInv, TypeOK
  <2> QED BY <1>1, <2>1, StandsStill DEF Written
<1>4. StaysNamed(h)
  BY <1>1 DEF StaysNamed, InGroup, Quiet, Booted
<1>5. Carried(replica'[h]) /\ (reply'[h] # None => Carried(reply'[h]))
  BY <1>1, KnownCarried
<1> QED BY <1>2, <1>3, <1>4, <1>5, OneHeadStep

(* A head that comes in goes on after the clock it was handed.            *)
LEMMA JoinHistory ==
  ASSUME SoundInv, SoundInv', Written, NEW h \in Heads, Join(h)
  PROVE  Written'
<1> DEFINE r == AddMember(offer[h], h)
<1>1. /\ offer[h] # None /\ Keep(h, r) /\ offer' = [offer EXCEPT ![h] = None]
      /\ noting' = [noting EXCEPT ![h] = TRUE]
      /\ UNCHANGED <<dev, boot, list, reply, stale, claims>>
  BY DEF Join
<1>2. Sound(offer[h]) /\ offer[h].lamport \in Nat
  BY <1>1 DEF SoundInv, SentSound, Sound, Replica
<1>3. /\ r.lamport >= offer[h].lamport /\ r.lamport \in Nat /\ r.name = offer[h].name
      /\ Carried(r)
  BY <1>1, <1>2, KnownCarried, AddMemberRegs
<1> HIDE DEF r
<1>4. /\ replica'[h] = r /\ clock'[h] = r.lamport
      /\ offer'[h] = None /\ noting'[h]
      /\ \A g \in Heads \ {h} : Untouched(g)
  <2>1. clock'[h] = r.lamport
    BY <1>1 DEF Keep, SoundInv, TypeOK
  <2>2. offer'[h] = None /\ noting'[h]
        /\ \A g \in Heads \ {h} : UNCHANGED <<offer[g], noting[g]>>
    BY <1>1 DEF SoundInv, TypeOK
  <2> QED BY <1>1, <2>1, <2>2, KeepOthers DEF Untouched
<1>5. GoesOn(h)
  BY <1>1, <1>3, <1>4 DEF GoesOn
<1>6. StaysNamed(h)
  BY <1>4 DEF StaysNamed, Quiet
<1>7. Carried(replica'[h]) /\ (reply'[h] # None => Carried(reply'[h]))
  BY <1>1, <1>3, <1>4, KnownCarried
<1> QED BY <1>4, <1>5, <1>6, <1>7, OneHeadStep

(* An answer carries what its sender has.                                 *)
LEMMA PollHistory ==
  ASSUME SoundInv, SoundInv', Written, NEW h \in Heads, NEW k \in Heads,
         Poll(h, k) \/ PollFails(h, k)
  PROVE  Written'
<1>1. /\ reply' \in {reply, [reply EXCEPT ![h] = replica[k]]}
      /\ UNCHANGED <<replica, clock, dev, noting, boot, offer, stale, claims>>
  BY DEF Poll, PollFails
<1>2. \A g \in Heads \ {h} : Untouched(g)
  BY <1>1 DEF Untouched, SoundInv, TypeOK
<1>3. GoesOn(h)
  BY <1>1, StandsStill DEF Written
<1>4. StaysNamed(h)
  BY <1>1 DEF StaysNamed, InGroup, Quiet, Booted
<1>5. Carried(replica'[h]) /\ (reply'[h] # None => Carried(reply'[h]))
  <2>1. reply'[h] \in {reply[h], replica[k]}
    BY <1>1 DEF SoundInv, TypeOK
  <2> QED BY <1>1, <2>1, KnownCarried
<1> QED BY <1>2, <1>3, <1>4, <1>5, OneHeadStep

(* A reboot loses no write, only a clock that a merge had moved.          *)
LEMMA RebootHistory ==
  ASSUME SoundInv, SoundInv', Written, NEW h \in Heads, Reboot(h)
  PROVE  Written'
<1>1. /\ replica' = [replica EXCEPT ![h] = WithClock(replica[h], clock[h])]
      /\ noting' = [noting EXCEPT ![h] = FALSE]
      /\ boot' = [boot EXCEPT ![h] = Booting("ask", Blank)]
      /\ reply' = [reply EXCEPT ![h] = None]
      /\ offer' = [offer EXCEPT ![h] = None]
      /\ UNCHANGED <<clock, dev, stale, claims>>
  BY DEF Reboot, Crash, WithClock
<1>2. \A g \in Heads \ {h} : Untouched(g)
  BY <1>1 DEF Untouched, SoundInv, TypeOK
<1>3. /\ replica'[h] = WithClock(replica[h], clock[h])
      /\ boot'[h] = Booting("ask", Blank)
      /\ reply'[h] = None /\ offer'[h] = None
      /\ replica[h] \in Replica /\ clock[h] \in Nat
  BY <1>1 DEF SoundInv, TypeOK
<1>4. /\ replica'[h].lamport = clock[h] /\ replica'[h].name = replica[h].name
      /\ InGroup(h)' = InGroup(h)
  BY <1>3 DEF WithClock, Replica, InGroup, Members
<1>5. GoesOn(h)
  BY <1>1, <1>3, <1>4 DEF GoesOn
<1>6. StaysNamed(h)
  BY <1>3 DEF StaysNamed, Quiet, Booted, Booting
<1>7. Carried(replica'[h]) /\ (reply'[h] # None => Carried(reply'[h]))
  BY <1>3, KnownCarried, ClockIsNoRegister
<1> QED BY <1>2, <1>5, <1>6, <1>7, OneHeadStep

(* A merge never changes the name a member has of itself.                 *)
LEMMA MergeReplyHistory ==
  ASSUME SoundInv, SoundInv', Written, NEW h \in Heads, MergeReply(h)
  PROVE  Written'
<1> DEFINE l == replica[h]
           r == reply[h]
           merged == Merge(l, r)
<1>1. /\ r # None /\ reply' = [reply EXCEPT ![h] = None]
      /\ UNCHANGED <<dev, noting, boot, offer, stale, claims>>
  BY DEF MergeReply, Consume
<1>2. Sound(l) /\ Sound(r) /\ Carried(l) /\ Carried(r) /\ reply'[h] = None
  BY <1>1, KnownCarried DEF SoundInv, KeptSound, SentSound, TypeOK
<1>3. Life(h) /\ h \in Slot /\ h # 0
  BY GroupAssumption DEF Written, Slot
<1>4. /\ merged.lamport >= l.lamport /\ Carried(merged) /\ Sound(merged)
      /\ h \in Members(merged) /\ InGroup(h) => merged.name[h] = l.name[h]
  <2>1. r.name[h] \in Marks(h) \cup {Unwritten}
    BY <1>2, <1>3 DEF Carried, Reg
  <2>2. InGroup(h) => Latest(h, l.name[h])
    BY <1>3 DEF Life
  <2> QED BY <1>2, <2>1, <2>2, MergeRegs, MergeIsUnion, UnionIsSound
<1>5. CASE ~InGroup(h)
  <2>1. UNCHANGED <<replica, clock>>
    BY <1>5 DEF MergeReply
  <2>2. \A g \in Heads \ {h} : Untouched(g)
    BY <1>1, <2>1 DEF Untouched, SoundInv, TypeOK
  <2>3. GoesOn(h)
    BY <1>1, <1>3, <2>1, StandsStill
  <2>4. StaysNamed(h)
    BY <1>1, <2>1 DEF StaysNamed, InGroup, Quiet, Booted
  <2> QED BY <1>2, <2>1, <2>2, <2>3, <2>4, OneHeadStep
<1>6. CASE InGroup(h) /\ ~Changes(l, r)
  <2>1. replica' = [replica EXCEPT ![h] = merged] /\ UNCHANGED clock
    BY <1>6 DEF MergeReply, Absorb
  <2>2. merged = [l EXCEPT !.lamport = merged.lamport]
    BY <1>6 DEF Changes
  <2> HIDE DEF merged
  <2>3. merged.name = l.name /\ Members(merged) = Members(l)
    <3>1. l \in Replica
      BY <1>2 DEF Sound
    <3> QED BY <2>2, <3>1 DEF Replica, Members
  <2>4. replica'[h] = merged /\ \A g \in Heads \ {h} : Untouched(g)
    BY <1>1, <2>1 DEF Untouched, SoundInv, TypeOK
  <2>5. GoesOn(h)
    <3>1. clock[h] \in Nat /\ l.lamport \in Nat /\ merged.lamport \in Nat
          /\ clock[h] <= l.lamport
      BY <1>2, <1>3, <1>4 DEF SoundInv, TypeOK, Sound, Replica, Life
    <3> QED BY <1>1, <1>4, <1>6, <2>1, <2>3, <2>4, <3>1 DEF GoesOn, InGroup
  <2>6. StaysNamed(h)
    BY <1>1, <1>6, <2>3, <2>4 DEF StaysNamed, Quiet, Booted
  <2> QED BY <1>2, <1>4, <2>4, <2>5, <2>6, OneHeadStep
<1>7. CASE InGroup(h) /\ Changes(l, r)
  <2> DEFINE kept == IF h \in Members(merged) THEN merged ELSE Empty
  <2>1. Keep(h, kept)
    BY <1>7 DEF MergeReply, Absorb
  <2> HIDE DEF merged
  <2>2. /\ Sound(kept) /\ Carried(kept)
        /\ h \in Members(kept) => /\ kept.lamport >= l.lamport
                                  /\ kept.name[h] = l.name[h]
    <3>1. h \notin Members(Empty)
      BY DEF Members, Empty
    <3> QED BY <1>4, <1>7, <3>1, EmptyIsSound, EmptyIsCarried
  <2> HIDE DEF kept
  <2>3. replica'[h] = kept /\ \A g \in Heads \ {h} : Untouched(g)
    <3>1. \A g \in Heads \ {h} : reply'[g] = reply[g]
      BY <1>1 DEF SoundInv, TypeOK
    <3> QED BY <1>1, <2>1, <3>1, KeepOthers DEF Untouched
  <2>4. GoesOn(h)
    BY <1>1, <1>3, <1>7, <2>1, <2>2, KeepGoesOn
  <2>5. StaysNamed(h)
    BY <1>1, <1>7, <2>2, <2>3 DEF StaysNamed, InGroup, Quiet, Booted
  <2> QED BY <1>2, <2>2, <2>3, <2>4, <2>5, OneHeadStep
<1> QED BY <1>5, <1>6, <1>7

(* A name is written one past the clock, or it was there. *)
LEMMA SetNameRegs ==
  ASSUME NEW r, Sound(r), NEW u \in Members(r), NEW v \in Text, NEW w \in Heads
  PROVE  \/ SetName(r, u, v, w) = r /\ r.name[u].value = v
         \/ /\ SetName(r, u, v, w).lamport = r.lamport + 1
            /\ SetName(r, u, v, w).label = r.label
            /\ SetName(r, u, v, w).name = [r.name EXCEPT ![u] = Stamp(r, v, w)]
            /\ SetName(r, u, v, w).add = r.add
<1> DEFINE out == [r EXCEPT !.name[u] = Stamp(r, v, w), !.lamport = Cover(r) + 1]
<1>1. r \in Replica /\ Cover(r) = r.lamport
  BY StampIsNext DEF Sound
<1>2. /\ out.lamport = r.lamport + 1 /\ out.label = r.label
      /\ out.name = [r.name EXCEPT ![u] = Stamp(r, v, w)] /\ out.add = r.add
  BY <1>1 DEF Replica
<1>3. SetName(r, u, v, w) \in {r, out} /\ (SetName(r, u, v, w) # out => r.name[u].value = v)
  BY DEF SetName
<1> HIDE DEF out
<1> QED BY <1>2, <1>3

(* POST /api/group/label.                                                 *)
LEMMA LabelGroupHistory ==
  ASSUME SoundInv, SoundInv', Written, NEW h \in Heads, NEW v \in Text, LabelGroup(h, v)
  PROVE  Written'
<1> DEFINE l == replica[h]
           new == Stamp(l, v, h)
           r == SetLabel(l, v, h)
<1>1. /\ InGroup(h) /\ Keep(h, r)
      /\ UNCHANGED <<dev, noting, boot, list, reply, offer, stale, claims>>
  BY DEF LabelGroup
<1>2. Sound(l) /\ l \in Replica /\ Carried(l)
  BY KnownCarried DEF SoundInv, KeptSound, Sound
<1>3. /\ Cover(l) = l.lamport /\ l.lamport \in Nat /\ new \in Register
      /\ new.version = l.lamport + 1 /\ new.origin = h
  BY <1>2, StampIsNext DEF Stamp
<1>4. r.lamport = new.version /\ r.label = new /\ r.name = l.name /\ r.add = l.add
  <2> HIDE DEF new
  <2>1. r = [l EXCEPT !.label = new, !.lamport = new.version]
    BY <1>3 DEF SetLabel, new
  <2> QED BY <1>2, <2>1 DEF Replica
<1> HIDE DEF r, new
<1>5. /\ replica'[h] = r /\ clock'[h] = new.version
      /\ \A g \in Heads \ {h} : Untouched(g)
  <2>1. clock'[h] = new.version
    BY <1>1, <1>4 DEF Keep, SoundInv, TypeOK
  <2> QED BY <1>1, <2>1, KeepOthers DEF Untouched
<1>6. Brings(replica'[h], 0, new)
  BY <1>2, <1>4, <1>5 DEF Brings, Carried, Reg
<1>7. StaysNamed(h)
  BY <1>1, <1>4, <1>5 DEF StaysNamed, Quiet, Booted
<1>8. h # 0
  BY GroupAssumption
<1> QED BY <1>1, <1>3, <1>4, <1>5, <1>6, <1>7, <1>8, OneHeadWrites

(* note_self_name writes the name, or finds it written: the name of now,   *)
(* or one that is remembered as stale.                                     *)
LEMMA AnnounceHistory ==
  ASSUME SoundInv, SoundInv', Written, NEW h \in Heads, NEW v \in Text, Announce(h, v),
         UNCHANGED <<dev, reply, offer, claims>>,
         \A g \in Heads \ {h} : UNCHANGED <<noting[g], boot[g]>>
  PROVE  Written'
<1> DEFINE l == replica[h]
           new == Stamp(l, v, h)
           r == SetName(l, h, v, h)
<1>1. Sound(l) /\ l \in Replica /\ Carried(l)
  BY KnownCarried DEF SoundInv, KeptSound, Sound
<1>2. /\ stale'[h] <=> v # dev[h]
      /\ \A g \in Heads \ {h} : stale'[g] = stale[g]
  BY DEF Announce, SoundInv, TypeOK
<1>3. CASE ~InGroup(h)
  <2>1. UNCHANGED <<replica, clock>>
    BY <1>3 DEF Announce
  <2>2. \A g \in Heads \ {h} : Untouched(g)
    BY <1>2, <2>1 DEF Untouched
  <2>3. GoesOn(h)
    BY <2>1, StandsStill DEF Written
  <2>4. StaysNamed(h)
    BY <1>3, <2>1 DEF StaysNamed, InGroup
  <2> QED BY <1>1, <2>1, <2>2, <2>3, <2>4, KnownCarried, OneHeadStep
<1>4. CASE InGroup(h)
  <2>1. Keep(h, r) /\ Sound(r)
    BY <1>1, <1>4, SetNameIsSound DEF Announce
  <2>2. replica'[h] = r /\ \A g \in Heads \ {h} : Untouched(g)
    BY <1>2, <2>1, KeepOthers DEF Untouched
  <2>3. h \in Members(l) /\ h # 0
    BY <1>4, GroupAssumption DEF InGroup
  <2>4. CASE r = l /\ l.name[h].value = v
    <3>1. l.lamport >= l.lamport
      BY <1>1 DEF Replica
    <3>2. GoesOn(h)
      BY <1>4, <2>1, <2>4, <3>1, KeepGoesOn DEF Written
    <3>3. StaysNamed(h)
      BY <1>2, <2>2, <2>4 DEF StaysNamed, Quiet
    <3> QED BY <1>1, <2>2, <2>4, <3>2, <3>3, KnownCarried, OneHeadStep
  <2>5. CASE /\ r.lamport = l.lamport + 1 /\ r.label = l.label
             /\ r.name = [l.name EXCEPT ![h] = new]
    <3>1. /\ new \in Register /\ new.version = l.lamport + 1 /\ new.origin = h
          /\ new.value = v
      BY <1>1, StampIsNext DEF Stamp
    <3> HIDE DEF r, new
    <3>2. clock'[h] = new.version
      BY <2>1, <2>5, <3>1 DEF Keep, SoundInv, TypeOK
    <3>3. \A u \in Heads : r.name[u] = IF u = h THEN new ELSE l.name[u]
      BY <1>1, <2>5 DEF Replica
    <3>4. Brings(replica'[h], h, new)
      BY <1>1, <2>2, <2>3, <2>5, <3>3 DEF Brings, Carried, Reg, Slot
    <3>5. StaysNamed(h)
      BY <1>2, <2>2, <3>1, <3>3 DEF StaysNamed, Quiet
    <3> QED BY <1>4, <2>2, <2>5, <3>1, <3>2, <3>3, <3>4, <3>5, OneHeadWrites
  <2> QED BY <1>1, <2>3, <2>4, <2>5, SetNameRegs
<1> QED BY <1>3, <1>4

(* A handler and the boot announce.                                       *)
LEMMA NoteHistory ==
  ASSUME SoundInv, SoundInv', Written, NEW h \in Heads, NoteSelfName(h) \/ BootNotes(h)
  PROVE  Written'
<1>1. UNCHANGED <<dev, reply, offer, claims>>
  BY DEF NoteSelfName, BootNotes
<1>2. \A g \in Heads \ {h} : UNCHANGED <<noting[g], boot[g]>>
  BY DEF NoteSelfName, BootNotes, SoundInv, TypeOK
<1>3. \E v \in Text : Announce(h, v)
  BY BootingType DEF NoteSelfName, BootNotes, SoundInv, TypeOK
<1> QED BY <1>1, <1>2, <1>3, AnnounceHistory

(* The boot that has yet to announce is not done; a head that is in no     *)
(* group has nothing to announce.                                          *)
LEMMA BootReadsHistory ==
  ASSUME SoundInv, SoundInv', Written, NEW h \in Heads, BootAsks(h) \/ BootReads(h)
  PROVE  Written'
<1>1. UNCHANGED <<replica, clock, dev, noting, reply, offer, stale, claims>>
  BY DEF BootAsks, BootReads
<1>2. /\ \A g \in Heads \ {h} : boot'[g] = boot[g]
      /\ InGroup(h) => ~Booted(h)'
  BY DEF BootAsks, BootReads, Booted, Booting, SoundInv, TypeOK
<1>3. \A g \in Heads \ {h} : Untouched(g)
  BY <1>1, <1>2 DEF Untouched
<1>4. GoesOn(h)
  BY <1>1, StandsStill DEF Written
<1>5. StaysNamed(h)
  BY <1>1, <1>2 DEF StaysNamed, Quiet, InGroup
<1>6. Carried(replica'[h]) /\ (reply'[h] # None => Carried(reply'[h]))
  BY <1>1, KnownCarried
<1> QED BY <1>3, <1>4, <1>5, <1>6, OneHeadStep

(* The owner that enrols a head writes its first name for it: nobody has   *)
(* written in its name before.                                             *)
LEMMA ClaimHistory ==
  ASSUME SoundInv, SoundInv', NoRejoin', Written, NEW o \in Heads, NEW j \in Heads,
         Claim(o, j)
  PROVE  Written'
<1> DEFINE l == replica[o]
           added == AddMember(l, j)
           named == IF dev[j] = Blank THEN added ELSE SetName(added, j, dev[j], j)
           new == Stamp(added, dev[j], j)
<1>1. /\ o # j /\ InGroup(o) /\ Keep(o, named) /\ offer' = [offer EXCEPT ![j] = named]
      /\ claims' = [claims EXCEPT ![j] = @ + 1]
      /\ UNCHANGED <<dev, noting, boot, list, reply, stale>>
  BY DEF Claim
<1>2. /\ offer'[j] = named /\ claims'[j] = claims[j] + 1 /\ claims[j] \in Nat
      /\ \A g \in Heads \ {j} : offer'[g] = offer[g] /\ claims'[g] = claims[g]
      /\ dev[j] \in Text /\ l \in Replica
  BY <1>1 DEF SoundInv, TypeOK
<1>3. claims[j] = 0 /\ claims'[j] = 1
  BY <1>2 DEF NoRejoin
<1>4. /\ offer[j] = None /\ ~InGroup(j) /\ clock[j] <= replica[j].lamport
      /\ \A s \in Slot : \A a \in Marks(s) : a.origin # j
  BY <1>3 DEF Written, Life
<1>5. Sound(l) /\ Carried(l) /\ j # 0 /\ j \in Slot
  BY GroupAssumption, KnownCarried DEF SoundInv, KeptSound, Slot
<1>6. /\ Sound(added) /\ j \in Members(added) /\ added.lamport >= l.lamport
      /\ added.lamport \in Nat /\ l.lamport \in Nat
      /\ added.name = l.name /\ Carried(added)
  BY <1>2, <1>5, AddMemberIsSound, AddMemberRegs DEF Replica
<1> HIDE DEF added
<1>7. /\ new \in Register /\ new.version = added.lamport + 1 /\ new.origin = j
  BY <1>2, <1>6, StampIsNext DEF Stamp
<1> HIDE DEF new
<1>8. /\ named.lamport >= added.lamport
      /\ \A u \in Heads \ {j} : named.name[u] = l.name[u]
      /\ \/ Carried(named) /\ named.name[j] = added.name[j]
         \/ named.name[j] = new /\ named.lamport = new.version
      /\ Brings(named, j, new)
  <2>1. CASE named = added
    BY <1>6, <2>1 DEF Carried, Brings
  <2>2. CASE /\ named.lamport = added.lamport + 1 /\ named.label = added.label
             /\ named.name = [added.name EXCEPT ![j] = new]
    <3>1. added.name \in [Heads -> Register]
      BY <1>6 DEF Sound, Replica
    <3> HIDE DEF named
    <3>2. \A u \in Heads : named.name[u] = IF u = j THEN new ELSE added.name[u]
      BY <2>2, <3>1
    <3>3. Brings(named, j, new)
      BY <1>5, <1>6, <2>2, <3>2 DEF Brings, Carried, Reg, Slot
    <3> QED BY <1>6, <1>7, <2>2, <3>2, <3>3
  <2> QED BY <1>2, <1>6, <2>1, <2>2, SetNameRegs DEF new
<1>9. Sound(named) /\ named \in Replica /\ named.lamport \in Nat /\ named.name[j] \in Register
  <2>1. Sound(named)
    BY <1>2, <1>6, SetNameIsSound
  <2> HIDE DEF named
  <2> QED BY <2>1 DEF Sound, Replica
<1>10. named # None
  <2>1. \A r \in Replica : r # None
    BY DEF Replica, None
  <2> QED BY <1>9, <2>1
<1> HIDE DEF named
<1>11. /\ replica'[o] = named /\ clock'[o] = named.lamport
       /\ \A g \in Heads \ {o} : UNCHANGED <<replica[g], clock[g]>>
  <2>1. clock'[o] = named.lamport
    BY <1>1 DEF Keep, SoundInv, TypeOK
  <2> QED BY <1>1, <2>1, KeepOthers
<1>12. AllBring(j, new)
  <2> SUFFICES ASSUME NEW g \in Heads
               PROVE  /\ Brings(replica'[g], j, new)
                      /\ reply'[g] # None => Brings(reply'[g], j, new)
                      /\ offer'[g] # None => Brings(offer'[g], j, new)
    BY DEF AllBring
  <2>1. \A r : Carried(r) => Brings(r, j, new)
    BY DEF Carried, Brings
  <2>2. Brings(replica'[g], j, new)
    BY <1>8, <1>11, <2>1, KnownCarried
  <2>3. reply'[g] # None => Brings(reply'[g], j, new)
    BY <1>1, <2>1, KnownCarried
  <2>4. offer'[g] # None => Brings(offer'[g], j, new)
    BY <1>2, <1>8, <2>1, KnownCarried
  <2> QED BY <2>2, <2>3, <2>4
<1>13. \A s \in Slot : \A a \in Marks(s)' :
         a \in Marks(s) \/ a = Unwritten \/ (s = j /\ a = new)
  BY <1>12, BroughtMarks
<1>14. MarksInv /\ MarksInv'
  BY <1>4, <1>5, <1>7, <1>12, MarksGrow DEF Written
<1>15. ASSUME NEW g \in Heads, g # j
       PROVE  Life(g)' /\ Named(g)'
  <2>1. Life(g) /\ Named(g) /\ g # 0
    BY GroupAssumption DEF Written
  <2>2. \A s \in Slot : \A a \in Marks(s)' :
          a \in Marks(s) \/ a = Unwritten \/ (a.origin # g /\ s # g)
    BY <1>7, <1>13, <1>15
  <2>3. GoesOn(g)
    <3>1. CASE g = o
      <4>1. clock[o] \in Nat /\ clock[o] <= l.lamport /\ named.lamport >= clock[o]
        BY <1>6, <1>8, <1>9, <2>1, <3>1 DEF SoundInv, TypeOK, Life
      <4>2. named.lamport <= named.lamport
        BY <1>9
      <4> QED BY <1>1, <1>2, <1>8, <1>11, <3>1, <4>1, <4>2 DEF GoesOn
    <3>2. CASE g # o
      <4>1. UNCHANGED <<replica[g], clock[g], claims[g], offer[g]>>
        BY <1>2, <1>11, <1>15, <3>2
      <4> QED BY <2>1, <4>1, StandsStill
    <3> QED BY <3>1, <3>2
  <2>4. StaysNamed(g)
    <3>1. replica'[g].name[g] = replica[g].name[g]
      BY <1>8, <1>11, <1>15
    <3>2. g = o \/ InGroup(g)' = InGroup(g)
      BY <1>11 DEF InGroup
    <3> QED BY <1>1, <3>1, <3>2 DEF StaysNamed, Quiet, Booted
  <2> QED BY <1>14, <2>1, <2>2, <2>3, <2>4, LifeGoesOn, StaysNamedIsNamed
<1>16. ~InGroup(j)'
  BY <1>1, <1>4, <1>11 DEF InGroup
<1>17. ASSUME NEW b \in Marks(j)
       PROVE  b = Unwritten
  BY <1>4, <1>5, <1>14 DEF MarksInv
<1>18. ~Wins(Unwritten, named.name[j])
  BY <1>9, RegisterParts DEF Wins, Unwritten
<1>19. UptoAfter(j, named.lamport) /\ LatestAfter(j, named.name[j])
  <2>1. CASE named.name[j] = new /\ named.lamport = new.version
    <3>1. UptoAfter(j, named.lamport)
      BY <1>4, <1>5, <1>9, <1>13, <2>1 DEF UptoAfter, Unwritten
    <3>2. ~Wins(new, new)
      BY <1>7, RegisterParts DEF Wins
    <3>3. LatestAfter(j, named.name[j])
      BY <1>5, <1>13, <1>17, <1>18, <2>1, <3>2 DEF LatestAfter
    <3> QED BY <3>1, <3>3
  <2>2. CASE Carried(named)
    <3>1. AllCarried
      BY <1>1, <1>2, <1>11, <2>2, KnownCarried DEF AllCarried
    <3>2. \A s \in Slot : \A a \in Marks(s)' : a \in Marks(s) \/ a = Unwritten
      BY <3>1, CarriedMarks
    <3>3. UptoAfter(j, named.lamport)
      BY <1>4, <1>5, <3>2 DEF UptoAfter, Unwritten
    <3>4. LatestAfter(j, named.name[j])
      BY <1>5, <1>17, <1>18, <3>2 DEF LatestAfter
    <3> QED BY <3>3, <3>4
  <2> QED BY <1>8, <2>1, <2>2
<1>20. Life(j)'
  <2>1. clock'[j] <= replica'[j].lamport
    BY <1>1, <1>4, <1>11
  <2> QED BY <1>2, <1>3, <1>16, <1>19, <2>1 DEF Life, Upto, UptoAfter, Latest, LatestAfter
<1>21. Named(j)'
  BY <1>16 DEF Named
<1> QED BY <1>14, <1>15, <1>20, <1>21 DEF Written

(* At first nothing is written.                                           *)
LEMMA InitHistory == ASSUME Init PROVE Written
<1>1. SoundInv /\ Founder \in Heads /\ Sound(Empty)
  BY InitIsSound, GroupAssumption, EmptyIsSound
<1>2. \A s \in Slot : Reg(Empty, s) = Unwritten /\ Reg(Founded, s) = Unwritten
  <2>1. Founded.label = Empty.label /\ Founded.name = Empty.name
    BY <1>1, AddMemberRegs DEF Founded
  <2> QED BY <2>1 DEF Reg, Empty, Slot
<1>3. \A s \in Slot : \A a \in Marks(s) : a = Unwritten
  BY <1>2 DEF Marks, Replicas, Init
<1>4. MarksInv
  BY <1>3 DEF MarksInv, Unwritten
<1>5. ASSUME NEW h \in Heads
      PROVE  Life(h) /\ Named(h)
  <2>1. /\ clock[h] = replica[h].lamport /\ offer[h] = None /\ clock[h] \in Nat
        /\ h # Founder => ~InGroup(h)
        /\ h = Founder => claims[h] # 0
        /\ h # 0
    <3>1. h \notin Members(Empty)
      BY DEF Members, Empty
    <3> QED BY <1>1, <3>1, GroupAssumption DEF Init, SoundInv, TypeOK, InGroup
  <2>2. \A c \in Nat : Upto(h, c)
    BY <1>3, <2>1 DEF Upto, Unwritten
  <2>3. h \in Slot /\ replica[h].name[h] = Unwritten
    <3>1. replica[h] \in {Empty, Founded}
      BY DEF Init
    <3> QED BY <1>2, <2>1, <3>1 DEF Reg, Slot
  <2>4. Latest(h, Unwritten)
    BY <1>3, <2>3 DEF Latest, Wins, Unwritten
  <2>5. \A s \in Slot : \A a \in Marks(s) : a.origin # h
    BY <1>3, <2>1 DEF Unwritten
  <2>6. clock[h] <= replica[h].lamport
    BY <2>1
  <2>7. Life(h)
    BY <2>1, <2>2, <2>3, <2>4, <2>5, <2>6 DEF Life
  <2>8. Named(h)
    BY <2>1, <2>3 DEF Named
  <2> QED BY <2>7, <2>8
<1> QED BY <1>4, <1>5 DEF Written

(* No head is enrolled a second time after a step that was not before it.  *)
LEMMA ClaimsGrow ==
  ASSUME SoundInv, [Next]_vars, NoRejoin'
  PROVE  NoRejoin
<1>1. \/ claims' = claims
      \/ \E j \in Heads : claims' = [claims EXCEPT ![j] = @ + 1]
  BY DEF Next, vars, Admin, Gossip, LabelGroup, Rename, Evict, Leave, Claim, Poll, PollFails,
         MergeReply, NoteSelfName, Boots, BootAsks, BootReads, BootNotes, Join, OfferLost,
         Reboot, Crash
<1>2. claims \in [Heads -> Nat]
  BY DEF SoundInv, TypeOK
<1> QED BY <1>1, <1>2 DEF NoRejoin

(* Every step keeps the history.                                          *)
LEMMA HistoryStep == HistoryInv /\ [Next]_vars => HistoryInv'
<1> SUFFICES ASSUME HistoryInv, [Next]_vars PROVE HistoryInv'
  OBVIOUS
<1>1. SoundInv /\ SoundInv'
  BY NextKeepsSound DEF HistoryInv
<1>2. ASSUME NoRejoin'
      PROVE  Written'
  <2>1. Written
    BY <1>1, <1>2, ClaimsGrow DEF HistoryInv
  <2>2. CASE UNCHANGED vars
    BY <2>1, <2>2 DEF vars, Written, MarksInv, Marks, Replicas, Life, InGroup, Upto, Latest,
       Named, Quiet, Booted
  <2>3. ASSUME NEW h \in Heads, Admin(h)
        PROVE  Written'
    BY <1>1, <1>2, <2>1, <2>3, LabelGroupHistory, RenameHistory, EvictHistory, LeaveHistory,
       ClaimHistory DEF Admin
  <2>4. ASSUME NEW h \in Heads, Gossip(h)
        PROVE  Written'
    BY <1>1, <2>1, <2>4, NoteHistory, BootReadsHistory, PollHistory, MergeReplyHistory
       DEF Gossip, Boots
  <2>5. ASSUME NEW h \in Heads, NoteSelfName(h) \/ Join(h) \/ OfferLost(h) \/ Reboot(h)
        PROVE  Written'
    BY <1>1, <2>1, <2>5, NoteHistory, JoinHistory, OfferLostHistory, RebootHistory
  <2> QED BY <2>2, <2>3, <2>4, <2>5 DEF Next
<1> QED BY <1>1, <1>2 DEF HistoryInv

(* So it is one for ever.                                                 *)
LEMMA AlwaysHistory == Spec => []HistoryInv
<1>1. Init => HistoryInv
  BY InitIsSound, InitHistory DEF HistoryInv
<1> QED BY <1>1, HistoryStep, PTL DEF Spec

(* Of two writes of which none is later, both are one. *)
LEMMA NoneLater ==
  ASSUME SoundInv, MarksInv, NEW s \in Slot, NEW a \in Marks(s), NEW b \in Marks(s),
         Later(a, b) = a, Later(b, a) = b
  PROVE  a = b
<1>1. /\ a.version \in Nat /\ a.origin \in Nat
      /\ b.version \in Nat /\ b.origin \in Nat
  BY MarksType
<1>2. Wins(a, b) \/ Wins(b, a) \/ (a.version = b.version /\ a.origin = b.origin)
  BY <1>1 DEF Wins
<1>3. a.version = b.version /\ a.origin = b.origin => a = b
  BY DEF MarksInv
<1> QED BY <1>2, <1>3 DEF Later

(* A merge that would change nothing but the clock: what each part says.   *)
LEMMA NoChange ==
  ASSUME NEW l, NEW r, Sound(l), Sound(r), ~Changes(l, r)
  PROVE  /\ Later(l.label, r.label) = l.label
         /\ \A u \in Heads :
              /\ Larger(l.tomb[u], r.tomb[u]) = l.tomb[u]
              /\ r.add[u] > l.tomb[u] => /\ r.add[u] <= l.add[u]
                                         /\ Later(l.name[u], r.name[u]) = l.name[u]
              /\ l.add[u] = 0 => l.name[u] = Unwritten
<1> DEFINE tomb == [u \in Heads |-> Larger(l.tomb[u], r.tomb[u])]
           taken == {u \in Heads : r.add[u] > tomb[u]}
           add == [u \in Heads |-> IF u \in taken THEN Larger(l.add[u], r.add[u])
                                   ELSE l.add[u]]
           live == {u \in Heads : add[u] > tomb[u]}
           name == [u \in Heads |-> IF u \notin live THEN Unwritten
                                    ELSE IF u \in taken THEN Later(l.name[u], r.name[u])
                                    ELSE l.name[u]]
           out == Union(l, r)
<1>1. out = [l EXCEPT !.lamport = out.lamport]
  BY MergeIsUnion DEF Changes
<1>2. /\ out.label = Later(l.label, r.label)
      /\ out.add = [u \in Heads |-> IF u \in live THEN add[u] ELSE 0]
      /\ out.tomb = tomb /\ out.name = name
  BY DEF Union
<1>3. l \in Replica /\ r \in Replica
  BY DEF Sound
<1>4. out.label = l.label /\ out.add = l.add /\ out.tomb = l.tomb /\ out.name = l.name
  <2> HIDE DEF out
  <2> QED BY <1>1, <1>3 DEF Replica
<1>5. ASSUME NEW u \in Heads
      PROVE  /\ Larger(l.tomb[u], r.tomb[u]) = l.tomb[u]
             /\ r.add[u] > l.tomb[u] => /\ r.add[u] <= l.add[u]
                                        /\ Later(l.name[u], r.name[u]) = l.name[u]
             /\ l.add[u] = 0 => l.name[u] = Unwritten
  <2>1. /\ l.tomb[u] \in Nat /\ r.tomb[u] \in Nat /\ l.add[u] \in Nat /\ r.add[u] \in Nat
    BY <1>3 DEF Replica
  <2>2. /\ l.tomb[u] = tomb[u] /\ l.name[u] = name[u]
        /\ l.add[u] = IF u \in live THEN add[u] ELSE 0
    <3> HIDE DEF out, tomb, live, add, name
    <3> QED BY <1>2, <1>4
  <2>3. tomb[u] = Larger(l.tomb[u], r.tomb[u])
    OBVIOUS
  <2>4. u \in taken <=> r.add[u] > tomb[u]
    OBVIOUS
  <2>5. add[u] = IF u \in taken THEN Larger(l.add[u], r.add[u]) ELSE l.add[u]
    OBVIOUS
  <2>6. u \in live <=> add[u] > tomb[u]
    OBVIOUS
  <2>7. name[u] = IF u \notin live THEN Unwritten
                  ELSE IF u \in taken THEN Later(l.name[u], r.name[u]) ELSE l.name[u]
    OBVIOUS
  <2> HIDE DEF tomb, taken, add, live, name
  <2>8. l.add[u] = 0 => l.name[u] = Unwritten
    BY <2>1, <2>2, <2>3, <2>6, <2>7 DEF Larger
  <2>9. ASSUME r.add[u] > l.tomb[u]
        PROVE  /\ r.add[u] <= l.add[u]
               /\ Later(l.name[u], r.name[u]) = l.name[u]
    <3>1. u \in taken /\ add[u] = Larger(l.add[u], r.add[u]) /\ add[u] >= r.add[u]
      BY <2>1, <2>2, <2>4, <2>5, <2>9 DEF Larger
    <3>2. u \in live
      BY <2>1, <2>2, <2>6, <2>9, <3>1 DEF Larger
    <3> QED BY <2>1, <2>2, <2>7, <3>1, <3>2
  <2> QED BY <2>2, <2>3, <2>8, <2>9
<1> HIDE DEF out
<1> QED BY <1>2, <1>4, <1>5

(* Two heads of which neither learns anything from the other agree.        *)
LEMMA SettledIsAgreed ==
  ASSUME SoundInv, MarksInv, NEW h \in Heads, NEW k \in Heads, Settled(h, k)
  PROVE  Agree(h, k)
<1> DEFINE l == replica[h]
           r == replica[k]
<1>1. /\ Sound(l) /\ Sound(r) /\ l \in Replica /\ r \in Replica
      /\ \A s \in Slot : Reg(l, s) \in Marks(s) /\ Reg(r, s) \in Marks(s)
  BY DEF SoundInv, KeptSound, Sound, Marks, Replicas
<1>2. ~Changes(l, r) /\ ~Changes(r, l)
  BY DEF Settled
<1> HIDE DEF l, r
<1>3. l.label = r.label
  <2>1. 0 \in Slot /\ Reg(l, 0) = l.label /\ Reg(r, 0) = r.label
    BY DEF Slot, Reg
  <2> QED BY <1>1, <1>2, <2>1, NoChange, NoneLater
<1>4. ASSUME NEW u \in Heads
      PROVE  /\ l.tomb[u] = r.tomb[u] /\ l.add[u] = r.add[u] /\ l.name[u] = r.name[u]
  <2>1. /\ l.tomb[u] \in Nat /\ r.tomb[u] \in Nat /\ l.add[u] \in Nat /\ r.add[u] \in Nat
    BY <1>1 DEF Replica
  <2>2. l.tomb[u] = r.tomb[u]
    <3>1. Larger(l.tomb[u], r.tomb[u]) = l.tomb[u] /\ Larger(r.tomb[u], l.tomb[u]) = r.tomb[u]
      BY <1>1, <1>2, NoChange
    <3> QED BY <2>1, <3>1 DEF Larger
  <2>3. /\ l.add[u] > 0 => l.add[u] > l.tomb[u]
        /\ r.add[u] > 0 => r.add[u] > r.tomb[u]
    BY <1>1 DEF Sound, Unvetoed, Members
  <2>4. /\ r.add[u] > l.tomb[u] => /\ r.add[u] <= l.add[u]
                                   /\ Later(l.name[u], r.name[u]) = l.name[u]
        /\ l.add[u] > r.tomb[u] => /\ l.add[u] <= r.add[u]
                                   /\ Later(r.name[u], l.name[u]) = r.name[u]
        /\ l.add[u] = 0 => l.name[u] = Unwritten
        /\ r.add[u] = 0 => r.name[u] = Unwritten
    BY <1>1, <1>2, NoChange
  <2>5. l.add[u] = r.add[u]
    BY <2>1, <2>2, <2>3, <2>4
  <2>6. u \in Slot /\ Reg(l, u) = l.name[u] /\ Reg(r, u) = r.name[u]
    BY GroupAssumption DEF Slot, Reg
  <2>7. CASE l.add[u] = 0
    BY <2>2, <2>4, <2>5, <2>7
  <2>8. CASE l.add[u] > 0
    BY <1>1, <2>2, <2>3, <2>4, <2>5, <2>6, <2>8, NoneLater
  <2> QED BY <2>1, <2>2, <2>5, <2>7, <2>8
<1>5. l.tomb = r.tomb /\ l.add = r.add /\ l.name = r.name
  <2>1. /\ l.tomb \in [Heads -> Nat] /\ r.tomb \in [Heads -> Nat]
        /\ l.add \in [Heads -> Nat] /\ r.add \in [Heads -> Nat]
        /\ l.name \in [Heads -> Register] /\ r.name \in [Heads -> Register]
    BY <1>1 DEF Replica
  <2> QED BY <1>4, <2>1
<1>6. l = [r EXCEPT !.lamport = l.lamport]
  BY <1>1, <1>3, <1>5 DEF Replica
<1> QED BY <1>6 DEF Agree, l, r

-----------------------------------------------------------------------------
(* The theorems                                                            *)

(* Every variable keeps its type: a head never polls itself, and an answer *)
(* or an offer is a whole replica.                                         *)
THEOREM ReplicaTypeCorrect == Spec => []TypeOK
<1>1. SoundInv => TypeOK
  BY DEF SoundInv
<1> QED BY <1>1, AlwaysSound, PTL

(* The clock of a replica covers all it carries, whatever merges, joins,   *)
(* removals and reboots came before (group_proto.cpp, bump_clock_to_cover).*)
THEOREM ClocksAlwaysCover == Spec => []ClocksCover
<1>1. SoundInv => ClocksCover
  BY ReplicasAreSound DEF ClocksCover, Sound
<1> QED BY <1>1, AlwaysSound, PTL

(* No head keeps, sends or hands out a member it knows to be removed       *)
(* (group_proto.cpp, merge_replica).                                       *)
THEOREM RemovedStayOut == Spec => []RemoveWins
<1>1. SoundInv => RemoveWins
  BY ReplicasAreSound DEF RemoveWins, Sound
<1> QED BY <1>1, AlwaysSound, PTL

(* A head in a group is called there what it calls itself, unless it is    *)
(* about to announce its name, or last announced, at boot, one it had read *)
(* before a rename (note_self_name, pairing_claim, group_poll_task).       *)
THEOREM NamesAreOwn == Spec => []OwnName
<1>1. HistoryInv => OwnName
  BY DEF HistoryInv, Written, Named, Quiet, Free, OwnName
<1> QED BY <1>1, AlwaysHistory, PTL

(* Two heads that have nothing to tell each other agree: merge_replica's   *)
(* "all replicas converge", for a group nobody is enrolled in twice.       *)
THEOREM SettledReplicasAgree == Spec => []SettledAgree
<1>1. HistoryInv => SettledAgree
  BY SettledIsAgreed DEF HistoryInv, Written, SettledAgree, AllSettledAgree
<1> QED BY <1>1, AlwaysHistory, PTL
=============================================================================
