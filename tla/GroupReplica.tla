---------------------------- MODULE GroupReplica ----------------------------
(***************************************************************************)
(* What the heads of one group replicate (components/hvac_group): a label, *)
(* a membership with tombstones and a name per head, each kept by every    *)
(* head, merged by polling (main/web_ui.cpp, group_poll_task) and handed   *)
(* to a head that pairs.                                                   *)
(*                                                                         *)
(* A step is a critical section of group_config.cpp.  The web server of a  *)
(* head is one task: while it waits for the answer to a pairing request it *)
(* serves nobody; the poll task is another one.                            *)
(***************************************************************************)
EXTENDS Naturals, FiniteSets, FiniteSetsExt

CONSTANTS
  Heads,        \* the heads, as numbers: their uids are compared as strings
  Founder,     \* the head whose pairing_start formed the group
  Writers,     \* the heads whose admins act in this instance
  Text, Blank, \* labels and names, and the empty one
  MaxWrites, MaxClaims, MaxReboots, MaxLost   \* bounds

ASSUME GroupAssumption ==
  /\ Heads \subseteq Nat \ {0}
  /\ IsFiniteSet(Heads)
  /\ Cardinality(Heads) <= 16   \* kMaxReplicaMembers: the caps never bite
  /\ Founder \in Heads
  /\ Writers \subseteq Heads
  /\ Blank \in Text

VARIABLES
  replica,  \* s_replica; without the head itself in it, the head is standalone
  clock,    \* the lamport of the replica in NVS: the rest of it is always stored
  dev,      \* the head's own display name, in NVS
  noting,   \* a handler is still to call note_self_name
  boot,     \* group_poll_task: its note_self_name of the boot, and the name read
  list,     \* group_poll_task: the peers left in this round
  reply,    \* the answer to its poll that is not merged yet
  offer,    \* handle_group_pair_join: the owner's answer, not adopted yet
  \* history and bounds
  stale,    \* the last note was that of the boot, with a name since replaced
  claims,   \* how often a head has been enrolled, founding included
  spent     \* how much of each bound is used

vars == <<replica, clock, dev, noting, boot, list, reply, offer, stale, claims, spent>>

-----------------------------------------------------------------------------
(* group_proto.cpp: pure functions                                         *)

Register == [value : Text, version : Nat, origin : Heads \cup {0}]
Replica ==
  [lamport : Nat, label : Register, add : [Heads -> Nat], tomb : [Heads -> Nat],
   name : [Heads -> Register]]

Unwritten == [value |-> Blank, version |-> 0, origin |-> 0]
Empty ==
  [lamport |-> 0, label |-> Unwritten, add |-> [u \in Heads |-> 0],
   tomb |-> [u \in Heads |-> 0], name |-> [u \in Heads |-> Unwritten]]

Members(r) == {u \in Heads : r.add[u] > 0}

Versions(r) ==
  {r.lamport, r.label.version} \cup {r.add[u] : u \in Heads}
    \cup {r.tomb[u] : u \in Heads} \cup {r.name[u].version : u \in Heads}

(* bump_clock_to_cover *)
Cover(r) == Max(Versions(r))

(* Seeded fault: no tiebreak. *)
WinsByVersion(a, b) == a.version > b.version

(* lww_wins: the later write, and of two as late the greater origin. *)
Wins(a, b) ==
  \/ a.version > b.version
  \/ a.version = b.version /\ a.origin > b.origin

Later(a, b) == IF Wins(b, a) THEN b ELSE a
Larger(m, n) == IF n > m THEN n ELSE m

(* merge_replica.  A remote member that no tombstone vetoes is taken; of a *)
(* member that was there already the later name stays, even when the local *)
(* add was one that a tombstone has ended.                                 *)
Union(l, r) ==
  LET tomb == [u \in Heads |-> Larger(l.tomb[u], r.tomb[u])]
      taken == {u \in Heads : r.add[u] > tomb[u]}
      add == [u \in Heads |-> IF u \in taken THEN Larger(l.add[u], r.add[u])
                              ELSE l.add[u]]
      live == {u \in Heads : add[u] > tomb[u]}
  IN  [lamport |-> Larger(l.lamport, r.lamport),
       label |-> Later(l.label, r.label),
       add |-> [u \in Heads |-> IF u \in live THEN add[u] ELSE 0],
       tomb |-> tomb,
       name |-> [u \in Heads |->
                   IF u \notin live THEN Unwritten
                   ELSE IF u \in taken THEN Later(l.name[u], r.name[u])
                   ELSE l.name[u]]]

(* Seeded fault: removals are not looked at. *)
MergeKeepingRemoved(l, r) ==
  LET union == Union(l, r)
  IN  [union EXCEPT !.add = [u \in Heads |-> Larger(l.add[u], r.add[u])],
                    !.lamport = Cover(union)]

(* The clock ends up ahead of everything seen. *)
Merge(l, r) ==
  LET union == Union(l, r) IN [union EXCEPT !.lamport = Cover(union)]

(* What merge_replica reports: the clock is no change. *)
Changes(l, r) ==
  LET merged == Merge(l, r) IN merged # [l EXCEPT !.lamport = merged.lamport]

Stamp(r, v, w) == [value |-> v, version |-> Cover(r) + 1, origin |-> w]

SetLabel(r, v, w) ==
  [r EXCEPT !.label = Stamp(r, v, w), !.lamport = Cover(r) + 1]

SetName(r, u, v, w) ==
  IF u \notin Members(r) \/ r.name[u].value = v THEN r
  ELSE [r EXCEPT !.name[u] = Stamp(r, v, w), !.lamport = Cover(r) + 1]

AddMember(r, u) ==
  IF u \in Members(r) THEN r
  ELSE [r EXCEPT !.add[u] = Cover(r) + 1, !.lamport = Cover(r) + 1]

RemoveMember(r, u) ==
  IF u \notin Members(r) THEN r
  ELSE LET rest == [r EXCEPT !.add[u] = 0, !.name[u] = Unwritten]
       IN  [rest EXCEPT !.tomb[u] = Cover(rest) + 1, !.lamport = Cover(rest) + 1]

-----------------------------------------------------------------------------

InGroup(h) == h \in Members(replica[h])

Peers(h) == Members(replica[h]) \ {h}

None == [none |-> TRUE]
Free(h) == offer[h] = None /\ ~noting[h]   \* the web server is idle

Boot == [step : {"done", "ask", "read", "note"}, name : Text]
Booting(step, name) == [step |-> step, name |-> name]
Booted(h) == boot[h].step = "done"

TypeOK ==
  /\ replica \in [Heads -> Replica]
  /\ clock \in [Heads -> Nat]
  /\ dev \in [Heads -> Text]
  /\ noting \in [Heads -> BOOLEAN] /\ stale \in [Heads -> BOOLEAN]
  /\ boot \in [Heads -> Boot]
  /\ list \in [Heads -> SUBSET Heads] /\ \A h \in Heads : h \notin list[h]
  /\ reply \in [Heads -> Replica \cup {None}]
  /\ offer \in [Heads -> Replica \cup {None}]
  /\ claims \in [Heads -> Nat]
  /\ spent \in [writes : Nat, claims : Nat, reboots : Nat, lost : Nat]

(* persist_locked, with the replica it stores. *)
Keep(h, r) ==
  /\ replica' = [replica EXCEPT ![h] = r]
  /\ clock' = [clock EXCEPT ![h] = r.lamport]

Spend(what, most) ==
  spent[what] < most /\ spent' = [spent EXCEPT ![what] = @ + 1]

Write == Spend("writes", MaxWrites)

(* POST /api/group/label *)
LabelGroup(h, v) ==
  /\ Free(h) /\ InGroup(h)
  /\ Write
  /\ Keep(h, SetLabel(replica[h], v, h))
  /\ UNCHANGED <<dev, noting, boot, list, reply, offer, stale, claims>>

(* POST /api/device: the new name is stored first, then note_self_name. *)
Rename(h, v) ==
  /\ Free(h)
  /\ Write
  /\ dev' = [dev EXCEPT ![h] = v]
  /\ noting' = [noting EXCEPT ![h] = TRUE]
  /\ UNCHANGED <<replica, clock, boot, list, reply, offer, stale, claims>>

(* note_self_name *)
Announce(h, v) ==
  /\ IF InGroup(h) THEN Keep(h, SetName(replica[h], h, v, h))
     ELSE UNCHANGED <<replica, clock>>
  /\ stale' = [stale EXCEPT ![h] = v # dev[h]]

(* By a handler.  It has read the name before, but only handlers write it.  *)
NoteSelfName(h) ==
  /\ noting[h]
  /\ noting' = [noting EXCEPT ![h] = FALSE]
  /\ Announce(h, dev[h])
  /\ UNCHANGED <<dev, boot, list, reply, offer, claims, spent>>

(* By the poll task before its first round: in_group() is asked, the name  *)
(* is read, and then told, each under a lock of its own; the web server is *)
(* up meanwhile.                                                           *)
BootAsks(h) ==
  /\ boot[h].step = "ask"
  /\ boot' = [boot EXCEPT ![h] = Booting(IF InGroup(h) THEN "read" ELSE "done", Blank)]
  /\ UNCHANGED <<replica, clock, dev, noting, list, reply, offer, stale, claims, spent>>

BootReads(h) ==
  /\ boot[h].step = "read"
  /\ boot' = [boot EXCEPT ![h] = Booting("note", dev[h])]
  /\ UNCHANGED <<replica, clock, dev, noting, list, reply, offer, stale, claims, spent>>

BootNotes(h) ==
  /\ boot[h].step = "note"
  /\ boot' = [boot EXCEPT ![h] = Booting("done", Blank)]
  /\ Announce(h, boot[h].name)
  /\ UNCHANGED <<dev, noting, list, reply, offer, claims, spent>>

(* POST /api/group/member/remove *)
Evict(h, u) ==
  /\ Free(h) /\ InGroup(h)
  /\ u \in Peers(h)
  /\ Write
  /\ Keep(h, RemoveMember(replica[h], u))
  /\ UNCHANGED <<dev, noting, boot, list, reply, offer, stale, claims>>

(* POST /api/group/leave: nobody else is told. *)
Leave(h) ==
  /\ Free(h) /\ InGroup(h)
  /\ Write
  /\ Keep(h, Empty)
  /\ UNCHANGED <<dev, noting, boot, list, reply, offer, stale, claims>>

(* pairing_claim at owner o, with a code that is right: the joiner is      *)
(* enrolled and named, and the answer is the whole replica.                *)
Claim(o, j) ==
  /\ o # j /\ Free(o) /\ InGroup(o) /\ Free(j)
  /\ Spend("claims", MaxClaims)
  /\ LET added == AddMember(replica[o], j)
         named == IF dev[j] = Blank THEN added ELSE SetName(added, j, dev[j], j)
     IN  /\ Keep(o, named)
         /\ offer' = [offer EXCEPT ![j] = named]
  /\ claims' = [claims EXCEPT ![j] = @ + 1]
  /\ UNCHANGED <<dev, noting, boot, list, reply, stale>>

(* join_group: whatever the joiner had is replaced; then note_self_name. *)
Join(j) ==
  /\ offer[j] # None
  /\ Keep(j, AddMember(offer[j], j))
  /\ offer' = [offer EXCEPT ![j] = None]
  /\ noting' = [noting EXCEPT ![j] = TRUE]
  /\ UNCHANGED <<dev, boot, list, reply, stale, claims, spent>>

(* The owner's answer never arrives: it has enrolled a head that is not in. *)
OfferLost(j) ==
  /\ offer[j] # None
  /\ Spend("lost", MaxLost)
  /\ offer' = [offer EXCEPT ![j] = None]
  /\ UNCHANGED <<replica, clock, dev, noting, boot, list, reply, stale, claims>>

(* group_poll_task: a round polls the peers of the moment it begins, one   *)
(* after the other; later changes of the membership do not shorten it.     *)
Due(h) == IF list[h] = {} /\ InGroup(h) THEN Peers(h) ELSE list[h]

(* Seeded fault: a head answers only those it lists, the gate that the      *)
(* comment in handle_group_state warns of.                                 *)
AnswersListed(k, h) == Free(k) /\ InGroup(k) /\ h \in Peers(k)

(* handle_group_state: whoever has the group's secret is answered. *)
Answers(k, h) == Free(k) /\ InGroup(k)

Poll(h, k) ==
  /\ Booted(h) /\ k \in Due(h) /\ reply[h] = None
  /\ InGroup(h) /\ Answers(k, h)
  /\ reply' = [reply EXCEPT ![h] = replica[k]]
  /\ list' = [list EXCEPT ![h] = Due(h) \ {k}]
  /\ UNCHANGED <<replica, clock, dev, noting, boot, offer, stale, claims, spent>>

(* No answer, or one that does not arrive. *)
PollFails(h, k) ==
  /\ Booted(h) /\ k \in Due(h) /\ reply[h] = None
  /\ list' = [list EXCEPT ![h] = Due(h) \ {k}]
  /\ UNCHANGED <<replica, clock, dev, noting, boot, reply, offer, stale, claims,
                 spent>>

(* merge_remote_json: nothing is stored when only the clock moved, and a   *)
(* head that finds itself evicted leaves.                                  *)
Absorb(h, r) ==
  \/ /\ ~Changes(replica[h], r)
     /\ replica' = [replica EXCEPT ![h] = Merge(replica[h], r)]
     /\ UNCHANGED clock
  \/ /\ Changes(replica[h], r)
     /\ LET merged == Merge(replica[h], r)
        IN  Keep(h, IF h \in Members(merged) THEN merged ELSE Empty)

(* Fairness looks at this part of it alone. *)
Consume(h) == reply[h] # None /\ reply' = [reply EXCEPT ![h] = None]

MergeReply(h) ==
  /\ Consume(h)
  /\ IF InGroup(h) THEN Absorb(h, reply[h]) ELSE UNCHANGED <<replica, clock>>
  /\ UNCHANGED <<dev, noting, boot, list, offer, stale, claims, spent>>

(* A crash: RAM is gone, the clock of the replica back to the one in NVS. *)
Crash(h) ==
  /\ Spend("reboots", MaxReboots)
  /\ replica' = [replica EXCEPT ![h].lamport = clock[h]]
  /\ noting' = [noting EXCEPT ![h] = FALSE]
  /\ list' = [list EXCEPT ![h] = {}]
  /\ reply' = [reply EXCEPT ![h] = None]
  /\ offer' = [offer EXCEPT ![h] = None]
  /\ UNCHANGED <<clock, dev, stale, claims>>

(* Seeded fault: the name is not announced at boot. *)
RebootUnnamed(h) == Crash(h) /\ boot' = [boot EXCEPT ![h] = Booting("done", Blank)]

(* init and the start of group_poll_task, after a crash at any point. *)
Reboot(h) == Crash(h) /\ boot' = [boot EXCEPT ![h] = Booting("ask", Blank)]

-----------------------------------------------------------------------------

(* pairing_start on an ungrouped head: seed_replica_locked. *)
Founded == AddMember(Empty, Founder)

Init ==
  /\ replica = [h \in Heads |-> IF h = Founder THEN Founded ELSE Empty]
  /\ clock = [h \in Heads |-> replica[h].lamport]
  /\ dev \in [Heads -> Text]
  /\ noting = [h \in Heads |-> FALSE] /\ stale = [h \in Heads |-> FALSE]
  /\ boot = [h \in Heads |-> Booting("done", Blank)]
  /\ list = [h \in Heads |-> {}]
  /\ reply = [h \in Heads |-> None]
  /\ offer = [h \in Heads |-> None]
  /\ claims = [h \in Heads |-> IF h = Founder THEN 1 ELSE 0]
  /\ spent = [writes |-> 0, claims |-> 0, reboots |-> 0, lost |-> 0]

Admin(h) ==
  \/ \E v \in Text : LabelGroup(h, v) \/ Rename(h, v)
  \/ \E u \in Heads : Evict(h, u)
  \/ Leave(h)
  \/ \E j \in Heads : Claim(h, j)

Boots(h) == BootAsks(h) \/ BootReads(h) \/ BootNotes(h)

Gossip(h) ==
  \/ Boots(h)
  \/ \E k \in Heads : Poll(h, k) \/ PollFails(h, k)
  \/ MergeReply(h)

Next ==
  \E h \in Heads :
    \/ h \in Writers /\ Admin(h)
    \/ Gossip(h)
    \/ NoteSelfName(h) \/ Join(h) \/ OfferLost(h) \/ Reboot(h)

Spec == Init /\ [][Next]_vars

-----------------------------------------------------------------------------
(* Every replica there is: in memory, in an answer, in an offer. *)
Replicas ==
  {replica[h] : h \in Heads}
    \cup {r \in {reply[h] : h \in Heads} \cup {offer[h] : h \in Heads} : r # None}

(* The clock of a replica covers all it carries, so that the next local    *)
(* write, and above all the next enrolment of a removed head, is later     *)
(* than everything seen: through merges, joins, removals and reboots.      *)
Covered(r) == \A v \in Versions(r) : v <= r.lamport
ClocksCover == \A r \in Replicas : Covered(r)

(* Nobody keeps, sends or hands out a member it knows to be removed, and a *)
(* head never stores a replica it is not in.                               *)
Unvetoed(r) == \A u \in Members(r) : r.add[u] > r.tomb[u]
RemoveWins == \A r \in Replicas : Unvetoed(r)

(* No head has been in the group before it is enrolled.  A second           *)
(* enrolment replaces the joiner's replica, and with it the clock of its   *)
(* earlier writes, by the owner's.                                         *)
NoRejoin == \A h \in Heads : claims[h] <= 1

Agree(h, k) == replica[h] = [replica[k] EXCEPT !.lamport = replica[h].lamport]

(* Nothing is left to exchange between two heads. *)
Settled(h, k) ==
  ~Changes(replica[h], replica[k]) /\ ~Changes(replica[k], replica[h])

(* "Deterministic, commutative, idempotent, associative -> all replicas    *)
(* converge", says merge_replica: two heads of the group that differ still *)
(* have something to tell each other.                                      *)
AllSettledAgree ==
  \A h, k \in {u \in Heads : InGroup(u)} : h < k => Agree(h, k) \/ ~Settled(h, k)

(* The same for a group in which nobody is enrolled twice. *)
SettledAgree == NoRejoin => AllSettledAgree

(* A head in a group is called there what it calls itself, however renames, *)
(* crashes and merges interleave, unless a rename fell between the boot's   *)
(* read of the name and its note, and nothing was noted since.  (A founder *)
(* that has neither been renamed nor rebooted has told nobody its name.)   *)
OwnName ==
  NoRejoin =>
    \A h \in Heads : InGroup(h) /\ Free(h) /\ Booted(h) /\ ~stale[h] =>
      \/ replica[h].name[h].value = dev[h]
      \/ h = Founder /\ replica[h].name[h] = Unwritten

-----------------------------------------------------------------------------
(* The poll task of every head runs for ever, a head that is polled again  *)
(* and again answers at last, and handlers end.                            *)
Fairness ==
  \A h \in Heads :
    /\ WF_vars(NoteSelfName(h) \/ Join(h))
    /\ WF_vars(Boots(h))
    /\ WF_reply(Consume(h))
    /\ WF_vars(\E k \in Heads : PollFails(h, k))
    /\ \A k \in Heads \ {h} : SF_vars(Poll(h, k))

FairSpec == Spec /\ Fairness

(* When the commands stop, every head and each head it lists that is still *)
(* in the group come to agree for good, whoever missed which exchange.     *)
Converges ==
  <>[](NoRejoin =>
         \A h, k \in Heads : InGroup(h) /\ InGroup(k) /\ k \in Peers(h) => Agree(h, k))

(* "the evicted head drops the group on its next poll": a head that a peer *)
(* of its has removed leaves, unless one of the two leaves first or it is   *)
(* enrolled again.                                                         *)
EvictedLeaves ==
  \A h, k \in Heads :
    LET out == InGroup(h) /\ InGroup(k) /\ k \in Peers(h)
                 /\ replica[k].tomb[h] >= replica[h].add[h]
    IN  out ~> ~out
=============================================================================
