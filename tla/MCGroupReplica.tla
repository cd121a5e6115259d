--------------------------- MODULE MCGroupReplica ---------------------------
(***************************************************************************)
(* Instance of GroupReplica for TLC that starts where pairing has ended:   *)
(* all heads are in the group, all know everything, and each has announced *)
(* its name.  The whole life of a group of two is checked from Init.       *)
(***************************************************************************)
EXTENDS GroupReplica, SequencesExt

(* The founder has enrolled the others, in the order of their uids. *)
Paired ==
  LET Enrol(r, j) == SetName(AddMember(r, j), j, dev[j], j)
      first == SetName(Founded, Founder, dev[Founder], Founder)
  IN  FoldLeft(Enrol, first, SetToSortSeq(Heads \ {Founder}, <))

PairedInit ==
  /\ dev = [h \in Heads |-> CHOOSE v \in Text : v # Blank]
  /\ replica = [h \in Heads |-> Paired]
  /\ clock = [h \in Heads |-> replica[h].lamport]
  /\ noting = [h \in Heads |-> FALSE] /\ stale = [h \in Heads |-> FALSE]
  /\ boot = [h \in Heads |-> Booting("done", Blank)]
  /\ list = [h \in Heads |-> {}]
  /\ reply = [h \in Heads |-> None]
  /\ offer = [h \in Heads |-> None]
  /\ claims = [h \in Heads |-> 1]
  /\ spent = [writes |-> 0, claims |-> 0, reboots |-> 0, lost |-> 0]

PairedSpec == PairedInit /\ [][Next]_vars
=============================================================================
