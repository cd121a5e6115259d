---------------------------- MODULE MCGroupSync ----------------------------
(***************************************************************************)
(* Instance of GroupSync for TLC.  One zone starts cooling, the other off, *)
(* cooling or in AUTO: heating mirrors cooling, since a resolution may     *)
(* have either target, and the mode a zone retains while it is off decides *)
(* nothing.                                                                *)
(***************************************************************************)
EXTENDS GroupSync, TLC

Symmetry == Permutations(Heads)

MCInit ==
  /\ Init
  /\ \A h \in Heads : want[h].on <=> want[h].mode # "HEAT"
  /\ \E h \in Heads : want[h].mode = "COOL"

MCSpec == MCInit /\ [][Next]_vars
=============================================================================
