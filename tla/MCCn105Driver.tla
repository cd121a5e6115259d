--------------------------- MODULE MCCn105Driver ---------------------------
(***************************************************************************)
(* Instance of Cn105Driver for TLC.  The safety runs identify states that   *)
(* differ by a renaming of the values; no definition names one of them.    *)
(* Liveness runs do not use the symmetry.                                  *)
(***************************************************************************)
EXTENDS Cn105Driver, TLC

Symmetry == Permutations(Value)
=============================================================================
