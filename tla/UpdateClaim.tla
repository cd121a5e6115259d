------------------------------ MODULE UpdateClaim ------------------------------
(***************************************************************************)
(* What the update pipeline promises, whichever way an image arrives: one  *)
(* updater at a time, and nobody but that updater touches the slot that is *)
(* being replaced.  Only a power cycle takes the pipeline from it.         *)
(* FirmwareUpdate implements this module.                                  *)
(***************************************************************************)
CONSTANTS Updaters,     \* the ways an image arrives
          Contents      \* what the slot that is not running may hold

VARIABLES updating,     \* the updaters at work
          spare         \* what the slot that is not running holds

claimVars == <<updating, spare>>

Init == updating = {} /\ spare \in Contents

Take(u) == updating = {} /\ updating' = {u} /\ UNCHANGED spare

Write(u) == updating = {u} /\ spare' \in Contents /\ UNCHANGED updating

Give(u) == updating = {u} /\ updating' = {} /\ UNCHANGED spare

PowerCycle == updating' = {} /\ spare' \in Contents

Next == \/ \E u \in Updaters : Take(u) \/ Write(u) \/ Give(u)
        \/ PowerCycle

Spec == Init /\ [][Next]_claimVars
================================================================================
