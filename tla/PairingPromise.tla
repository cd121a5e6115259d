---------------------------- MODULE PairingPromise ----------------------------
(***************************************************************************)
(* What a pairing code promises: it lets one head in, within its time, and *)
(* stands at most MaxTries wrong guesses.  PairingWindow implements this.  *)
(***************************************************************************)
EXTENDS Naturals

CONSTANTS MaxTries,     \* wrong guesses that burn a code
          Heads         \* whom it may let in

VARIABLES open,         \* a code is in force
          left,         \* wrong guesses it will stand yet
          guests        \* whom it has let in

promiseVars == <<open, left, guests>>

Init == open = FALSE /\ left = 0 /\ guests = {}

(* A new code replaces the one before. *)
Offer == open' = TRUE /\ left' = MaxTries /\ guests' = {}

Gone == open' = FALSE /\ left' = 0

Admit(h) == open /\ guests = {} /\ Gone /\ guests' = {h}

Refuse == /\ open /\ left > 0
          /\ left' = left - 1 /\ open' = (left > 1)
          /\ UNCHANGED guests

(* Cancelled, expired, or gone with a reset. *)
Close == Gone /\ UNCHANGED guests

Next == Offer \/ Refuse \/ Close \/ \E h \in Heads : Admit(h)

Spec == Init /\ [][Next]_promiseVars
================================================================================
