---------------------------- MODULE DurableRegister ----------------------------
(***************************************************************************)
(* What a session's registry layer promises its user: one value, versioned  *)
(* by the writes to it.  A write changes it at once.  A failure may take     *)
(* back writes, newest first, but never past `kept`, the version the last    *)
(* durable point reached; a durable point moves `kept` up.  Damage to the    *)
(* stored file from outside starts the layer over, once.                     *)
(***************************************************************************)
EXTENDS Naturals

VARIABLES
  value,   \* the version every reader sees
  kept,    \* the version no failure goes below
  spoiled  \* the stored file was damaged from outside

Init == value = 0 /\ kept = 0 /\ spoiled = FALSE

Write == value' = value + 1 /\ UNCHANGED <<kept, spoiled>>

DurablePoint == kept' \in kept .. value /\ UNCHANGED <<value, spoiled>>

Lose == value' \in kept .. value /\ kept' \in kept .. value' /\ UNCHANGED spoiled

Spoil == ~spoiled /\ spoiled' = TRUE /\ value' = 0 /\ kept' = 0

Next == Write \/ DurablePoint \/ Lose \/ Spoil

Spec == Init /\ [][Next]_<<value, kept, spoiled>>
=============================================================================
