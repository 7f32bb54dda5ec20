---------------------------- MODULE MCDurability ----------------------------
(* Durability for TLC: symmetric threads, paths, GUIDs and tokens. *)
EXTENDS Durability, TLC

Symmetry ==
  UNION {Permutations(S) : S \in {Threads, Paths, Guids, Tokens}}
=============================================================================
