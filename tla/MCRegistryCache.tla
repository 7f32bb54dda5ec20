-------------------------- MODULE MCRegistryCache --------------------------
(* Instances of RegistryCache for TLC. *)
EXTENDS RegistryCache, TLC

CONSTANTS p1, p2, r1, r2

\* Two threads of one process share its cache; the other process has none
\* that reads, but its ring must be published to.
OneProcess == r1 :> p1 @@ r2 :> p1

\* Readers of one process are alike.
Symmetry == Permutations(Writers) \cup Permutations(Readers)
=============================================================================
