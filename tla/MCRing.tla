------------------------------- MODULE MCRing -------------------------------
(* An instance of Ring for TLC. *)
EXTENDS Ring

\* One request or a batch: two batches can each hold the slot the other waits for.
OneOrTwo == {<<"inline", 1>>, <<"bulk", 2>>}
=============================================================================
