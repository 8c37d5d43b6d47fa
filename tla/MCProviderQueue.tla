-------------------------- MODULE MCProviderQueue --------------------------
(* Small instances of ProviderQueue for TLC. *)
EXTENDS ProviderQueue, TLC

CONSTANTS r1, r2, s1, s2, s3

\* Requests of one kind are interchangeable, and so are pooled slots.
Symmetry == Permutations({r1, r2}) \cup Permutations({s1, s2, s3})
=============================================================================
