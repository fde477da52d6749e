----------------------------- MODULE MCContain -----------------------------
(* Containment at the size that TLC explores.                              *)
EXTENDS Contain, TLC

Symmetry == Permutations(Addrs)
=============================================================================
