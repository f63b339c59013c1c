------------------------------ MODULE MCDomains ------------------------------
(* Instances of Domains.tla for TLC. *)
EXTENDS Domains, TLC

CONSTANTS p, a, l, r1, r2

Slots == Permutations({r1, r2})
=============================================================================
