------------------------------ MODULE MCOAuth ------------------------------
(* Small instances of OAuth for TLC. *)
EXTENDS OAuth, TLC

CONSTANTS c1, c2, u1, u2, r1, r2

Interchangeable == Permutations(Apps) \cup Permutations(Accounts) \cup Permutations(Reqs)
=============================================================================
