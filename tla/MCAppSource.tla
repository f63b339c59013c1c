---------------------------- MODULE MCAppSource ----------------------------
(* Small instances of AppSource for TLC. *)
EXTENDS AppSource, TLC

CONSTANTS a1, a2, n1, n2, n3, r1, r2

\* Commit 1 asks for a permission and maps a port, 2 has a manifest that does not parse.
MCDeclares == [c \in Commits |-> IF c = 1 THEN {"p"} ELSE {}]
MCMaps == [c \in Commits |-> c = 1]

\* A built-in app and a name that is in every path are not like the others.
Interchangeable == Permutations(Reqs) \cup Permutations(Names \ {Root})
=============================================================================
