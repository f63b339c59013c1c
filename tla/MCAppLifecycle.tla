--------------------------- MODULE MCAppLifecycle ---------------------------
(* Small instances of AppLifecycle for TLC. *)
EXTENDS AppLifecycle, TLC

CONSTANTS a1, a2, n1, t1, t2, r1, r2, c1, c2, c3

OneApp == [a \in {a1} |-> n1]          \* one app
SameName == [a \in {a1, a2} |-> n1]    \* removed and installed again by name

\* Apps of one name, slots and container ids are interchangeable.
Slots == Permutations(Apps) \cup Permutations(Threads) \cup Permutations(Reqs)
             \cup Permutations(Cids)
=============================================================================
