------------------------------- MODULE MCBoot -------------------------------
(* Small instances of Boot for TLC. *)
EXTENDS Boot, TLC

CONSTANTS p1, p2, q1, q2, u1, u2, s1, k1, k2

Blank == [shape |-> 0, stamp |-> 0, owned |-> FALSE, file |-> TRUE, token |-> TRUE,
          identity |-> FALSE, s3 |-> FALSE, named |-> FALSE, legacy |-> FALSE,
          required |-> TRUE, meta |-> "none", bucket |-> "empty"]

\* A managed space that takes over an archive, with a backup or without one; a
\* space of its own in a used bucket, with only a legacy token; an open one
\* without any of it; an upgraded instance; a database older than the versions.
SomeDisks ==
    {[Blank EXCEPT !.identity = TRUE, !.s3 = TRUE, !.named = TRUE, !.bucket = b] :
         b \in {"dump", "data"}}
    \cup {[Blank EXCEPT !.token = FALSE, !.legacy = TRUE, !.s3 = TRUE, !.bucket = "data"],
          [Blank EXCEPT !.required = FALSE, !.token = FALSE],
          [Blank EXCEPT !.shape = 1, !.stamp = 1, !.owned = TRUE, !.file = FALSE, !.meta = "local"],
          [Blank EXCEPT !.shape = 1, !.file = FALSE, !.owned = TRUE]}

\* Processes, requests, usernames and callbacks are interchangeable.
Slots == Permutations(Procs) \cup Permutations(Posts) \cup Permutations(Names)
             \cup Permutations(Conns)
=============================================================================
