----------------------------- MODULE MCServices -----------------------------
(* Small instances of Services for TLC: a service of an app, and one that *)
(* the router provides itself.                                            *)
EXTENDS Services, TLC

CONSTANTS mail, defs
Svc(m, d) == [s \in {mail, defs} |-> IF s = mail THEN m ELSE d]

\* Three releases of a manifest: each provides more, the last needs a service.
Bare == [provides |-> Svc(0, 0), needs |-> Svc(0, 0)]
Old == [provides |-> Svc(1, 0), needs |-> Svc(0, 0)]
New == [provides |-> Svc(2, 1), needs |-> Svc(1, 0)]
MCManifests == {Bare, Old, New}
MCServiceUrls == {mail, defs}
MCBuiltins == {defs}

\* Names and session tokens are interchangeable.
Symmetry == Permutations(Names) \cup Permutations(Sessions)
=============================================================================
