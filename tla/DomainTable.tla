----------------------------- MODULE DomainTable -----------------------------
(***************************************************************************)
(* What the domains API promises its callers: a set of names, one of them   *)
(* primary, changed one operation at a time.  A name is added once, the     *)
(* primary cannot be removed and only a name of the table can be promoted.  *)
(* Domains.tla implements it with handlers, threads and a crash between any *)
(* two steps.                                                               *)
(***************************************************************************)
CONSTANTS Names, First      \* the names in question; the seeded primary

VARIABLES table, primary

tableVars == <<table, primary>>

Init == table = {First} /\ primary = First

Add(d) ==
    /\ d \notin table
    /\ table' = table \cup {d} /\ UNCHANGED primary

Remove(d) ==
    /\ d \in table \ {primary}
    /\ table' = table \ {d} /\ UNCHANGED primary

Promote(d) ==
    /\ d \in table \ {primary}
    /\ primary' = d /\ UNCHANGED table

Next == \E d \in Names : Add(d) \/ Remove(d) \/ Promote(d)

Spec == Init /\ [][Next]_tableVars
=============================================================================
