----------------------------- MODULE UpdateWalk -----------------------------
(***************************************************************************)
(* Which ref a host checks out next.  An update walks through the release  *)
(* tags in version order and ends on the newest release, on the newest     *)
(* release candidate when the owner opted in and it is newer, or on the    *)
(* branch or commit the owner pinned.  Before each step the walk looks at  *)
(* the repository and its git config afresh: it is an exec of the code     *)
(* that was just checked out, and the owner may change the settings from   *)
(* the command line in between.  update.py and apply_after_checkout.py     *)
(* hold one copy each of the functions below, meant to be the same.        *)
(***************************************************************************)
EXTENDS Naturals, FiniteSetsExt

CONSTANTS
    N,          \* bound: commits
    K,          \* bound: version tags
    MaxSet      \* bound: changes of the settings

ASSUME WalkBoundsAssumption == N \in Nat \ {0} /\ K \in Nat /\ MaxSet \in Nat

\* A tag is its rank in the order of _version_key; 0 is None, for a tag as for a
\* commit. Gone is a pinned ref that does not resolve.
Commits == 1..N
Tags == 1..K
Gone == N + 1

VARIABLES
    history,    \* the commits a commit contains, itself included
    at,         \* a tag's commit; 0 if there is no such tag
    rcs,        \* the tags that are release candidates
    head,       \* HEAD
    target,     \* openhost.target-ref, resolved; 0 on the tags channel
    pre,        \* openhost.prereleases
    walker,     \* "idle", "walking" or "failed"
    nset        \* changes of the settings

repo == <<history, at, rcs>>
walkVars == <<repo, head, target, pre, walker, nset>>

WalkTypeOK ==
    /\ history \in [Commits -> SUBSET Commits]
    /\ at \in [Tags -> 0..N] /\ rcs \subseteq Tags
    /\ head \in Commits
    /\ target \in 0..Gone /\ pre \in BOOLEAN
    /\ walker \in {"idle", "walking", "failed"}
    /\ nset \in 0..MaxSet

-----------------------------------------------------------------------------
(* The repository *)

\* Histories, merges included: what the parents of a commit contain, it contains,
\* and all begin with the root. Commits are numbered parents first.
Histories ==
    {h \in [Commits -> SUBSET Commits] :
        \A c \in Commits :
            /\ {1, c} \subseteq h[c] /\ h[c] \subseteq 1..c
            /\ \A d \in h[c] : h[d] \subseteq h[c]}

\* git merge-base --is-ancestor, and git tag --merged.
Ancestors(c) == history[c]

Present == {t \in Tags : at[t] # 0}
ReleaseTags == Present \ rcs
Highest(ts) == IF ts = {} THEN 0 ELSE Max(ts)

\* Versions grow along the history, and tags that share a commit are a release
\* and its candidates: no other tag lies between them.
WellTagged ==
    \A t, u \in Present : t < u =>
        /\ at[t] # at[u] => at[u] \notin Ancestors(at[t])
        /\ at[t] = at[u] => \A v \in Present : t < v /\ v < u => at[v] = at[t]

NewestCandidate == Highest(Present \cap rcs)

\* Mutant: the tag that describes HEAD, be it the lowest.
CurrentTagDescribed ==
    LET here == {t \in Present : at[t] = head} IN IF here = {} THEN 0 ELSE Min(here)

CurrentTag == Highest({t \in Present : at[t] = head})

LatestAncestorTag == Highest({t \in Present : at[t] \in Ancestors(head)})

Base == IF CurrentTag # 0 THEN CurrentTag ELSE LatestAncestorTag

-----------------------------------------------------------------------------
(* Deciding *)

\* Mutant: the opted-in host's destination is the latest release all the same.
TagsDestinationRelease == Highest(ReleaseTags)

TagsDestination == Highest(ReleaseTags \cup (IF pre THEN {NewestCandidate} ELSE {}))

FetchUpdates ==
    IF target = Gone THEN "ERROR"
    ELSE IF target # 0 THEN IF head # target THEN "BEHIND_REMOTE" ELSE "UP_TO_DATE"
    ELSE IF Base < TagsDestination THEN "BEHIND_REMOTE" ELSE "UP_TO_DATE"

\* Mutant: stepping stones need not lead to the pinned target.
LaterAnywhere == {t \in ReleaseTags : t > Base}

\* The release tags to step through, the pinned target containing them.
Later == {t \in ReleaseTags : t > Base /\ (target # 0 => at[t] \in Ancestors(target))}

\* Mutant: straight to the newest release.
NextStepLast ==
    IF target = head THEN 0
    ELSE IF Later # {} THEN at[Max(Later)]
    ELSE IF target # 0 THEN target
    ELSE IF pre /\ NewestCandidate > Base THEN at[NewestCandidate] ELSE 0

\* The commit to check out next; 0 when the host is there. (For target # Gone.)
NextStep ==
    IF target = head THEN 0
    ELSE IF Later # {} THEN at[Min(Later)]
    ELSE IF target # 0 THEN target
    ELSE IF pre /\ NewestCandidate > Base THEN at[NewestCandidate] ELSE 0

-----------------------------------------------------------------------------
(* Walking *)

WalkInit ==
    /\ history \in Histories
    /\ at \in [Tags -> 0..N] /\ rcs \in SUBSET Tags
    /\ \A t \in rcs : at[t] # 0
    /\ WellTagged
    /\ head \in Commits /\ target \in 0..Gone /\ pre \in BOOLEAN
    /\ walker = "idle" /\ nset = 0

\* apply_update: without a tag or a pin there is nothing to walk to.
Start ==
    /\ walker # "walking"
    /\ walker' = IF Present = {} /\ target = 0 THEN "failed" ELSE "walking"
    /\ UNCHANGED <<repo, head, target, pre, nset>>

\* Check out the next ref, its resolved commit, and exec its code; or stop.
Step ==
    /\ walker = "walking" /\ target # Gone
    /\ IF NextStep = 0 THEN walker' = "idle" /\ UNCHANGED head
                       ELSE head' = NextStep /\ UNCHANGED walker
    /\ UNCHANGED <<repo, target, pre, nset>>

\* A pin that does not resolve ends the walk.
Lost ==
    /\ walker = "walking" /\ target = Gone
    /\ walker' = "failed"
    /\ UNCHANGED <<repo, head, target, pre, nset>>

\* set_remote_url resolves a new pin before it stores it.
SetRemote ==
    /\ nset < MaxSet /\ nset' = nset + 1
    /\ target' \in 0..N
    /\ UNCHANGED <<repo, head, pre, walker>>

SetPrereleases ==
    /\ nset < MaxSet /\ nset' = nset + 1
    /\ pre' \in BOOLEAN
    /\ UNCHANGED <<repo, head, target, walker>>

WalkNext == Start \/ Step \/ Lost \/ SetRemote \/ SetPrereleases

WalkSpec == WalkInit /\ [][WalkNext]_walkVars

\* The walk is one process; each of its commands has a timeout.
FairWalkSpec == WalkSpec /\ WF_walkVars(Step \/ Lost)

-----------------------------------------------------------------------------
(* Properties *)

\* A walk ends: it does not oscillate between a tag and the pinned target, step
\* onto a commit's other tag for ever, or go back and forth between a candidate
\* and an older line's release.
WalkEnds == walker = "walking" ~> walker # "walking"

\* What the dashboard reports and what the walk would do are two functions; they
\* agree on whether there is an update.
CheckAgrees == target # Gone => (FetchUpdates = "BEHIND_REMOTE" <=> NextStep # 0)

hop == walker = "walking" /\ head' # head

\* A step towards a pinned target stays in the target's history: "the walk stays
\* monotonic toward the target instead of ping-ponging". Without one, a host on a
\* candidate "is never walked back to an older line's release": the step reaches
\* a tag above every one the host contains.
GoesForward ==
    [][hop => IF target # 0 THEN head' \in Ancestors(target)
              ELSE \A t \in Present : at[t] \in Ancestors(head) =>
                       \E u \in Present : t < u /\ at[u] \in Ancestors(head')]_walkVars

\* A step passes over no release that leads to the destination: each one's
\* migrations run in its own code.
NoStoneSkipped ==
    [][hop => \A t \in ReleaseTags :
           Base < t /\ t < Base' /\ (target # 0 => at[t] \in Ancestors(target)) => at[t] = head']_walkVars
=============================================================================
