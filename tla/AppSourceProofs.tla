-------------------------- MODULE AppSourceProofs --------------------------
(***************************************************************************)
(* Proofs about AppSource, for any sets of apps, names, commits and        *)
(* permissions, any number of tiers, requests, operations and failures.    *)
(*                                                                         *)
(* A name is claimed by the app whose row has it and by whoever is at work *)
(* under it.  Two apps with a claim on one name are both spoiled, and all  *)
(* an actor writes is under names its app claims: so what holds of an app  *)
(* that is not spoiled is changed by its own actors only, and it has one   *)
(* at a time.                                                              *)
(***************************************************************************)
EXTENDS AppSource, FiniteSetTheorems, WellFoundedInduction, TLAPS

-----------------------------------------------------------------------------
(* The inductive invariant *)

Settled == {"running", "stopped", "error"}
Installing == {"cloned", "pick", "insert"}
Updating == {"pull", "gate", "roll back", "claim"}
Renaming == {"move", "undo", "name"}

IdleReq == [pc : {"idle"}]
CloneReq == [pc : {"cloned"}, app : Apps, commit : Commits]
PickReq == [pc : {"pick"}, app : Apps, to : Names]
InsertReq == [pc : {"insert"}, app : Apps, to : Names, local : Ports, host : Ports \cup {0}]
UpdateReq == [pc : Updating, app : Apps, approve : BOOLEAN, again : BOOLEAN, retried : BOOLEAN,
              path : Names, man : Commits, pre : Commits]
RenameReq == {q \in [pc : Renaming, app : Apps, from : Names, to : Names, was : Statuses,
                     tier : Nat, moved : SUBSET (1..Tiers)] :
                q.pc = "move" => q.tier \in 1..Tiers}
Worker == [pc : {"copy", "sync", "build", "run"}, path : Names \cup {None}, img : Commits \cup {None}, loop : BOOLEAN]

RowsType ==
    /\ rows \in [Apps -> AppRow \cup {None}]
    /\ \A a, b \in Apps : Exists(a) /\ Exists(b) /\ a # b => rows[a].name # rows[b].name
CodeType ==
    /\ dir \in [1..Tiers -> [Names -> Apps \cup {None}]]
    /\ tree \in [Apps -> Commits \cup {None}] /\ code \in [Apps -> Commits \cup {None}]
    /\ up \in [Apps -> Commits] /\ resume \subseteq Apps /\ spoiled \subseteq Apps
OwnerType ==
    /\ grants \in [Apps -> SUBSET Perms]
    /\ accepted \in [Apps -> [perms : SUBSET Perms, maps : SUBSET BOOLEAN]]
ActorsType ==
    /\ req \in [Reqs -> IdleReq \cup CloneReq \cup PickReq \cup InsertReq \cup UpdateReq \cup RenameReq]
    /\ worker \in [Apps -> Worker \cup {Idle}]
BoundsType == ops \in 0..MaxOps /\ faults \in 0..MaxFaults

\* A request is at work on an app.
On(r, a) == req[r].pc # "idle" /\ req[r].app = a

\* An id without a checkout has nothing else, one that is being installed has
\* nothing but the request that does it, and only an app has a container.
FreshOK(a) ==
    /\ tree[a] = None =>
         /\ ~Exists(a) /\ worker[a] = Idle
         /\ \A t \in 1..Tiers, n \in Names : dir[t][n] # a
         /\ \A r \in Reqs : On(r, a) => req[r].pc = "cloned"
    /\ \A r \in Reqs : On(r, a) /\ req[r].pc \in Installing =>
         /\ ~Exists(a) /\ worker[a] = Idle
         /\ \A q \in Reqs : On(q, a) => q = r
         /\ req[r].pc = "cloned" => tree[a] = None
    /\ ~Exists(a) => code[a] = None

\* One actor at a time works on an app that is not spoiled.
AloneOK(a) ==
    /\ \A r, q \in Reqs : On(r, a) /\ On(q, a) => r = q
    /\ \A r \in Reqs : On(r, a) => worker[a] = Idle

\* The owner accepted what a commit asks for, or is not asked about it; or it is one
\* that cannot be launched.
Vetted(a, c) == a \in Builtin \/ Accepted(a, c)
Known(a, c) == Vetted(a, c) \/ c \in Broken

\* What the owner accepted of an app, and where it comes from.
OwnedOK(a) ==
    /\ Vetted(a, rows[a].man) /\ grants[a] \subseteq accepted[a].perms
    /\ code[a] # None => Vetted(a, code[a])
    /\ rows[a].path = rows[a].name

\* The directory of an app in a tier has a name; the temporary one has no other.
Lives(a, t, n) == dir[t][n] = a /\ (t = Tmp => \A m \in Names : dir[t][m] = a => m = n)
Home(a) == \A t \in 1..Tiers : Lives(a, t, rows[a].name)

\* A commit fits the row of an app in some status: it is that of the row and where
\* its path leads, or the last launch ended in an error.
Fits(a, c, st) == Known(a, c) /\ ((c = rows[a].man /\ ~Lost(a)) \/ st \in {"error", "stopped"})

\* What the actor of an app has brought about.  The directories are under the new
\* name in the tiers that a rename has moved.
UpdateOK(a, q) ==
    /\ q.path = rows[a].name /\ Home(a) /\ ~Lost(a) /\ a \notin Builtin
    /\ rows[a].status \in Settled /\ q.man = rows[a].man
    /\ q.pc = "pull" => q.pre = tree[a]
    /\ q.pc # "claim" => Fits(a, q.pre, rows[a].status)
    /\ q.pc = "claim" => Known(a, tree[a])
RenameOK(a, q) ==
    /\ q.from = rows[a].name /\ q.from # q.to
    /\ \A t \in 1..Tiers : Lives(a, t, IF t \in q.moved THEN q.to ELSE q.from)
    /\ q.pc = "move" => q.moved = 1..(q.tier - 1)
    /\ q.pc = "name" => q.moved = 1..Tiers
    /\ rows[a].status \in {"stopped", "error"} /\ q.was \in Settled
    /\ Fits(a, tree[a], q.was)
ReqOK(a, q) ==
    /\ q.pc \in {"pick", "insert"} => Lives(a, Tmp, q.to)
    /\ q.pc \in Updating /\ Exists(a) => UpdateOK(a, q)
    /\ q.pc \in Renaming /\ Exists(a) => RenameOK(a, q)
WorkerOK(a) ==
    /\ worker[a].path = Path(a) /\ Home(a)
    /\ Known(a, tree[a]) /\ (rows[a].status = "running" => ~Lost(a))
    /\ worker[a].pc \in {"build", "run"} => tree[a] = rows[a].man
    /\ worker[a].pc = "run" => worker[a].img = tree[a] /\ ~Lost(a)
RestOK(a) == Home(a) /\ rows[a].status \in Settled /\ Fits(a, tree[a], rows[a].status)

SoundOK(a) ==
    /\ AloneOK(a)
    /\ Exists(a) => OwnedOK(a)
    /\ \A r \in Reqs : On(r, a) => ReqOK(a, req[r])
    /\ Exists(a) /\ worker[a] # Idle => WorkerOK(a)
    /\ Exists(a) /\ ~Busy(a) => RestOK(a)
AppOK(a) == FreshOK(a) /\ (a \notin spoiled => SoundOK(a))
AppsOK == \A a \in Apps : AppOK(a)

\* The apps with a claim on a name: if there are two, both are spoiled.
Claims(n) == {a \in Apps : Exists(a) /\ rows[a].name = n} \cup Wanted(n)
ClaimsOK == \A n \in Names : \A a, b \in Claims(n) : a # b => a \in spoiled

Types == RowsType /\ CodeType /\ OwnerType /\ ActorsType /\ BoundsType
IInv == Types /\ ClaimsOK /\ AppsOK

-----------------------------------------------------------------------------
(* Lemmas about the operators *)

\* A non-empty set of numbers has a least one.
LEMMA MinIsThere ==
    ASSUME NEW S \in SUBSET Nat, S # {}
    PROVE  Min(S) \in S /\ \A y \in S : Min(S) <= y
  <1> DEFINE R == OpToRel(<, Nat)
  <1>1. \A m, n \in Nat : m < n => <<m, n>> \in R
    BY DEF OpToRel
  <1>2. IsWellFoundedOn(R, Nat)
    BY NatLessThanWellFounded
  <1> HIDE DEF R
  <1>3. PICK n \in S : \A m \in S : <<m, n>> \notin R
    BY <1>2, WFMin
  <1>4. \A y \in S : n <= y
    <2> SUFFICES ASSUME NEW y \in S PROVE n <= y
      OBVIOUS
    <2>1. ~(y < n)
      BY <1>1, <1>3
    <2> QED
      BY <2>1
  <1> QED
    BY <1>4 DEF Min

\* A non-empty set of tiers has a last one.
LEMMA MaxIsThere ==
    ASSUME NEW S \in SUBSET (1..Tiers), S # {}
    PROVE  Max(S) \in S
  <1> DEFINE T == {Tiers - y : y \in S}
  <1>1. Tiers \in Nat
    BY AppSourceAssumption
  <1>2. T \in SUBSET Nat /\ T # {}
    <2>1. \A y \in S : Tiers - y \in Nat
      BY <1>1
    <2> QED
      BY <2>1
  <1>3. PICK m \in T : \A y \in T : m <= y
    <2> HIDE DEF T
    <2> QED
      BY <1>2, MinIsThere
  <1>4. PICK x \in S : m = Tiers - x
    OBVIOUS
  <1>5. \A y \in S : x >= y
    <2> SUFFICES ASSUME NEW y \in S PROVE x >= y
      OBVIOUS
    <2>1. Tiers - x <= Tiers - y
      BY <1>3, <1>4
    <2> QED
      BY <1>1, <2>1
  <1> QED
    BY <1>5 DEF Max

\* What the operators on directories do, tier by tier and name by name.
DirType(d) == d \in [1..Tiers -> [Names -> Apps \cup {None}]]

LEMMA TmpTier == Tmp \in 1..Tiers
  BY AppSourceAssumption DEF Tmp

LEMMA MovedInIs ==
    ASSUME DirType(dir), NEW n \in Names, NEW a \in Apps
    PROVE  /\ DirType(MovedIn(n, a))
           /\ \A t \in 1..Tiers, m \in Names :
                MovedIn(n, a)[t][m] = IF t = Tmp /\ m = n THEN a ELSE dir[t][m]
  <1> DEFINE d == [dir[Tmp] EXCEPT ![n] = a]
  <1>1. MovedIn(n, a) = [dir EXCEPT ![Tmp] = d]
    BY TmpTier DEF MovedIn, DirType
  <1>2. d \in [Names -> Apps \cup {None}] /\ \A m \in Names : d[m] = IF m = n THEN a ELSE dir[Tmp][m]
    BY TmpTier DEF DirType
  <1> HIDE DEF d
  <1> QED
    BY <1>1, <1>2, TmpTier DEF DirType

LEMMA MadeIs ==
    ASSUME DirType(dir), NEW n \in Names, NEW a \in Apps
    PROVE  /\ DirType(Made(n, a))
           /\ \A t \in 1..Tiers, m \in Names :
                Made(n, a)[t][m] = IF m = n /\ t # Tmp /\ dir[t][n] = None THEN a ELSE dir[t][m]
  <1> DEFINE d(t) == [dir[t] EXCEPT ![n] = IF t = Tmp \/ @ # None THEN @ ELSE a]
  <1>1. Made(n, a) = [t \in 1..Tiers |-> d(t)]
    BY DEF Made
  <1>2. ASSUME NEW t \in 1..Tiers
        PROVE  /\ d(t) \in [Names -> Apps \cup {None}]
               /\ \A m \in Names : d(t)[m] = IF m = n /\ t # Tmp /\ dir[t][n] = None THEN a ELSE dir[t][m]
    BY DEF DirType
  <1> HIDE DEF d
  <1> QED
    BY <1>1, <1>2 DEF DirType

LEMMA TakenOverIs ==
    ASSUME DirType(dir), NEW n \in Names, NEW a \in Apps
    PROVE  /\ DirType(TakenOver(n, a))
           /\ \A t \in 1..Tiers, m \in Names :
                TakenOver(n, a)[t][m] = IF m = n /\ t # Tmp THEN a ELSE dir[t][m]
  <1> DEFINE d(t) == [dir[t] EXCEPT ![n] = IF t = Tmp THEN @ ELSE a]
  <1>1. TakenOver(n, a) = [t \in 1..Tiers |-> d(t)]
    BY DEF TakenOver
  <1>2. ASSUME NEW t \in 1..Tiers
        PROVE  /\ d(t) \in [Names -> Apps \cup {None}]
               /\ \A m \in Names : d(t)[m] = IF m = n /\ t # Tmp THEN a ELSE dir[t][m]
    BY DEF DirType
  <1> HIDE DEF d
  <1> QED
    BY <1>1, <1>2 DEF DirType

LEMMA DeprovisionedIs ==
    ASSUME DirType(dir), NEW n \in Names, NEW keep \in BOOLEAN
    PROVE  /\ DirType(Deprovisioned(n, keep))
           /\ \A t \in 1..Tiers, m \in Names :
                \/ Deprovisioned(n, keep)[t][m] = dir[t][m]
                \/ m = n /\ Deprovisioned(n, keep)[t][m] = None
  <1> DEFINE d(t) == IF keep /\ t # Tmp THEN dir[t] ELSE [dir[t] EXCEPT ![n] = None]
  <1>1. Deprovisioned(n, keep) = [t \in 1..Tiers |-> d(t)]
    BY DEF Deprovisioned
  <1>2. ASSUME NEW t \in 1..Tiers
        PROVE  /\ d(t) \in [Names -> Apps \cup {None}]
               /\ \A m \in Names : d(t)[m] = dir[t][m] \/ (m = n /\ d(t)[m] = None)
    BY DEF DirType
  <1> HIDE DEF d
  <1> QED
    BY <1>1, <1>2 DEF DirType

LEMMA MovedIs ==
    ASSUME DirType(dir), NEW t \in 1..Tiers, NEW from \in Names, NEW to \in Names
    PROVE  /\ DirType(Moved(t, from, to))
           /\ \A u \in 1..Tiers, m \in Names :
                Moved(t, from, to)[u][m] = IF u # t THEN dir[u][m]
                                           ELSE IF m = from THEN None
                                           ELSE IF m = to THEN dir[t][from] ELSE dir[t][m]
  <1> DEFINE d == [[dir[t] EXCEPT ![to] = dir[t][from]] EXCEPT ![from] = None]
  <1>1. Moved(t, from, to) = [dir EXCEPT ![t] = d]
    BY DEF Moved, DirType
  <1>2. /\ d \in [Names -> Apps \cup {None}]
        /\ \A m \in Names : d[m] = IF m = from THEN None ELSE IF m = to THEN dir[t][from] ELSE dir[t][m]
    BY DEF DirType
  <1> HIDE DEF d
  <1> QED
    BY <1>1, <1>2 DEF DirType

\* A request's step tells what its record holds.
LEMMA ReqShape ==
    ASSUME ActorsType, NEW r \in Reqs
    PROVE  /\ req[r].pc = "idle" => req[r] = Idle
           /\ req[r].pc = "cloned" => req[r] \in CloneReq
           /\ req[r].pc = "pick" => req[r] \in PickReq
           /\ req[r].pc = "insert" => req[r] \in InsertReq
           /\ req[r].pc \in Updating => req[r] \in UpdateReq
           /\ req[r].pc \in Renaming => req[r] \in RenameReq
           /\ req[r].pc \in {"idle"} \cup Installing \cup Updating \cup Renaming
           /\ req[r].pc # "idle" => req[r].app \in Apps
  BY DEF ActorsType, Idle, IdleReq, CloneReq, PickReq, InsertReq, UpdateReq, RenameReq,
         Installing, Updating, Renaming

LEMMA WorkerShape ==
    ASSUME ActorsType, NEW a \in Apps
    PROVE  /\ worker[a].pc = "idle" <=> worker[a] = Idle
           /\ worker[a] # Idle => worker[a] \in Worker
  BY DEF ActorsType, Idle, Worker

\* The names each step of a request is about.
LEMMA NamesOfAre ==
    /\ NamesOf(Idle) = {}
    /\ \A q \in CloneReq : NamesOf(q) = {}
    /\ \A q \in PickReq \cup InsertReq : NamesOf(q) = {q.to}
    /\ \A q \in UpdateReq : NamesOf(q) = {q.path}
    /\ \A q \in RenameReq : NamesOf(q) = {q.from, q.to}
  <1>1. NamesOf(Idle) = {}
    BY DEF NamesOf, Idle
  <1>2. \A q \in CloneReq : NamesOf(q) = {}
    BY DEF NamesOf, CloneReq
  <1>3. \A q \in PickReq \cup InsertReq : NamesOf(q) = {q.to}
    BY DEF NamesOf, PickReq, InsertReq
  <1>4. \A q \in UpdateReq : NamesOf(q) = {q.path}
    BY DEF NamesOf, UpdateReq, Updating
  <1>5. \A q \in RenameReq : NamesOf(q) = {q.from, q.to}
    BY DEF NamesOf, RenameReq, Renaming
  <1> QED
    BY <1>1, <1>2, <1>3, <1>4, <1>5

\* Who has a claim on a name, and by what.
ClaimedBy(a, n) ==
    \/ Exists(a) /\ n \in {rows[a].name, rows[a].path}
    \/ \E r \in Reqs : On(r, a) /\ n \in NamesOf(req[r])
    \/ worker[a] # Idle /\ worker[a].path = n

Claimed == ActorsType => \A n \in Names, a \in Apps : a \in Claims(n) <=> ClaimedBy(a, n)

LEMMA ClaimsAre == Claimed
  <1> SUFFICES ASSUME ActorsType, NEW n \in Names, NEW a \in Apps
               PROVE  a \in Claims(n) <=> ClaimedBy(a, n)
    BY DEF Claimed
  <1>1. \A r \in Reqs : n \in NamesOf(req[r]) => req[r].pc # "idle"
    BY ReqShape, NamesOfAre
  <1>2. worker[a].pc = "idle" <=> worker[a] = Idle
    BY WorkerShape
  <1> QED
    BY <1>1, <1>2 DEF Claims, ClaimedBy, Wanted, On

ClaimsInApps == ActorsType => \A n \in Names : Claims(n) \subseteq Apps

LEMMA ClaimsAreApps == ClaimsInApps
  <1> SUFFICES ASSUME ActorsType, NEW n \in Names PROVE Claims(n) \subseteq Apps
    BY DEF ClaimsInApps
  <1>1. \A r \in Reqs : n \in NamesOf(req[r]) => req[r].app \in Apps
    BY ReqShape, NamesOfAre
  <1> QED
    BY <1>1 DEF Claims, Wanted

\* Somebody is at work on an app: the words of the module.
BusyIsOn == \A a \in Apps : Busy(a) <=> (worker[a] # Idle \/ \E r \in Reqs : On(r, a))

LEMMA BusyMeansOn == BusyIsOn
  BY DEF Busy, On, BusyIsOn

LEMMA BusyIs ==
    ASSUME NEW a \in Apps
    PROVE  Busy(a) <=> (worker[a] # Idle \/ \E r \in Reqs : On(r, a))
  BY BusyMeansOn DEF BusyIsOn

-----------------------------------------------------------------------------
(* Steps by one app                                                        *)

\* A step that an actor of a takes, or that begins one: what is written is a's
\* own, or under names a has a claim on.
OwnRows(a) ==
    /\ spoiled \subseteq spoiled'
    /\ \A b \in Apps \ {a} : /\ rows'[b] = rows[b] /\ worker'[b] = worker[b] /\ code'[b] = code[b]
                             /\ grants'[b] = grants[b] /\ accepted'[b] = accepted[b]
OwnReqs(a) ==
    \A r \in Reqs :
      \/ req'[r] = req[r]
      \/ (req[r].pc = "idle" \/ req[r].app = a) /\ (req'[r].pc = "idle" \/ req'[r].app = a)
OwnDirs(a) ==
    /\ \A b \in Apps \ {a} :
         /\ \/ tree'[b] = tree[b]
            \/ tree'[b] # None /\ \E m \in Names : a \in Claims(m) /\ dir[Tmp][m] = b
         /\ \A t \in 1..Tiers, m \in Names : dir'[t][m] = b =>
              dir[t][m] = b \/ \E n \in Names : a \in Claims(n) /\ dir[t][n] = b
    /\ \A m \in Names : a \in Claims(m) \/ a \in Claims(m)' \/ \A t \in 1..Tiers : dir'[t][m] = dir[t][m]
OwnClaims(a) ==
    \A m \in Names : a \in Claims(m)' /\ a \notin Claims(m) =>
      \A b \in Claims(m) \ {a} : {a, b} \subseteq spoiled'
ByApp(a) == OwnRows(a) /\ OwnReqs(a) /\ OwnDirs(a) /\ OwnClaims(a)

\* The requests of the others are where they were.
LEMMA OthersOn ==
    ASSUME NEW a \in Apps, ByApp(a), NEW b \in Apps \ {a}, NEW r \in Reqs
    PROVE  /\ On(r, b)' <=> On(r, b)
           /\ On(r, b) => req'[r] = req[r]
  BY DEF ByApp, OwnRows, OwnReqs, OwnDirs, OwnClaims, On

\* So are their claims.
LEMMA OthersClaim ==
    ASSUME ActorsType, ActorsType', NEW a \in Apps, ByApp(a), NEW b \in Apps \ {a}, NEW m \in Names
    PROVE  b \in Claims(m)' <=> b \in Claims(m)
  <1>1. b \in Claims(m) <=> ClaimedBy(b, m)
    BY ClaimsAre DEF Claimed
  <1>2. Claimed'
    BY ClaimsAre, PTL
  <1>3. b \in Claims(m)' <=> ClaimedBy(b, m)'
    BY <1>2 DEF Claimed
  <1>4. rows'[b] = rows[b] /\ worker'[b] = worker[b]
    BY DEF ByApp, OwnRows, OwnReqs, OwnDirs, OwnClaims
  <1>5. \A r \in Reqs : (On(r, b)' <=> On(r, b)) /\ (On(r, b) => NamesOf(req[r])' = NamesOf(req[r]))
    BY OthersOn DEF NamesOf
  <1>6. ClaimedBy(b, m)' <=> ClaimedBy(b, m)
    BY <1>4, <1>5 DEF ClaimedBy, Exists
  <1> QED
    BY <1>1, <1>3, <1>6

\* Two apps never have a claim on one name, unless they are spoiled.
LEMMA ClaimsPreserved ==
    ASSUME ActorsType, ActorsType', ClaimsOK, NEW a \in Apps, ByApp(a)
    PROVE  ClaimsOK'
  <1> SUFFICES ASSUME NEW m \in Names, NEW b \in Claims(m)', NEW c \in Claims(m)', b # c
               PROVE  b \in spoiled'
    BY DEF ClaimsOK
  <1>1. b \in Apps /\ c \in Apps
    <2>1. ClaimsInApps'
      BY ClaimsAreApps, PTL
    <2> QED
      BY <2>1 DEF ClaimsInApps
  <1>2. spoiled \subseteq spoiled'
    BY DEF ByApp, OwnRows, OwnReqs, OwnDirs, OwnClaims
  <1>3. CASE b \in Claims(m) /\ c \in Claims(m)
    BY <1>2, <1>3 DEF ClaimsOK
  <1>4. CASE b = a /\ a \notin Claims(m)
    <2>1. c \in Claims(m) \ {a}
      BY <1>1, <1>4, OthersClaim
    <2> QED
      BY <1>4, <2>1 DEF ByApp, OwnRows, OwnReqs, OwnDirs, OwnClaims
  <1>5. CASE c = a /\ a \notin Claims(m)
    <2>1. b \in Claims(m) \ {a}
      BY <1>1, <1>5, OthersClaim
    <2> QED
      BY <1>5, <2>1 DEF ByApp, OwnRows, OwnReqs, OwnDirs, OwnClaims
  <1> QED
    BY <1>1, <1>3, <1>4, <1>5, OthersClaim

\* A name that an app still not spoiled has a claim on is nobody else's to write.
LEMMA NotTheirs ==
    ASSUME ActorsType, ActorsType', ClaimsOK, NEW a \in Apps, ByApp(a), NEW b \in Apps \ {a}, b \notin spoiled',
           NEW m \in Names, b \in Claims(m)
    PROVE  a \notin Claims(m) /\ a \notin Claims(m)'
  <1>1. a \notin Claims(m)
    BY DEF ClaimsOK, ByApp, OwnRows, OwnReqs, OwnDirs, OwnClaims
  <1> QED
    BY <1>1 DEF ByApp, OwnRows, OwnReqs, OwnDirs, OwnClaims

\* Nor are the directories that live there.
LEMMA LivesOn ==
    ASSUME ActorsType, ActorsType', ClaimsOK, NEW a \in Apps, ByApp(a), NEW b \in Apps \ {a}, b \notin spoiled',
           NEW m \in Names, b \in Claims(m), NEW t \in 1..Tiers, Lives(b, t, m)
    PROVE  Lives(b, t, m)'
  <1>1. a \notin Claims(m) /\ a \notin Claims(m)'
    BY NotTheirs
  <1>2. dir'[t][m] = b
    BY <1>1 DEF ByApp, OwnRows, OwnReqs, OwnDirs, OwnClaims, Lives
  <1>3. ASSUME t = Tmp, NEW n \in Names, dir'[t][n] = b PROVE n = m
    <2>1. dir[t][n] = b \/ \E o \in Names : a \in Claims(o) /\ dir[t][o] = b
      BY <1>3 DEF ByApp, OwnRows, OwnReqs, OwnDirs, OwnClaims
    <2>2. \A o \in Names : dir[t][o] = b => o = m
      BY <1>3 DEF Lives
    <2> QED
      BY <1>1, <2>1, <2>2
  <1> QED
    BY <1>2, <1>3 DEF Lives

\* An app has a claim on the names of a row, or on where the path of a thread leads.
ClaimsRow(a, row) == a \in Claims(row.name) /\ a \in Claims(row.path)
ClaimsPath(a, w) == w.path \in Names => a \in Claims(w.path)

\* An app has a claim on the names of its row and on those its requests are about.
LEMMA OwnNames ==
    ASSUME RowsType, ActorsType, NEW a \in Apps
    PROVE  /\ Exists(a) => /\ rows[a].name \in Names /\ a \in Claims(rows[a].name)
                           /\ rows[a].path \in Names /\ ClaimsRow(a, rows[a])
           /\ \A r \in Reqs : On(r, a) =>
                /\ req[r].pc \in {"pick", "insert"} => req[r].to \in Names /\ a \in Claims(req[r].to)
                /\ req[r].pc \in Updating => req[r].path \in Names /\ a \in Claims(req[r].path)
                /\ req[r].pc \in Renaming => /\ req[r].from \in Names /\ a \in Claims(req[r].from)
                                             /\ req[r].to \in Names /\ a \in Claims(req[r].to)
           /\ worker[a] # Idle => /\ worker[a].path \in Names \cup {None}
                                  /\ ClaimsPath(a, worker[a])
  <1>1. Exists(a) => rows[a].name \in Names /\ rows[a].path \in Names
    BY DEF RowsType, Exists, AppRow
  <1>2. worker[a] # Idle => worker[a].path \in Names \cup {None}
    BY WorkerShape DEF Worker
  <1>3. ASSUME NEW r \in Reqs, On(r, a)
        PROVE  /\ req[r].pc \in {"pick", "insert"} => req[r].to \in Names /\ a \in Claims(req[r].to)
               /\ req[r].pc \in Updating => req[r].path \in Names /\ a \in Claims(req[r].path)
               /\ req[r].pc \in Renaming => /\ req[r].from \in Names /\ a \in Claims(req[r].from)
                                            /\ req[r].to \in Names /\ a \in Claims(req[r].to)
    <2>1. \A n \in Names : n \in NamesOf(req[r]) => a \in Claims(n)
      BY <1>3, ClaimsAre DEF Claimed, ClaimedBy
    <2>2. CASE req[r].pc \in {"pick", "insert"}
      <3>1. req[r] \in PickReq \cup InsertReq
        BY <2>2, ReqShape
      <3>2. NamesOf(req[r]) = {req[r].to} /\ req[r].to \in Names
        BY <3>1, NamesOfAre DEF PickReq, InsertReq
      <3> QED
        BY <2>1, <2>2, <3>2 DEF Updating, Renaming
    <2>3. CASE req[r].pc \in Updating
      <3>1. req[r] \in UpdateReq
        BY <2>3, ReqShape
      <3>2. NamesOf(req[r]) = {req[r].path} /\ req[r].path \in Names
        BY <3>1, NamesOfAre DEF UpdateReq
      <3> QED
        BY <2>1, <2>3, <3>2 DEF Updating, Renaming
    <2>4. CASE req[r].pc \in Renaming
      <3>1. req[r] \in RenameReq
        BY <2>4, ReqShape
      <3>2. NamesOf(req[r]) = {req[r].from, req[r].to} /\ req[r].from \in Names /\ req[r].to \in Names
        BY <3>1, NamesOfAre DEF RenameReq
      <3> QED
        BY <2>1, <2>4, <3>2 DEF Updating, Renaming
    <2> QED
      BY <2>2, <2>3, <2>4
  <1> QED
    BY <1>1, <1>2, <1>3, ClaimsAre DEF Claimed, ClaimedBy, ClaimsRow, ClaimsPath

\* An app that is not spoiled has a temporary directory, under one of its names.
LEMMA HasPlace ==
    ASSUME RowsType, ActorsType, NEW b \in Apps, Exists(b), FreshOK(b), SoundOK(b)
    PROVE  \E m \in Names : b \in Claims(m) /\ Lives(b, Tmp, m)
  <1>1. Tmp \in 1..Tiers
    BY AppSourceAssumption DEF Tmp
  <1>2. CASE Home(b)
    BY <1>1, <1>2, OwnNames DEF Home
  <1>3. ASSUME NEW r \in Reqs, On(r, b) PROVE \E m \in Names : b \in Claims(m) /\ Lives(b, Tmp, m)
    <2>1. CASE req[r].pc \in Installing
      BY <1>3, <2>1 DEF FreshOK
    <2>2. CASE req[r].pc \in Updating
      BY <1>2, <1>3, <2>2 DEF SoundOK, ReqOK, UpdateOK, Known, Lost
    <2>3. CASE req[r].pc \in Renaming
      BY <1>1, <1>3, <2>3, OwnNames DEF SoundOK, ReqOK, RenameOK
    <2> QED
      BY <1>3, <2>1, <2>2, <2>3, ReqShape DEF On
  <1>4. CASE worker[b] # Idle
    BY <1>2, <1>4 DEF SoundOK, WorkerOK, Known, Lost, Path
  <1>5. CASE ~Busy(b)
    BY <1>2, <1>5 DEF SoundOK, RestOK
  <1> QED
    BY <1>3, <1>4, <1>5, BusyIs

\* What another app does leaves an app that is not spoiled as it is ...
LEMMA OthersSound ==
    ASSUME Types, Types', ClaimsOK, NEW a \in Apps, ByApp(a), NEW b \in Apps \ {a}, b \notin spoiled',
           FreshOK(b), SoundOK(b)
    PROVE  SoundOK(b)'
  <1> USE DEF Types
  <1>1. /\ rows'[b] = rows[b] /\ worker'[b] = worker[b] /\ code'[b] = code[b]
        /\ grants'[b] = grants[b] /\ accepted'[b] = accepted[b]
    BY DEF ByApp, OwnRows, OwnReqs, OwnDirs, OwnClaims
  <1>2. \A r \in Reqs : (On(r, b)' <=> On(r, b)) /\ (On(r, b) => req'[r] = req[r])
    BY OthersOn
  <1>3. \A t \in 1..Tiers, m \in Names : b \in Claims(m) /\ Lives(b, t, m) => Lives(b, t, m)'
    BY LivesOn
  <1>4. Exists(b) => tree'[b] = tree[b]
    <2>1. SUFFICES ASSUME Exists(b), NEW m \in Names, a \in Claims(m), dir[Tmp][m] = b PROVE FALSE
      BY DEF ByApp, OwnRows, OwnReqs, OwnDirs, OwnClaims
    <2>2. PICK n \in Names : b \in Claims(n) /\ Lives(b, Tmp, n)
      BY <2>1, HasPlace
    <2>3. m = n
      BY <2>1, <2>2 DEF Lives
    <2> QED
      BY <2>1, <2>2, <2>3, NotTheirs
  <1>5. (Exists(b)' <=> Exists(b)) /\ (Busy(b)' <=> Busy(b))
    <2>1. BusyIsOn'
      BY BusyMeansOn, PTL
    <2> QED
      BY <1>1, <1>2, <2>1, BusyIs DEF BusyIsOn, Exists
  <1>6. Exists(b) /\ Home(b) => Home(b)'
    BY <1>1, <1>3, OwnNames DEF Home
  <1>7. AloneOK(b)'
    BY <1>1, <1>2 DEF SoundOK, AloneOK
  <1>8. Exists(b)' => OwnedOK(b)'
    BY <1>1, <1>5 DEF SoundOK, OwnedOK, Accepted, Vetted, Known
  <1>9. ASSUME NEW r \in Reqs, On(r, b)' PROVE ReqOK(b, req[r])'
    <2>1. On(r, b) /\ req'[r] = req[r] /\ ReqOK(b, req[r])
      BY <1>2, <1>9 DEF SoundOK
    <2>2. ASSUME req[r].pc \in {"pick", "insert"} PROVE Lives(b, Tmp, req[r].to)'
      <3>1. Tmp \in 1..Tiers
        BY AppSourceAssumption DEF Tmp
      <3>2. req[r].to \in Names /\ b \in Claims(req[r].to) /\ Lives(b, Tmp, req[r].to)
        BY <2>1, <2>2, OwnNames DEF ReqOK
      <3>3. Lives(b, Tmp, req[r].to)
        BY <3>2
      <3> QED
        BY <2>1, <3>1, <3>2, LivesOn DEF Lives
    <2>3. ASSUME req[r].pc \in Updating, Exists(b) PROVE UpdateOK(b, req[r])'
      BY <1>1, <1>4, <1>6, <2>1, <2>3 DEF ReqOK, UpdateOK, Fits, Accepted, Vetted, Known, Lost
    <2>4. ASSUME req[r].pc \in Renaming, Exists(b) PROVE RenameOK(b, req[r])'
      <3> DEFINE q == req[r]
      <3>1. RenameOK(b, q)
        BY <2>1, <2>4 DEF ReqOK
      <3>2. \A t \in 1..Tiers : Lives(b, t, IF t \in q.moved THEN q.to ELSE q.from)'
        BY <1>3, <2>1, <2>4, <3>1, OwnNames DEF RenameOK, Lives
      <3>3. Fits(b, tree[b], q.was)'
        BY <1>1, <1>4, <2>1, <2>4, <3>1 DEF RenameOK, Fits, Accepted, Vetted, Known, Lost
      <3> QED
        BY <1>1, <2>1, <3>1, <3>2, <3>3 DEF RenameOK
    <2> QED
      BY <1>5, <2>1, <2>2, <2>3, <2>4 DEF ReqOK
  <1>10. (Exists(b) /\ worker[b] # Idle)' => WorkerOK(b)'
    BY <1>1, <1>4, <1>5, <1>6 DEF SoundOK, WorkerOK, Accepted, Vetted, Known, Lost, Path
  <1>11. (Exists(b) /\ ~Busy(b))' => RestOK(b)'
    BY <1>1, <1>4, <1>5, <1>6 DEF SoundOK, RestOK, Fits, Accepted, Vetted, Known, Lost
  <1> QED
    BY <1>7, <1>8, <1>9, <1>10, <1>11 DEF SoundOK

\* ... and an id that is not installed as well.
LEMMA OthersFresh ==
    ASSUME Types, Types', NEW a \in Apps, ByApp(a), NEW b \in Apps \ {a}, FreshOK(b)
    PROVE  FreshOK(b)'
  <1>1. rows'[b] = rows[b] /\ worker'[b] = worker[b] /\ code'[b] = code[b]
    BY DEF ByApp, OwnRows, OwnReqs, OwnDirs, OwnClaims
  <1>2. \A r \in Reqs : (On(r, b)' <=> On(r, b)) /\ (On(r, b) => req'[r] = req[r])
    BY OthersOn
  <1>3. tree'[b] = tree[b] \/ (tree'[b] # None /\ \E m \in Names : dir[Tmp][m] = b)
    BY DEF ByApp, OwnRows, OwnReqs, OwnDirs, OwnClaims
  <1>4. Tmp \in 1..Tiers
    BY AppSourceAssumption DEF Tmp
  <1>5. \A t \in 1..Tiers, m \in Names : dir'[t][m] = b => \E n \in Names : dir[t][n] = b
    BY DEF ByApp, OwnRows, OwnReqs, OwnDirs, OwnClaims
  <1>6. ASSUME tree'[b] = None
        PROVE  /\ tree[b] = None /\ ~Exists(b)' /\ worker'[b] = Idle
               /\ \A t \in 1..Tiers, n \in Names : dir'[t][n] # b
               /\ \A r \in Reqs : On(r, b)' => req'[r].pc = "cloned"
    <2>1. tree[b] = None
      BY <1>3, <1>6
    <2> QED
      BY <1>1, <1>2, <1>5, <2>1 DEF FreshOK, Exists
  <1>7. ASSUME NEW r \in Reqs, On(r, b)', req'[r].pc \in Installing
        PROVE  /\ ~Exists(b)' /\ worker'[b] = Idle
               /\ \A q \in Reqs : On(q, b)' => q = r
               /\ req'[r].pc = "cloned" => tree'[b] = None
    <2>1. On(r, b) /\ req'[r] = req[r]
      BY <1>2, <1>7
    <2>2. req[r].pc = "cloned" => tree[b] = None /\ tree'[b] = None
      BY <1>3, <1>4, <1>7, <2>1 DEF FreshOK
    <2> QED
      BY <1>1, <1>2, <1>7, <2>1, <2>2 DEF FreshOK, Exists
  <1>8. ~Exists(b)' => code'[b] = None
    BY <1>1 DEF FreshOK, Exists
  <1> QED
    BY <1>6, <1>7, <1>8 DEF FreshOK

\* So a step by one app is sound when the app itself is.
LEMMA StepByApp ==
    ASSUME IInv, Types', NEW a \in Apps, ByApp(a), FreshOK(a)', a \notin spoiled' => SoundOK(a)'
    PROVE  IInv'
  <1>1. ClaimsOK'
    BY ClaimsPreserved DEF IInv, Types
  <1>2. ASSUME NEW b \in Apps PROVE AppOK(b)'
    <2>1. CASE b = a
      BY <2>1 DEF AppOK
    <2>2. CASE b # a
      <3>1. AppOK(b)
        BY DEF IInv, AppsOK
      <3>2. FreshOK(b)'
        BY <2>2, <3>1, OthersFresh DEF IInv, AppOK
      <3>3. b \notin spoiled' => SoundOK(b)'
        <4>1. spoiled \subseteq spoiled'
          BY DEF ByApp, OwnRows, OwnReqs, OwnDirs, OwnClaims
        <4> QED
          BY <2>2, <3>1, <4>1, OthersSound DEF IInv, AppOK
      <3> QED
        BY <3>2, <3>3 DEF AppOK
    <2> QED
      BY <2>1, <2>2
  <1> QED
    BY <1>1, <1>2 DEF IInv, AppsOK

\* The names an app comes to have a claim on.
LEMMA ClaimsFrom ==
    ASSUME ActorsType, ActorsType', NEW a \in Apps, NEW n,
           Exists(a)' => \A m \in {rows'[a].name, rows'[a].path} : a \in Claims(m) \/ m = n,
           \A r \in Reqs : On(r, a)' =>
             \/ req'[r] = req[r]
             \/ \A m \in NamesOf(req'[r]) : a \in Claims(m) \/ m = n,
           worker'[a] # Idle =>
             worker'[a] = worker[a] \/ ClaimsPath(a, worker'[a]) \/ worker'[a].path = n
    PROVE  \A m \in Names : a \in Claims(m)' => a \in Claims(m) \/ m = n
  <1> SUFFICES ASSUME NEW m \in Names, a \in Claims(m)' PROVE a \in Claims(m) \/ m = n
    OBVIOUS
  <1>1. ClaimedBy(a, m)'
    <2>1. Claimed'
      BY ClaimsAre, PTL
    <2> QED
      BY <2>1 DEF Claimed
  <1>2. CASE (Exists(a) /\ m \in {rows[a].name, rows[a].path})'
    BY <1>2
  <1>3. CASE (\E r \in Reqs : On(r, a) /\ m \in NamesOf(req[r]))'
    <2>1. PICK r \in Reqs : On(r, a)' /\ m \in NamesOf(req'[r])
      BY <1>3 DEF NamesOf
    <2>2. CASE req'[r] = req[r]
      <3>1. On(r, a) /\ m \in NamesOf(req[r])
        BY <2>1, <2>2 DEF On
      <3> QED
        BY <3>1, ClaimsAre DEF Claimed, ClaimedBy
    <2> QED
      BY <2>1, <2>2
  <1>4. CASE (worker[a] # Idle /\ worker[a].path = m)'
    <2>1. CASE worker'[a] = worker[a]
      BY <1>4, <2>1, ClaimsAre DEF Claimed, ClaimedBy, Idle
    <2> QED
      BY <1>4, <2>1 DEF Idle, ClaimsPath
  <1> QED
    BY <1>1, <1>2, <1>3, <1>4 DEF ClaimedBy

LEMMA NoNewClaims ==
    ASSUME ActorsType, ActorsType', NEW a \in Apps,
           Exists(a)' => ClaimsRow(a, rows'[a]),
           \A r \in Reqs : On(r, a)' =>
             req'[r] = req[r] \/ \A m \in NamesOf(req'[r]) : a \in Claims(m),
           worker'[a] # Idle => worker'[a] = worker[a] \/ ClaimsPath(a, worker'[a])
    PROVE  \A m \in Names : a \in Claims(m)' => a \in Claims(m)
  <1>1. PICK n : n \notin Names
    BY NoSetContainsEverything
  <1>2. \A m \in Names : a \in Claims(m)' => a \in Claims(m) \/ m = n
    <2>1. Exists(a)' => \A m \in {rows'[a].name, rows'[a].path} : a \in Claims(m) \/ m = n
      BY DEF ClaimsRow
    <2> QED
      BY <2>1, ClaimsFrom, Zenon
  <1> QED
    BY <1>1, <1>2

\* An app at rest, at a request or at its thread, before a step and after it.
LEMMA SoloReq ==
    ASSUME IInv, NEW a \in Apps, a \notin spoiled, NEW r \in Reqs, On(r, a)
    PROVE  /\ \A q \in Reqs \ {r} : ~On(q, a)
           /\ worker[a] = Idle /\ ReqOK(a, req[r])
           /\ Exists(a) => OwnedOK(a)
  BY DEF IInv, AppsOK, AppOK, SoundOK, AloneOK

LEMMA SoloWorker ==
    ASSUME IInv, NEW a \in Apps, a \notin spoiled, worker[a] # Idle
    PROVE  /\ \A q \in Reqs : ~On(q, a)
           /\ Exists(a) => OwnedOK(a) /\ WorkerOK(a)
  BY DEF IInv, AppsOK, AppOK, SoundOK, AloneOK

LEMMA AtRest ==
    ASSUME IInv, NEW a \in Apps, a \notin spoiled, Exists(a), ~Busy(a)
    PROVE  /\ \A q \in Reqs : ~On(q, a)
           /\ worker[a] = Idle /\ OwnedOK(a) /\ RestOK(a)
  BY BusyIs DEF IInv, AppsOK, AppOK, SoundOK

LEMMA ReqSound ==
    ASSUME NEW a \in Apps, NEW r \in Reqs, \A q \in Reqs \ {r} : ~On(q, a)', On(r, a)', worker'[a] = Idle,
           Exists(a)' => OwnedOK(a)', ReqOK(a, req[r])'
    PROVE  SoundOK(a)'
  <1>1. BusyIsOn'
    BY BusyMeansOn, PTL
  <1> QED
    BY <1>1 DEF SoundOK, AloneOK, BusyIsOn

LEMMA WorkerSound ==
    ASSUME NEW a \in Apps, \A q \in Reqs : ~On(q, a)', worker'[a] # Idle,
           Exists(a)' => OwnedOK(a)' /\ WorkerOK(a)'
    PROVE  SoundOK(a)'
  <1>1. BusyIsOn'
    BY BusyMeansOn, PTL
  <1> QED
    BY <1>1 DEF SoundOK, AloneOK, BusyIsOn

LEMMA RestSound ==
    ASSUME NEW a \in Apps, \A q \in Reqs : ~On(q, a)', worker'[a] = Idle,
           Exists(a)' => OwnedOK(a)' /\ RestOK(a)'
    PROVE  SoundOK(a)'
  BY DEF SoundOK, AloneOK

\* An update of a status keeps the rest of the table.
Restated(a, st, R) ==
    /\ R \in [Apps -> AppRow \cup {None}]
    /\ \A b \in Apps \ {a} : R[b] = rows[b]
    /\ R[a] = None <=> ~Exists(a)
    /\ Exists(a) => /\ R[a].status = st /\ R[a].name = rows[a].name /\ R[a].man = rows[a].man
                    /\ R[a].local = rows[a].local /\ R[a].host = rows[a].host
                    /\ R[a].root = rows[a].root /\ R[a].path = rows[a].path

LEMMA StatusSet ==
    ASSUME RowsType, NEW a \in Apps, NEW st \in Statuses
    PROVE  Restated(a, st, SetStatus(a, st))
  <1>1. CASE ~Exists(a)
    BY <1>1 DEF Restated, SetStatus, Exists, RowsType
  <1>2. CASE Exists(a)
    <2>1. rows[a] \in AppRow
      BY <1>2 DEF RowsType, Exists
    <2> DEFINE row == [rows[a] EXCEPT !.status = st]
    <2>2. SetStatus(a, st) = [rows EXCEPT ![a] = row]
      BY <1>2 DEF SetStatus
    <2>3. row \in AppRow /\ row # None
      BY <2>1, NoneAssumption DEF AppRow
    <2>4. row.status = st /\ row.name = rows[a].name /\ row.man = rows[a].man
          /\ row.local = rows[a].local /\ row.host = rows[a].host
          /\ row.root = rows[a].root /\ row.path = rows[a].path
      BY <2>1 DEF AppRow
    <2> HIDE DEF row
    <2> QED
      BY <1>2, <2>2, <2>3, <2>4 DEF Restated, RowsType
  <1> QED
    BY <1>1, <1>2

\* Names stay unique where no row gets a new one.
LEMMA NamesUnique ==
    ASSUME RowsType, rows' \in [Apps -> AppRow \cup {None}],
           \A b \in Apps : Exists(b)' => Exists(b) /\ rows'[b].name = rows[b].name
    PROVE  RowsType'
  BY DEF RowsType

-----------------------------------------------------------------------------
(* One lemma for each operation: installing                                *)

AnyReq == IdleReq \cup CloneReq \cup PickReq \cup InsertReq \cup UpdateReq \cup RenameReq

\* The record of one request changes.
LEMMA ReqChanged ==
    ASSUME ActorsType, NEW r \in Reqs, NEW q, q = Idle \/ q \in AnyReq, req' = [req EXCEPT ![r] = q]
    PROVE  /\ req' \in [Reqs -> AnyReq] /\ req'[r] = q
           /\ \A p \in Reqs \ {r} : req'[p] = req[p]
           /\ \A p \in Reqs \ {r}, a \in Apps : On(p, a)' <=> On(p, a)
  <1>1. req \in [Reqs -> AnyReq]
    BY DEF ActorsType, AnyReq
  <1>2. Idle \in AnyReq
    BY DEF Idle, IdleReq, AnyReq
  <1>3. req' \in [Reqs -> AnyReq] /\ req'[r] = q /\ \A p \in Reqs \ {r} : req'[p] = req[p]
    BY <1>1, <1>2
  <1> QED
    BY <1>3 DEF On

\* A request that ends, of an app that nobody else is at work on.
LEMMA ReqEnds ==
    ASSUME ActorsType, NEW r \in Reqs, req' = [req EXCEPT ![r] = Idle]
    PROVE  /\ req' \in [Reqs -> AnyReq] /\ req'[r] = Idle
           /\ \A p \in Reqs \ {r} : req'[p] = req[p]
           /\ \A a \in Apps : ~On(r, a)'
           /\ \A p \in Reqs \ {r}, a \in Apps : On(p, a)' <=> On(p, a)
  BY ReqChanged DEF On, Idle

LEMMA CloneStep == ASSUME IInv, Clone PROVE IInv'
  <1>1. PICK r \in Reqs, a \in Apps :
          /\ req[r] = Idle /\ ~Exists(a) /\ tree[a] = None
          /\ \A q \in Reqs : req[q] # Idle => req[q].app # a
          /\ req' = [req EXCEPT ![r] = [pc |-> "cloned", app |-> a, commit |-> Target(a)]]
          /\ ops < MaxOps /\ ops' = ops + 1
          /\ UNCHANGED <<store, up, code, owner, resume, worker, spoiled, faults>>
    BY DEF Clone, Ask
  <1> DEFINE q1 == [pc |-> "cloned", app |-> a, commit |-> Target(a)]
  <1> USE DEF IInv, Types
  <1>2. q1 \in CloneReq /\ q1 # Idle /\ q1.pc = "cloned" /\ q1.app = a
    BY DEF CloneReq, CodeType, Target, Idle
  <1> HIDE DEF q1
  <1>3. /\ req' \in [Reqs -> AnyReq] /\ req'[r] = q1
        /\ \A p \in Reqs \ {r} : req'[p] = req[p]
        /\ \A p \in Reqs \ {r}, b \in Apps : On(p, b)' <=> On(p, b)
    BY <1>1, <1>2, ReqChanged DEF AnyReq, q1
  <1>4. \A p \in Reqs : ~On(p, a)
    BY <1>1, ReqShape DEF On, Idle
  <1>5. Types'
    <2>1. ActorsType'
      BY <1>1, <1>3 DEF ActorsType, AnyReq
    <2>2. BoundsType'
      BY <1>1, AppSourceAssumption DEF BoundsType
    <2> QED
      BY <1>1, <2>1, <2>2 DEF RowsType, CodeType, OwnerType, store, owner, Exists
  <1>6. \A m \in Names : a \in Claims(m)' => a \in Claims(m)
    <2>1. NamesOf(q1) = {}
      BY <1>2, NamesOfAre
    <2>2. \A p \in Reqs : On(p, a)' => req'[p] = req[p] \/ \A m \in NamesOf(req'[p]) : a \in Claims(m)
      BY <1>3, <2>1
    <2>3. ~Exists(a)' /\ worker'[a] = worker[a]
      BY <1>1 DEF store, Exists
    <2> HIDE DEF IInv, Types
    <2>4. ActorsType /\ ActorsType'
      BY <1>5 DEF IInv, Types
    <2> QED
      BY <2>2, <2>3, <2>4, NoNewClaims
  <1>7. ByApp(a)
    BY <1>1, <1>2, <1>3, <1>6 DEF ByApp, OwnRows, OwnReqs, OwnDirs, OwnClaims, store, owner, Idle
  <1>8. AppOK(a)
    BY DEF AppsOK
  <1>9. FreshOK(a)'
    <2>1. worker[a] = Idle /\ code[a] = None /\ \A t \in 1..Tiers, n \in Names : dir[t][n] # a
      BY <1>1, <1>8 DEF AppOK, FreshOK
    <2> QED
      BY <1>1, <1>2, <1>3, <1>4, <2>1 DEF FreshOK, store, Exists, On
  <1>10. a \notin spoiled' => SoundOK(a)'
    <2>1. On(r, a)' /\ (\A p \in Reqs \ {r} : ~On(p, a)') /\ worker'[a] = Idle /\ ~Exists(a)'
      BY <1>1, <1>2, <1>3, <1>4, <1>8 DEF On, AppOK, FreshOK, store, Exists
    <2>2. ReqOK(a, req[r])'
      BY <1>2, <1>3 DEF ReqOK, Updating, Renaming
    <2> QED
      BY <2>1, <2>2, ReqSound
  <1> QED
    BY <1>5, <1>7, <1>9, <1>10, StepByApp

\* A step of a request that keeps the names its app has, or ends.
LEMMA ReqStep ==
    ASSUME IInv, NEW a \in Apps, NEW r \in Reqs, On(r, a) \/ req[r] = Idle,
           NEW q, q = Idle \/ (q \in AnyReq /\ q.app = a /\ q.pc # "idle" /\ \A m \in NamesOf(q) : a \in Claims(m)),
           req' = [req EXCEPT ![r] = q],
           OwnRows(a), OwnDirs(a), RowsType', worker' \in [Apps -> Worker \cup {Idle}],
           worker'[a] # Idle => worker'[a] = worker[a] \/ ClaimsPath(a, worker'[a]),
           Exists(a)' => ClaimsRow(a, rows'[a])
    PROVE  /\ ActorsType' /\ ByApp(a)
           /\ req'[r] = q
           /\ \A p \in Reqs \ {r} : req'[p] = req[p]
           /\ \A p \in Reqs \ {r}, b \in Apps : On(p, b)' <=> On(p, b)
  <1>1. ActorsType
    BY DEF IInv, Types
  <1>2. /\ req' \in [Reqs -> AnyReq] /\ req'[r] = q
        /\ \A p \in Reqs \ {r} : req'[p] = req[p]
        /\ \A p \in Reqs \ {r}, b \in Apps : On(p, b)' <=> On(p, b)
    BY <1>1, ReqChanged
  <1>3. ActorsType'
    BY <1>2 DEF ActorsType, AnyReq
  <1>4. OwnReqs(a)
    BY <1>2 DEF OwnReqs, On, Idle
  <1>5. OwnClaims(a)
    <2>1. \A p \in Reqs : On(p, a)' =>
            req'[p] = req[p] \/ \A m \in NamesOf(req'[p]) : a \in Claims(m)
      BY <1>2, NamesOfAre
    <2>2. \A m \in Names : a \in Claims(m)' => a \in Claims(m)
      BY <1>1, <1>3, <2>1, NoNewClaims, Zenon
    <2> QED
      BY <2>2 DEF OwnClaims
  <1> QED
    BY <1>2, <1>3, <1>4, <1>5 DEF ByApp

\* A step that leaves the requests alone.
LEMMA OwnStep ==
    ASSUME IInv, NEW a \in Apps, req' = req,
           OwnRows(a), OwnDirs(a), RowsType', worker' \in [Apps -> Worker \cup {Idle}],
           worker'[a] # Idle => worker'[a] = worker[a] \/ ClaimsPath(a, worker'[a]),
           Exists(a)' => ClaimsRow(a, rows'[a])
    PROVE  /\ ActorsType' /\ ByApp(a)
           /\ \A p \in Reqs, b \in Apps : On(p, b)' <=> On(p, b)
  <1>1. ActorsType
    BY DEF IInv, Types
  <1>2. ActorsType' /\ OwnReqs(a)
    BY <1>1 DEF ActorsType, OwnReqs
  <1>3. OwnClaims(a)
    <2>1. \A p \in Reqs : On(p, a)' => req'[p] = req[p] \/ \A m \in NamesOf(req'[p]) : a \in Claims(m)
      OBVIOUS
    <2>2. \A m \in Names : a \in Claims(m)' => a \in Claims(m)
      BY <1>1, <1>2, <2>1, NoNewClaims, Zenon
    <2> QED
      BY <2>2 DEF OwnClaims
  <1> QED
    BY <1>2, <1>3 DEF ByApp, On

\* The checkout under a name is that of the app that lives there.
LEMMA CheckoutIs ==
    ASSUME IInv, NEW a \in Apps, NEW n \in Names, Lives(a, Tmp, n)
    PROVE  Checkout(n) = tree[a]
  BY AppSourceAssumption DEF Lives, Checkout

LEMMA CheckoutType ==
    ASSUME IInv, NEW n \in Names
    PROVE  Checkout(n) \in Commits \cup {None}
  BY TmpTier DEF IInv, Types, CodeType, Checkout

LEMMA AtIs ==
    ASSUME IInv, NEW a \in Apps, Exists(a)
    PROVE  /\ At(a) \in Commits \cup {None} /\ tree[a] \in Commits
           /\ Path(a) \in Names \cup {None} /\ (Path(a) = None <=> Lost(a))
           /\ Lost(a) => At(a) = None
           /\ Home(a) /\ rows[a].path = rows[a].name /\ ~Lost(a) =>
                /\ Path(a) = rows[a].name /\ At(a) = tree[a]
                /\ HasGit(Path(a)) <=> a \notin Builtin
  <1>1. rows[a].path \in Names /\ rows[a].name \in Names
    BY DEF IInv, Types, RowsType, Exists, AppRow
  <1>2. tree[a] \in Commits
    BY DEF IInv, Types, CodeType, AppsOK, AppOK, FreshOK
  <1>3. Path(a) \in Names \cup {None} /\ (Path(a) = None <=> Lost(a))
    BY <1>1, AppSourceAssumption DEF Path
  <1>4. Checkout(None) = None
    BY DEF Checkout
  <1>5. At(a) \in Commits \cup {None} /\ (Lost(a) => At(a) = None)
    BY <1>3, <1>4, CheckoutType DEF At
  <1>6. ASSUME Home(a), rows[a].path = rows[a].name, ~Lost(a)
        PROVE  /\ Path(a) = rows[a].name /\ At(a) = tree[a]
               /\ HasGit(Path(a)) <=> a \notin Builtin
    <2>1. Path(a) = rows[a].name /\ Path(a) # None
      BY <1>1, <1>6, AppSourceAssumption DEF Path
    <2>2. Lives(a, Tmp, rows[a].name)
      BY <1>6, TmpTier DEF Home
    <2>3. dir[Tmp][Path(a)] = a /\ a # None
      BY <2>1, <2>2, AppSourceAssumption DEF Lives
    <2> QED
      BY <1>1, <2>1, <2>2, <2>3, CheckoutIs DEF At, HasGit
  <1> QED
    BY <1>2, <1>3, <1>5, <1>6

\* A repository belongs to an app that was not copied, and has a commit.
LEMMA GitIs ==
    ASSUME IInv, NEW n \in Names, HasGit(n)
    PROVE  /\ dir[Tmp][n] \in Apps \ Builtin
           /\ Checkout(n) = tree[dir[Tmp][n]] /\ Checkout(n) \in Commits
  <1>1. dir[Tmp][n] \in Apps \ Builtin /\ dir[Tmp][n] # None /\ n # None
    BY TmpTier DEF IInv, Types, CodeType, HasGit
  <1>2. Checkout(n) = tree[dir[Tmp][n]]
    BY <1>1 DEF Checkout
  <1>3. tree[dir[Tmp][n]] # None
    BY <1>1, TmpTier DEF IInv, AppsOK, AppOK, FreshOK
  <1> QED
    BY <1>1, <1>2, <1>3 DEF IInv, Types, CodeType

\* The table after a new status.
LEMMA StatusStep ==
    ASSUME IInv, NEW a \in Apps, NEW st \in Statuses, rows' = SetStatus(a, st)
    PROVE  /\ RowsType' /\ (Exists(a)' <=> Exists(a))
           /\ \A b \in Apps \ {a} : rows'[b] = rows[b]
           /\ Exists(a) => /\ rows'[a].status = st /\ rows'[a].name = rows[a].name
                           /\ rows'[a].root = rows[a].root /\ rows'[a].path = rows[a].path
                           /\ rows'[a].man = rows[a].man /\ ClaimsRow(a, rows'[a])
  <1>1. Restated(a, st, SetStatus(a, st))
    BY StatusSet DEF IInv, Types
  <1>2. \A b \in Apps : Exists(b)' => Exists(b) /\ rows'[b].name = rows[b].name
    BY <1>1 DEF Restated, Exists
  <1>3. RowsType'
    BY <1>1, <1>2, NamesUnique DEF IInv, Types, Restated
  <1>4. Exists(a) => ClaimsRow(a, rows[a])
    BY OwnNames DEF IInv, Types
  <1> QED
    BY <1>1, <1>3, <1>4 DEF Restated, Exists, ClaimsRow

\* A thread that builds is at work.
LEMMA LaunchIs ==
    ASSUME NEW n \in Names \cup {None}, NEW b \in BOOLEAN
    PROVE  /\ Launch(n, b) \in Worker /\ Launch(n, b) # Idle
           /\ Launch(n, b).pc = "build" /\ Launch(n, b).path = n
  BY DEF Launch, Worker, Idle

\* Nothing but the request of an app changes, and it ends.
LEMMA Dropped ==
    ASSUME IInv, NEW r \in Reqs, req[r].pc \in Installing,
           req' = [req EXCEPT ![r] = Idle],
           UNCHANGED <<store, up, code, owner, resume, worker, spoiled, bounds>>
    PROVE  IInv'
  <1>a. PICK a \in Apps : a = req[r].app
    BY ReqShape DEF IInv, Types, Installing
  <1>1. ActorsType /\ On(r, a)
    BY <1>a DEF IInv, Types, On, Installing
  <1>2. /\ req' \in [Reqs -> AnyReq] /\ req'[r] = Idle
        /\ \A p \in Reqs \ {r} : req'[p] = req[p]
        /\ \A p \in Reqs \ {r}, b \in Apps : On(p, b)' <=> On(p, b)
        /\ \A b \in Apps : ~On(r, b)'
    BY <1>1, ReqEnds
  <1>3. Types'
    <2>1. ActorsType'
      BY <1>1, <1>2 DEF ActorsType, AnyReq
    <2> QED
      BY <2>1 DEF IInv, Types, RowsType, CodeType, OwnerType, BoundsType, store, owner, bounds, Exists
  <1>4. AppOK(a) /\ ~Exists(a) /\ worker[a] = Idle /\ \A p \in Reqs \ {r} : ~On(p, a)
    BY <1>1 DEF IInv, AppsOK, AppOK, FreshOK
  <1>5. \A m \in Names : a \in Claims(m)' => a \in Claims(m)
    <2>1. ActorsType /\ ActorsType' /\ ~Exists(a)' /\ worker'[a] = worker[a]
      BY <1>1, <1>3, <1>4 DEF Types, store, Exists
    <2>2. \A p \in Reqs : On(p, a)' => req'[p] = req[p]
      BY <1>1, <1>2
    <2> QED
      BY <1>1, <2>1, <2>2, NoNewClaims
  <1>6. ByApp(a)
    BY <1>a, <1>1, <1>2, <1>5 DEF ByApp, OwnRows, OwnReqs, OwnDirs, OwnClaims, store, owner, Idle
  <1>7. FreshOK(a)'
    BY <1>1, <1>2, <1>4 DEF AppOK, FreshOK, store, Exists, On
  <1>8. SoundOK(a)'
    <2>1. ~Exists(a)' /\ worker'[a] = Idle /\ \A p \in Reqs : ~On(p, a)'
      BY <1>1, <1>2, <1>4 DEF store, Exists
    <2> QED
      BY <1>1, <2>1, RestSound
  <1> QED
    BY <1>1, <1>3, <1>6, <1>7, <1>8, StepByApp

LEMMA AddAppStep == ASSUME IInv, AddApp PROVE IInv'
  <1>1. PICK r \in Reqs, n \in Names :
          /\ req[r].pc = "cloned"
          /\ IF Taken(n)
             THEN req' = [req EXCEPT ![r] = Idle] /\ UNCHANGED <<dir, tree, spoiled>>
             ELSE /\ dir' = MovedIn(n, req[r].app)
                  /\ tree' = [tree EXCEPT ![req[r].app] = req[r].commit]
                  /\ req' = [req EXCEPT ![r] = [pc |-> "pick", app |-> req[r].app, to |-> n]]
                  /\ spoiled' = spoiled \cup (IF Wanted(n) = {} THEN {} ELSE Wanted(n) \cup {req[r].app})
          /\ UNCHANGED <<rows, up, code, owner, resume, worker, bounds>>
    BY DEF AddApp, Spoil
  <1>2. CASE Taken(n)
    BY <1>1, <1>2, Dropped DEF store, Installing
  <1>3. CASE ~Taken(n)
    <2>a. ActorsType /\ req[r] \in CloneReq
      BY <1>1, ReqShape DEF IInv, Types
    <2>7. PICK a \in Apps : a = req[r].app
      BY <2>a DEF CloneReq
    <2>b. PICK c \in Commits : c = req[r].commit
      BY <2>a DEF CloneReq
    <2>c. PICK q1 : q1 = [pc |-> "pick", app |-> a, to |-> n]
      OBVIOUS
    <2>1. On(r, a) /\ c # None
      BY <1>1, <2>7, AppSourceAssumption DEF On
    <2>2. q1 \in PickReq /\ q1 \in AnyReq /\ q1 # Idle /\ q1.pc = "pick" /\ q1.app = a /\ q1.to = n
      BY <2>c DEF PickReq, Idle, AnyReq
    <2>3. /\ dir' = MovedIn(n, a) /\ tree' = [tree EXCEPT ![a] = c] /\ req' = [req EXCEPT ![r] = q1]
          /\ spoiled' = spoiled \cup (IF Wanted(n) = {} THEN {} ELSE Wanted(n) \cup {a})
      BY <1>1, <1>3, <2>7, <2>b, <2>c
    <2>4. AppOK(a)
      BY <2>1 DEF IInv, AppsOK
    <2>5. /\ ~Exists(a) /\ worker[a] = Idle /\ tree[a] = None /\ code[a] = None
          /\ \A p \in Reqs \ {r} : ~On(p, a)
          /\ \A t \in 1..Tiers, m \in Names : dir[t][m] # a
      BY <1>1, <2>1, <2>4 DEF AppOK, FreshOK, Installing
    <2>6. q1.app = a /\ NamesOf(q1) = {n}
      BY <2>2, NamesOfAre
    <2>8. /\ req' \in [Reqs -> AnyReq] /\ req'[r] = q1
          /\ \A p \in Reqs \ {r} : req'[p] = req[p]
          /\ \A p \in Reqs \ {r}, b \in Apps : On(p, b)' <=> On(p, b)
      BY <2>a, <2>2, <2>3, ReqChanged
    <2>9. /\ DirType(dir')
          /\ \A t \in 1..Tiers, m \in Names : dir'[t][m] = IF t = Tmp /\ m = n THEN a ELSE dir[t][m]
      BY <2>1, <2>3, MovedInIs DEF IInv, Types, CodeType, DirType
    <2>10. tree' \in [Apps -> Commits \cup {None}] /\ tree'[a] = c /\ \A b \in Apps \ {a} : tree'[b] = tree[b]
      BY <2>1, <2>3 DEF IInv, Types, CodeType
    <2>11. spoiled \subseteq spoiled' /\ spoiled' \subseteq Apps
      <3>1. Wanted(n) \subseteq Claims(n) /\ Claims(n) \subseteq Apps
        BY <2>a, ClaimsAreApps DEF Claims, ClaimsInApps
      <3> QED
        BY <2>1, <2>3, <3>1 DEF IInv, Types, CodeType
    <2>12. Types'
      <3>1. ActorsType'
        BY <1>1, <2>8, <2>a DEF ActorsType, AnyReq
      <3>2. CodeType'
        BY <1>1, <2>9, <2>10, <2>11 DEF IInv, Types, CodeType, DirType
      <3> QED
        BY <1>1, <3>1, <3>2 DEF IInv, Types, RowsType, OwnerType, BoundsType, owner, bounds, Exists
    <2>13. \A m \in Names : a \in Claims(m)' => a \in Claims(m) \/ m = n
      <3>1. ActorsType /\ ActorsType' /\ ~Exists(a)' /\ worker'[a] = worker[a]
        BY <1>1, <2>a, <2>5, <2>12 DEF Types, Exists
      <3>2. \A p \in Reqs : On(p, a)' =>
              req'[p] = req[p] \/ \A m \in NamesOf(req'[p]) : a \in Claims(m) \/ m = n
        BY <2>6, <2>8
      <3> QED
        BY <2>1, <3>1, <3>2, ClaimsFrom
    <2>14. a \in Claims(n)'
      <3>1. Claimed'
        BY ClaimsAre, PTL
      <3>2. On(r, a)' /\ NamesOf(req[r])' = {n}
        BY <2>2, <2>6, <2>8 DEF On, NamesOf
      <3>3. ClaimedBy(a, n)'
        BY <3>2 DEF ClaimedBy
      <3> QED
        BY <2>1, <2>12, <3>1, <3>3 DEF Claimed, Types
    <2>15. \A b \in Claims(n) \ {a} : {a, b} \subseteq spoiled'
      <3>1. Claims(n) = Wanted(n)
        BY <1>3 DEF Claims, Taken
      <3> QED
        BY <2>3, <3>1
    <2>16. ByApp(a)
      <3>1. \A p \in Reqs : req'[p] = req[p] \/ ((req[p].pc = "idle" \/ req[p].app = a) /\ (req'[p].pc = "idle" \/ req'[p].app = a))
        BY <2>6, <2>7, <2>8
      <3>2. \A m \in Names : a \in Claims(m) \/ a \in Claims(m)' \/ \A t \in 1..Tiers : dir'[t][m] = dir[t][m]
        BY <2>9, <2>14
      <3>3. \A b \in Apps \ {a}, t \in 1..Tiers, m \in Names : dir'[t][m] = b => dir[t][m] = b
        BY <2>9
      <3>4. \A m \in Names : a \in Claims(m)' /\ a \notin Claims(m) => \A b \in Claims(m) \ {a} : {a, b} \subseteq spoiled'
        BY <2>13, <2>15
      <3> QED
        BY <1>1, <2>10, <2>11, <3>1, <3>2, <3>3, <3>4 DEF ByApp, OwnRows, OwnReqs, OwnDirs, OwnClaims, owner
    <2>17. FreshOK(a)'
      BY <1>1, <2>1, <2>2, <2>5, <2>8, <2>10 DEF FreshOK, Exists, On, Installing
    <2>18. SoundOK(a)'
      <3>1. Lives(a, Tmp, n)'
        BY <2>5, <2>9, TmpTier DEF Lives
      <3>2. ReqOK(a, req[r])'
        BY <2>2, <2>8, <3>1 DEF ReqOK, Updating, Renaming, Lives
      <3>3. On(r, a)' /\ (\A p \in Reqs \ {r} : ~On(p, a)') /\ worker'[a] = Idle /\ ~Exists(a)'
        BY <1>1, <2>1, <2>2, <2>5, <2>8 DEF On, Exists
      <3> QED
        BY <2>1, <3>2, <3>3, ReqSound
    <2> QED
      BY <2>1, <2>12, <2>16, <2>17, <2>18, StepByApp
  <1> QED
    BY <1>2, <1>3

LEMMA PickPortsStep == ASSUME IInv, PickPorts PROVE IInv'
  <1>1. PICK r \in Reqs : /\ req[r].pc = "pick"
                          /\ LET a == req[r].app
                                 local == Min(Free(a))
                             IN \/ req' = [req EXCEPT ![r] = Idle]
                                \/ /\ Free(a) # {}
                                   /\ \E host \in IF Maps[tree[a]] THEN Free(a) \ {local} ELSE {0} :
                                        req' = [req EXCEPT ![r] = [pc |-> "insert", app |-> a, to |-> req[r].to,
                                                                   local |-> local, host |-> host]]
                          /\ UNCHANGED <<store, up, code, owner, resume, worker, spoiled, bounds>>
    BY DEF PickPorts
  <1>2. CASE req' = [req EXCEPT ![r] = Idle]
    BY <1>1, <1>2, Dropped DEF Installing
  <1>3. CASE req' # [req EXCEPT ![r] = Idle]
    <2>1. ActorsType /\ req[r] \in PickReq
      BY <1>1, ReqShape DEF IInv, Types
    <2>2. PICK a \in Apps : a = req[r].app
      BY <2>1 DEF PickReq
    <2>3. PICK n \in Names : n = req[r].to
      BY <2>1 DEF PickReq
    <2>4. On(r, a) /\ req[r].pc \in Installing
      BY <1>1, <2>2 DEF On, Installing
    <2>5. Free(a) # {} /\ Min(Free(a)) \in Free(a) /\ Free(a) \subseteq Ports
      <3>1. Free(a) \in SUBSET Ports /\ Free(a) # {}
        BY <1>1, <1>3, <2>2 DEF Free
      <3>2. Free(a) \in SUBSET Nat
        BY <3>1, AppSourceAssumption
      <3> QED
        BY <3>1, <3>2, MinIsThere
    <2>6. PICK host \in Ports \cup {0} :
            req' = [req EXCEPT ![r] = [pc |-> "insert", app |-> a, to |-> n,
                                       local |-> Min(Free(a)), host |-> host]]
      BY <1>1, <1>3, <2>2, <2>3, <2>5
    <2>7. PICK q1 : q1 = [pc |-> "insert", app |-> a, to |-> n, local |-> Min(Free(a)), host |-> host]
      OBVIOUS
    <2>8. q1 \in InsertReq /\ q1 \in AnyReq /\ q1.pc = "insert" /\ q1.app = a /\ q1.to = n
      BY <2>5, <2>7 DEF InsertReq, AnyReq
    <2>9. AppOK(a) /\ ~Exists(a) /\ worker[a] = Idle /\ tree[a] # None /\ \A p \in Reqs \ {r} : ~On(p, a)
      BY <1>1, <2>4 DEF IInv, AppsOK, AppOK, FreshOK
    <2>10. RowsType' /\ CodeType' /\ OwnerType' /\ BoundsType'
      BY <1>1 DEF IInv, Types, RowsType, CodeType, OwnerType, BoundsType, store, owner, bounds, Exists
    <2>11. OwnRows(a) /\ OwnDirs(a)
      BY <1>1 DEF OwnRows, OwnDirs, store, owner
    <2>12. \A m \in NamesOf(q1) : a \in Claims(m)
      <3>1. NamesOf(q1) = {n} /\ NamesOf(req[r]) = {n}
        BY <1>1, <2>1, <2>3, <2>8, NamesOfAre
      <3> QED
        BY <2>1, <2>4, <3>1, ClaimsAre DEF Claimed, ClaimedBy
    <2>13. /\ ActorsType' /\ ByApp(a) /\ req'[r] = q1
           /\ \A p \in Reqs \ {r} : req'[p] = req[p]
           /\ \A p \in Reqs \ {r}, b \in Apps : On(p, b)' <=> On(p, b)
      <3>1. /\ req' = [req EXCEPT ![r] = q1]
            /\ worker'[a] # Idle => worker'[a] = worker[a] \/ ClaimsPath(a, worker'[a])
            /\ worker' \in [Apps -> Worker \cup {Idle}]
        BY <1>1, <2>1, <2>6, <2>7 DEF ActorsType
      <3>2. ~Exists(a)'
        BY <1>1, <2>9 DEF store, Exists
      <3>3. q1 \in AnyReq /\ q1.app = a /\ q1.pc # "idle" /\ \A m \in NamesOf(q1) : a \in Claims(m)
        BY <2>8, <2>12
      <3>4. Exists(a)' => ClaimsRow(a, rows'[a])
        BY <3>2
      <3>5. q1 = Idle \/ (q1 \in AnyReq /\ q1.app = a /\ q1.pc # "idle" /\ \A m \in NamesOf(q1) : a \in Claims(m))
        BY <3>3
      <3>6. On(r, a) \/ req[r] = Idle
        BY <2>4
      <3> QED
        BY <2>10, <2>11, <3>1, <3>4, <3>5, <3>6, ReqStep, Zenon
    <2>14. FreshOK(a)'
      BY <1>1, <2>4, <2>8, <2>9, <2>13 DEF AppOK, FreshOK, store, Exists, On, Installing
    <2>15. ASSUME a \notin spoiled' PROVE SoundOK(a)'
      <3>1. a \notin spoiled /\ ReqOK(a, req[r])
        BY <1>1, <2>4, <2>9, <2>15 DEF AppOK, SoundOK
      <3>2. ReqOK(a, req[r])'
        BY <1>1, <2>3, <2>8, <2>13, <3>1 DEF ReqOK, Updating, Renaming, Lives, store
      <3>3. On(r, a)' /\ (\A p \in Reqs \ {r} : ~On(p, a)') /\ worker'[a] = Idle /\ ~Exists(a)'
        BY <1>1, <2>8, <2>9, <2>13 DEF On, Exists, store
      <3> QED
        BY <3>2, <3>3, ReqSound
    <2> QED
      BY <2>10, <2>13, <2>14, <2>15, StepByApp DEF Types
  <1> QED
    BY <1>2, <1>3

\* An upstream is a fact about the rest of the world.
LEMMA UpstreamStep == ASSUME IInv, UpstreamMoves PROVE IInv'
  <1>1. PICK a \in Apps, c \in Commits : up' = [up EXCEPT ![a] = c] /\ ops < MaxOps /\ ops' = ops + 1
    BY DEF UpstreamMoves
  <1>2. UNCHANGED <<rows, dir, tree, code, grants, accepted, resume, req, worker, spoiled, faults>>
    BY DEF UpstreamMoves, store, owner
  <1>3. Types'
    <2>1. BoundsType'
      BY <1>1, <1>2, AppSourceAssumption DEF IInv, Types, BoundsType
    <2> QED
      BY <1>1, <1>2, <2>1 DEF IInv, Types, RowsType, CodeType, OwnerType, ActorsType, Exists
  <1>4. (\A b \in Apps : Exists(b)' <=> Exists(b)) /\ (\A r \in Reqs, b \in Apps : On(r, b)' <=> On(r, b))
    BY <1>2 DEF Exists, On
  <1>5. \A m \in Names : Claims(m)' = Claims(m)
    BY <1>2 DEF Claims, Wanted, NamesOf, Exists
  <1>6. ByApp(a)
    BY <1>2, <1>5 DEF ByApp, OwnRows, OwnReqs, OwnDirs, OwnClaims
  <1>7. AppOK(a)
    BY DEF IInv, AppsOK
  <1>8. FreshOK(a)'
    BY <1>2, <1>4, <1>7 DEF AppOK, FreshOK
  <1>9. ASSUME a \notin spoiled' PROVE SoundOK(a)'
    <2>1. SoundOK(a)
      BY <1>2, <1>7, <1>9 DEF AppOK
    <2>2. AloneOK(a)' /\ (Exists(a)' => OwnedOK(a)')
      BY <1>2, <1>4, <2>1 DEF SoundOK, AloneOK, OwnedOK, Accepted, Vetted, Known
    <2>3. (Home(a)' <=> Home(a)) /\ (Busy(a)' <=> Busy(a))
      BY <1>2 DEF Home, Lives, Busy
    <2>4. \A r \in Reqs : On(r, a)' => ReqOK(a, req[r])'
      BY <1>2, <1>4, <2>1, <2>3
         DEF SoundOK, ReqOK, UpdateOK, RenameOK, Lives, Fits, Accepted, Vetted, Known, Lost
    <2> QED
      BY <1>2, <1>4, <2>1, <2>2, <2>3, <2>4
         DEF SoundOK, WorkerOK, RestOK, Fits, Accepted, Vetted, Known, Lost, Path
  <1> QED
    BY <1>3, <1>6, <1>8, <1>9, StepByApp

LEMMA InsertStep == ASSUME IInv, Insert PROVE IInv'
  <1>1. PICK r \in Reqs, ticked \in SUBSET Perms :
          /\ req[r].pc = "insert"
          /\ LET a == req[r].app
                 n == req[r].to
                 clash == Taken(n) \/ \E b \in Apps : Exists(b) /\
                            (rows[b].local = req[r].local \/ (req[r].host # 0 /\ rows[b].host = req[r].host))
             IN /\ ticked \subseteq Manifest(tree[a]).perms
                /\ dir' = IF clash THEN Made(n, a) ELSE TakenOver(n, a)
                /\ IF clash
                   THEN ticked = {} /\ UNCHANGED <<rows, owner, worker>>
                   ELSE /\ rows' = [rows EXCEPT ![a] = Row(n, tree[a], req[r].local, req[r].host)]
                        /\ grants' = [grants EXCEPT ![a] = ticked]
                        /\ accepted' = [accepted EXCEPT ![a] =
                             [perms |-> Declares[tree[a]], maps |-> {Maps[tree[a]]}]]
                        /\ worker' = [worker EXCEPT ![a] = Launch(n, FALSE)]
          /\ req' = [req EXCEPT ![r] = Idle]
          /\ UNCHANGED <<tree, up, code, resume, spoiled, bounds>>
    BY DEF Insert
  <1>2. ActorsType /\ req[r] \in InsertReq
    BY <1>1, ReqShape DEF IInv, Types
  <1>3. PICK a \in Apps : a = req[r].app
    BY <1>2 DEF InsertReq
  <1>4. PICK n \in Names : n = req[r].to
    BY <1>2 DEF InsertReq
  <1>5. PICK clash \in BOOLEAN :
          clash <=> (Taken(n) \/ \E b \in Apps : Exists(b) /\
                       (rows[b].local = req[r].local \/ (req[r].host # 0 /\ rows[b].host = req[r].host)))
    OBVIOUS
  <1>6. PICK c \in Commits : c = tree[a]
    <2>1. tree[a] # None
      BY <1>1, <1>2, <1>3 DEF IInv, AppsOK, AppOK, FreshOK, On
    <2> QED
      BY <2>1 DEF IInv, Types, CodeType
  <1>7. PICK row \in AppRow : /\ row = Row(n, c, req[r].local, req[r].host)
                              /\ row # None /\ row.name = n /\ row.man = c
                              /\ row.root = Root /\ row.path = n
    <2>1. req[r].local \in Ports /\ req[r].host \in Ports \cup {0}
      BY <1>2 DEF InsertReq
    <2>2. Row(n, c, req[r].local, req[r].host) \in AppRow
      BY <2>1, AppSourceAssumption DEF Row, AppRow, Statuses
    <2>3. /\ Row(n, c, req[r].local, req[r].host).name = n
          /\ Row(n, c, req[r].local, req[r].host).man = c
          /\ Row(n, c, req[r].local, req[r].host).root = Root
          /\ Row(n, c, req[r].local, req[r].host).path = n
      BY DEF Row
    <2> QED
      BY <2>2, <2>3, NoneAssumption
  <1>8. /\ ticked \subseteq Declares[c]
        /\ dir' = IF clash THEN Made(n, a) ELSE TakenOver(n, a)
        /\ clash => UNCHANGED <<rows, grants, accepted, worker>>
        /\ ~clash => /\ rows' = [rows EXCEPT ![a] = row]
                     /\ grants' = [grants EXCEPT ![a] = ticked]
                     /\ accepted' = [accepted EXCEPT ![a] = [perms |-> Declares[c], maps |-> {Maps[c]}]]
                     /\ worker' = [worker EXCEPT ![a] = Launch(n, FALSE)]
    <2>1. Manifest(c).perms = Declares[c]
      BY DEF Manifest
    <2> QED
      BY <1>1, <1>3, <1>4, <1>5, <1>6, <1>7, <2>1 DEF owner
  <1>9. On(r, a) /\ req[r].pc \in Installing
    BY <1>1, <1>3 DEF On, Installing
  <1>10. AppOK(a) /\ ~Exists(a) /\ worker[a] = Idle /\ code[a] = None /\ \A p \in Reqs \ {r} : ~On(p, a)
    BY <1>9 DEF IInv, AppsOK, AppOK, FreshOK
  <1>11. a \in Claims(n)
    <2>1. NamesOf(req[r]) = {n}
      BY <1>2, <1>4, NamesOfAre
    <2> QED
      BY <1>2, <1>9, <2>1, ClaimsAre DEF Claimed, ClaimedBy
  <1>12. /\ DirType(dir')
         /\ \A t \in 1..Tiers, m \in Names :
              dir'[t][m] = IF m = n /\ t # Tmp /\ (clash => dir[t][n] = None) THEN a ELSE dir[t][m]
    BY <1>8, MadeIs, TakenOverIs DEF IInv, Types, CodeType, DirType
  <1>13. RowsType'
    <2>1. CASE clash
      BY <1>8, <2>1 DEF IInv, Types, RowsType, Exists
    <2>2. CASE ~clash
      <3>1. rows' \in [Apps -> AppRow \cup {None}] /\ rows'[a] = row /\ \A b \in Apps \ {a} : rows'[b] = rows[b]
        BY <1>8, <2>2 DEF IInv, Types, RowsType
      <3>2. \A b \in Apps \ {a} : rows[b] # None => rows[b].name # n
        BY <1>5, <2>2 DEF Taken, Exists
      <3> QED
        BY <1>7, <3>1, <3>2 DEF IInv, Types, RowsType, Exists
    <2> QED
      BY <2>1, <2>2
  <1>14. OwnerType' /\ worker' \in [Apps -> Worker \cup {Idle}]
    <2>1. CASE clash
      BY <1>2, <1>8, <2>1 DEF IInv, Types, OwnerType, ActorsType
    <2>2. CASE ~clash
      <3>1. [perms |-> Declares[c], maps |-> {Maps[c]}] \in [perms : SUBSET Perms, maps : SUBSET BOOLEAN]
        BY AppSourceAssumption
      <3>2. Launch(n, FALSE) \in Worker
        BY LaunchIs
      <3>3. worker' \in [Apps -> Worker \cup {Idle}]
        BY <1>2, <1>8, <2>2, <3>2 DEF ActorsType
      <3>4. ticked \in SUBSET Perms
        OBVIOUS
      <3>5. grants \in [Apps -> SUBSET Perms] /\ accepted \in [Apps -> [perms : SUBSET Perms, maps : SUBSET BOOLEAN]]
        BY DEF IInv, Types, OwnerType
      <3>6. grants' \in [Apps -> SUBSET Perms]
        BY <1>8, <2>2, <3>4, <3>5
      <3>7. accepted' \in [Apps -> [perms : SUBSET Perms, maps : SUBSET BOOLEAN]]
        <4> HIDE DEF IInv
        <4>1. PICK k \in [perms : SUBSET Perms, maps : SUBSET BOOLEAN] : k = [perms |-> Declares[c], maps |-> {Maps[c]}]
          BY <3>1
        <4>2. accepted' = [accepted EXCEPT ![a] = k]
          BY <1>8, <2>2, <4>1
        <4> QED
          BY <3>5, <4>2
      <3> QED
        BY <3>3, <3>6, <3>7 DEF OwnerType
    <2> QED
      BY <2>1, <2>2
  <1>15. CodeType' /\ BoundsType'
    BY <1>1, <1>12 DEF IInv, Types, CodeType, BoundsType, bounds, DirType
  <1>16. OwnRows(a)
    <2>1. CASE clash
      BY <1>1, <1>8, <2>1 DEF OwnRows
    <2>2. CASE ~clash
      BY <1>1, <1>2, <1>8, <2>2 DEF OwnRows, IInv, Types, RowsType, OwnerType, ActorsType
    <2> QED
      BY <2>1, <2>2
  <1>17. OwnDirs(a)
    BY <1>1, <1>11, <1>12 DEF OwnDirs
  <1>18. /\ worker'[a] # Idle => worker'[a] = worker[a] \/ ClaimsPath(a, worker'[a])
         /\ Exists(a)' => ClaimsRow(a, rows'[a])
    <2>1. CASE clash
      BY <1>8, <1>10, <2>1 DEF Exists
    <2>2. CASE ~clash
      <3>1. worker'[a] = Launch(n, FALSE) /\ rows'[a] = row
        BY <1>2, <1>8, <2>2 DEF IInv, Types, RowsType, ActorsType
      <3> QED
        BY <1>7, <1>11, <3>1, LaunchIs DEF ClaimsRow, ClaimsPath
    <2> QED
      BY <2>1, <2>2
  <1>19. /\ ActorsType' /\ ByApp(a) /\ req'[r] = Idle
         /\ \A p \in Reqs \ {r} : req'[p] = req[p]
         /\ \A p \in Reqs \ {r}, b \in Apps : On(p, b)' <=> On(p, b)
    <2>1. req' = [req EXCEPT ![r] = Idle]
      BY <1>1
    <2>2. On(r, a) \/ req[r] = Idle
      BY <1>9
    <2>3. Idle = Idle \/ (Idle \in AnyReq /\ Idle.app = a /\ Idle.pc # "idle" /\ \A m \in NamesOf(Idle) : a \in Claims(m))
      OBVIOUS
    <2> QED
      BY <1>13, <1>14, <1>16, <1>17, <1>18, <2>1, <2>2, <2>3, ReqStep, Zenon
  <1>20. \A p \in Reqs : ~On(p, a)'
    BY <1>10, <1>19 DEF On, Idle
  <1>21. FreshOK(a)'
    BY <1>1, <1>6, <1>10, <1>20, AppSourceAssumption DEF FreshOK
  <1>22. ASSUME a \notin spoiled' PROVE SoundOK(a)'
    <2>1. CASE clash
      <3>1. ~Exists(a)' /\ worker'[a] = Idle
        BY <1>8, <1>10, <2>1 DEF Exists
      <3> QED
        BY <1>20, <3>1, RestSound
    <2>2. CASE ~clash
      <3>1. rows'[a] = row /\ worker'[a] = Launch(n, FALSE) /\ grants'[a] = ticked
            /\ accepted'[a] = [perms |-> Declares[c], maps |-> {Maps[c]}]
        BY <1>2, <1>8, <2>2 DEF IInv, Types, RowsType, ActorsType, OwnerType
      <3>2. code'[a] = None /\ tree'[a] = c
        BY <1>1, <1>6, <1>10
      <3>3. Lives(a, Tmp, n)
        BY <1>1, <1>4, <1>9, <1>10, <1>22 DEF AppOK, SoundOK, ReqOK
      <3>4. Home(a)'
        BY <1>7, <1>12, <2>2, <3>1, <3>3 DEF Home, Lives
      <3>5. OwnedOK(a)'
        BY <1>7, <1>8, <3>1, <3>2 DEF OwnedOK, Accepted, Manifest, Vetted, Known
      <3>6. WorkerOK(a)'
        <4>1. Vetted(a, c)'
          BY <1>7, <3>1, <3>5 DEF OwnedOK
        <4>2. rows'[a].path = n /\ rows'[a].root = Root /\ rows'[a].name = n /\ rows'[a].man = c
          BY <1>7, <3>1
        <4> QED
          BY <3>1, <3>2, <3>4, <4>1, <4>2, LaunchIs DEF WorkerOK, Known, Lost, Path
      <3> QED
        BY <1>20, <3>1, <3>5, <3>6, LaunchIs, WorkerSound
    <2> QED
      BY <2>1, <2>2
  <1> QED
    BY <1>13, <1>14, <1>15, <1>19, <1>21, <1>22, StepByApp DEF Types

-----------------------------------------------------------------------------
(* Updating                                                                *)

LEMMA NoRepositoryStep == ASSUME IInv, NoRepository PROVE IInv'
  <1>1. PICK a \in Apps :
          /\ ops < MaxOps /\ ops' = ops + 1 /\ Exists(a) /\ ~HasGit(Path(a))
          /\ rows' = SetStatus(a, "error")
          /\ UNCHANGED <<dir, tree, up, code, owner, resume, req, worker, spoiled, faults>>
    BY DEF NoRepository, Ask
  <1>2. /\ RowsType' /\ Exists(a)'
        /\ \A b \in Apps \ {a} : rows'[b] = rows[b]
        /\ rows'[a].status = "error" /\ rows'[a].name = rows[a].name
        /\ rows'[a].root = rows[a].root /\ rows'[a].path = rows[a].path
        /\ rows'[a].man = rows[a].man /\ ClaimsRow(a, rows'[a])
    <2>1. "error" \in Statuses
      BY DEF Statuses
    <2> QED
      BY <1>1, <2>1, StatusStep
  <1>3. CodeType' /\ OwnerType' /\ BoundsType'
    BY <1>1, AppSourceAssumption DEF IInv, Types, CodeType, OwnerType, BoundsType, owner
  <1>4. OwnRows(a) /\ OwnDirs(a)
    BY <1>1, <1>2 DEF OwnRows, OwnDirs, owner
  <1>5. ActorsType' /\ ByApp(a) /\ \A p \in Reqs, b \in Apps : On(p, b)' <=> On(p, b)
    <2>1. worker' \in [Apps -> Worker \cup {Idle}] /\ req' = req /\ worker'[a] = worker[a]
      BY <1>1 DEF IInv, Types, ActorsType
    <2> QED
      BY <1>2, <1>4, <2>1, OwnStep, Zenon
  <1>6. AppOK(a)
    BY DEF IInv, AppsOK
  <1>7. FreshOK(a)'
    BY <1>1, <1>2, <1>5, <1>6 DEF AppOK, FreshOK
  <1>8. ASSUME a \notin spoiled' PROVE SoundOK(a)'
    <2>1. SoundOK(a) /\ a \notin spoiled
      BY <1>1, <1>6, <1>8 DEF AppOK
    <2>2. OwnedOK(a) /\ AloneOK(a)
      BY <1>1, <2>1 DEF SoundOK
    <2>3. OwnedOK(a)'
      BY <1>1, <1>2, <2>2 DEF OwnedOK, Accepted, owner, Vetted, Known
    <2>4. Home(a) => Home(a)'
      BY <1>1, <1>2 DEF Home, Lives
    <2>5. CASE worker[a] # Idle
      <3>1. (\A q \in Reqs : ~On(q, a)) /\ WorkerOK(a)
        BY <1>1, <2>1, <2>2, <2>5 DEF SoundOK, AloneOK
      <3>2. WorkerOK(a)'
        BY <1>1, <1>2, <2>4, <3>1 DEF WorkerOK, Accepted, owner, Vetted, Known, Lost, Path
      <3>3. (\A q \in Reqs : ~On(q, a)') /\ worker'[a] # Idle
        BY <1>1, <1>5, <2>5, <3>1
      <3> QED
        BY <2>3, <3>2, <3>3, WorkerSound
    <2>6. ASSUME NEW r \in Reqs, On(r, a) PROVE SoundOK(a)'
      <3>1. ReqOK(a, req[r]) /\ worker[a] = Idle /\ \A p \in Reqs \ {r} : ~On(p, a)
        BY <2>1, <2>2, <2>6 DEF SoundOK, AloneOK
      <3>2. req[r].pc \notin Installing
        BY <1>1, <1>6, <2>6 DEF AppOK, FreshOK
      <3>3. req[r].pc \notin Updating
        BY <1>1, <2>2, <3>1, AtIs DEF ReqOK, UpdateOK, OwnedOK
      <3>4. req[r].pc \in Renaming
        BY <2>6, <3>2, <3>3, ReqShape DEF IInv, Types, On
      <3>5. RenameOK(a, req[r])
        BY <1>1, <3>1, <3>4 DEF ReqOK
      <3>6. RenameOK(a, req[r])'
        BY <1>1, <1>2, <3>5 DEF RenameOK, Lives, Fits, Accepted, owner, Vetted, Known, Lost
      <3>7. ReqOK(a, req[r])'
        BY <1>1, <3>4, <3>6 DEF ReqOK, Updating, Renaming
      <3>8. On(r, a)' /\ (\A p \in Reqs \ {r} : ~On(p, a)') /\ worker'[a] = Idle
        BY <1>1, <1>5, <2>6, <3>1
      <3> QED
        BY <2>3, <3>7, <3>8, ReqSound
    <2>7. CASE worker[a] = Idle /\ \A q \in Reqs : ~On(q, a)
      <3>1. RestOK(a)
        BY <1>1, <2>1, <2>7, BusyIs DEF SoundOK
      <3>2. RestOK(a)'
        BY <1>1, <1>2, <2>4, <3>1
           DEF RestOK, Settled, Fits, Accepted, owner, Vetted, Known, Lost
      <3>3. (\A q \in Reqs : ~On(q, a)') /\ worker'[a] = Idle
        BY <1>1, <1>5, <2>7
      <3> QED
        BY <2>3, <3>2, <3>3, RestSound
    <2> QED
      BY <2>5, <2>6, <2>7
  <1> QED
    BY <1>2, <1>3, <1>5, <1>7, <1>8, StepByApp DEF Types

\* The mark of an app at which two are at work.
LEMMA OverlapIs ==
    ASSUME IInv, NEW a \in Apps
    PROVE  Overlap(a) \subseteq Apps /\ (a \notin Overlap(a) => ~Busy(a))
  BY DEF Overlap

LEMMA BeginUpdateStep == ASSUME IInv, BeginUpdate PROVE IInv'
  <1>0. PICK r \in Reqs, a \in Apps, approve \in BOOLEAN, again \in BOOLEAN :
          /\ LoopFree /\ req[r] = Idle /\ Exists(a) /\ HasGit(Path(a))
          /\ IF again THEN a \in resume /\ resume' = resume \ {a} /\ ~approve /\ UNCHANGED ops
             ELSE Ask /\ UNCHANGED resume
          /\ req' = [req EXCEPT ![r] =
               [pc |-> "pull", app |-> a, approve |-> approve, again |-> again, retried |-> again,
                path |-> Path(a), man |-> rows[a].man, pre |-> At(a)]]
          /\ Spoil(Overlap(a))
          /\ UNCHANGED <<store, up, code, owner, worker, faults>>
    BY Zenon DEF BeginUpdate
  <1>1. /\ req[r] = Idle /\ Exists(a) /\ HasGit(Path(a))
        /\ IF again THEN a \in resume /\ resume' = resume \ {a} /\ UNCHANGED ops
           ELSE ops < MaxOps /\ ops' = ops + 1 /\ UNCHANGED resume
        /\ req' = [req EXCEPT ![r] =
             [pc |-> "pull", app |-> a, approve |-> approve, again |-> again, retried |-> again,
              path |-> Path(a), man |-> rows[a].man, pre |-> At(a)]]
        /\ spoiled' = spoiled \cup Overlap(a)
        /\ UNCHANGED <<store, up, code, owner, worker, faults>>
    BY <1>0 DEF Ask, Spoil
  <1>2. PICK q1 : q1 = [pc |-> "pull", app |-> a, approve |-> approve, again |-> again, retried |-> again,
                        path |-> Path(a), man |-> rows[a].man, pre |-> At(a)]
    OBVIOUS
  <1>3. At(a) \in Commits
    BY <1>1, GitIs, AtIs DEF At, HasGit
  <1>4. /\ Path(a) \in Names /\ rows[a].man \in Commits /\ a \in Claims(Path(a))
        /\ ClaimsRow(a, rows[a])
    BY <1>1, OwnNames DEF IInv, Types, RowsType, Exists, AppRow, Path, HasGit, ClaimsRow
  <1>5. /\ q1 \in UpdateReq /\ q1 \in AnyReq /\ q1.app = a /\ q1.pc = "pull"
        /\ q1.path = Path(a) /\ q1.man = rows[a].man /\ q1.pre = At(a)
    BY <1>2, <1>3, <1>4 DEF UpdateReq, Updating, AnyReq
  <1>6. RowsType' /\ CodeType' /\ OwnerType' /\ BoundsType'
    BY <1>1, OverlapIs, AppSourceAssumption
       DEF IInv, Types, RowsType, CodeType, OwnerType, BoundsType, store, owner, Exists
  <1>7. OwnRows(a) /\ OwnDirs(a)
    BY <1>1 DEF OwnRows, OwnDirs, store, owner
  <1>8. /\ ActorsType' /\ ByApp(a) /\ req'[r] = q1
        /\ \A p \in Reqs \ {r} : req'[p] = req[p]
        /\ \A p \in Reqs \ {r}, b \in Apps : On(p, b)' <=> On(p, b)
    <2>1. \A m \in NamesOf(q1) : a \in Claims(m)
      BY <1>4, <1>5, NamesOfAre
    <2>2. q1 = Idle \/ (q1 \in AnyReq /\ q1.app = a /\ q1.pc # "idle" /\ \A m \in NamesOf(q1) : a \in Claims(m))
      BY <1>5, <2>1
    <2>3. /\ req' = [req EXCEPT ![r] = q1] /\ worker'[a] = worker[a] /\ worker' \in [Apps -> Worker \cup {Idle}]
          /\ rows'[a] = rows[a]
      BY <1>1, <1>2 DEF IInv, Types, ActorsType, store
    <2>4. On(r, a) \/ req[r] = Idle
      BY <1>1
    <2>5. Exists(a)' => ClaimsRow(a, rows'[a])
      BY <1>4, <2>3
    <2> QED
      BY <1>6, <1>7, <2>2, <2>3, <2>4, <2>5, ReqStep, Zenon
  <1>9. FreshOK(a)'
    <2>1. FreshOK(a) /\ tree[a] # None
      BY <1>1, AtIs, AppSourceAssumption DEF IInv, AppsOK, AppOK
    <2> QED
      BY <1>1, <1>5, <1>8, <2>1 DEF FreshOK, store, Exists, On, Installing
  <1>10. ASSUME a \notin spoiled' PROVE SoundOK(a)'
    <2>1. a \notin spoiled /\ ~Busy(a)
      BY <1>1, <1>10, OverlapIs
    <2>2. (\A p \in Reqs : ~On(p, a)) /\ worker[a] = Idle /\ OwnedOK(a) /\ RestOK(a)
      BY <1>1, <2>1, AtRest
    <2>3. At(a) = tree[a] /\ a \notin Builtin /\ ~Lost(a) /\ Path(a) = rows[a].name
      BY <1>1, <2>2, AtIs DEF RestOK, OwnedOK, HasGit
    <2>4. UpdateOK(a, req[r])'
      BY <1>1, <1>5, <1>8, <2>2, <2>3
         DEF UpdateOK, RestOK, Home, Lives, Fits, Accepted, store, owner, Vetted, Known, Lost
    <2>5. ReqOK(a, req[r])'
      BY <1>5, <1>8, <2>4 DEF ReqOK, Renaming
    <2>6. OwnedOK(a)'
      BY <1>1, <2>2 DEF OwnedOK, Accepted, store, owner, Vetted, Known
    <2>7. On(r, a)' /\ (\A p \in Reqs \ {r} : ~On(p, a)') /\ worker'[a] = Idle
      BY <1>1, <1>5, <1>8, <2>2 DEF On
    <2> QED
      BY <2>5, <2>6, <2>7, ReqSound
  <1> QED
    BY <1>6, <1>8, <1>9, <1>10, StepByApp DEF Types

\* An app that is being updated or renamed is not being installed.
LEMMA NotFresh ==
    ASSUME IInv, NEW a \in Apps, NEW r \in Reqs, On(r, a), req[r].pc \in Updating \cup Renaming
    PROVE  tree[a] # None /\ \A p \in Reqs : On(p, a) => req[p].pc \notin Installing
  <1>1. FreshOK(a)
    BY DEF IInv, AppsOK, AppOK
  <1>2. req[r].pc \notin Installing
    BY DEF Updating, Renaming, Installing
  <1>3. req[r].pc # "cloned"
    BY <1>2 DEF Installing
  <1> QED
    BY <1>1, <1>2, <1>3 DEF FreshOK

LEMMA WorkerNotFresh ==
    ASSUME IInv, NEW a \in Apps, worker[a] # Idle \/ Exists(a)
    PROVE  tree[a] # None /\ \A p \in Reqs : On(p, a) => req[p].pc \notin Installing
  <1>1. FreshOK(a)
    BY DEF IInv, AppsOK, AppOK
  <1> QED
    BY <1>1 DEF FreshOK

LEMMA StaysFresh ==
    ASSUME NEW a \in Apps, tree'[a] # None, \A p \in Reqs : On(p, a)' => req'[p].pc \notin Installing,
           Exists(a)' \/ code'[a] = None
    PROVE  FreshOK(a)'
  BY DEF FreshOK

\* A checkout under a name the app has a claim on.
LEMMA TreePut ==
    ASSUME IInv, NEW a \in Apps, NEW n \in Names, a \in Claims(n), NEW c \in Commits,
           dir' = dir, dir[Tmp][n] # None, tree' = [tree EXCEPT ![dir[Tmp][n]] = c]
    PROVE  /\ tree' \in [Apps -> Commits \cup {None}] /\ OwnDirs(a)
           /\ tree[a] # None => tree'[a] # None
           /\ Lives(a, Tmp, n) => tree'[a] = c
  <1>1. PICK b \in Apps : b = dir[Tmp][n]
    BY TmpTier DEF IInv, Types, CodeType
  <1>2. tree \in [Apps -> Commits \cup {None}] /\ c # None
    BY AppSourceAssumption DEF IInv, Types, CodeType
  <1>3. tree' = [tree EXCEPT ![b] = c]
    BY <1>1
  <1>4. tree' \in [Apps -> Commits \cup {None}] /\ tree'[b] = c /\ \A d \in Apps \ {b} : tree'[d] = tree[d]
    BY <1>2, <1>3
  <1>5. OwnDirs(a)
    BY <1>1, <1>2, <1>4 DEF OwnDirs
  <1> QED
    BY <1>1, <1>2, <1>4, <1>5 DEF Lives

LEMMA PullStep == ASSUME IInv, Pull PROVE IInv'
  <1>1. PICK r \in Reqs, outcome \in {"ok", "failed", "half"}, then \in AfterFailure :
          /\ req[r].pc = "pull"
          /\ LET q == req[r]
                 whose == dir[Tmp][q.path]
                 moved == outcome # "failed" /\ HasGit(q.path)
             IN /\ outcome # "failed" => moved
                /\ IF outcome = "half" THEN Fault ELSE NoFault
                /\ tree' = IF moved THEN [tree EXCEPT ![whose] = Target(q.app)] ELSE tree
                /\ IF outcome = "ok"
                   THEN /\ then = "error"
                        /\ req' = [req EXCEPT ![r].pc = "gate"]
                        /\ UNCHANGED <<rows, resume>>
                   ELSE CASE then = "retry" -> /\ ~q.retried /\ req' = [req EXCEPT ![r].retried = TRUE]
                                               /\ UNCHANGED <<rows, resume>>
                          [] then = "oauth" -> /\ ~q.retried \/ (q.again /\ outcome = "failed")
                                               /\ req' = [req EXCEPT ![r] = Idle]
                                               /\ resume' = resume \cup {q.app} /\ UNCHANGED rows
                          [] then = "error" -> /\ req' = [req EXCEPT ![r] = Idle]
                                               /\ rows' = SetStatus(q.app, "error")
                                               /\ UNCHANGED resume
                /\ Spoil(IF outcome = "half" THEN {q.app} ELSE {})
          /\ UNCHANGED <<dir, up, code, owner, worker, ops>>
    BY DEF Pull
  <1>2. ActorsType /\ req[r] \in UpdateReq
    BY <1>1, ReqShape DEF IInv, Types, Updating
  <1>3. PICK q \in UpdateReq : q = req[r] /\ q.pc = "pull"
    BY <1>1, <1>2
  <1>4. PICK a \in Apps : a = q.app
    BY <1>3 DEF UpdateReq
  <1>5. PICK n \in Names : n = q.path
    BY <1>3 DEF UpdateReq
  <1>6. PICK q1 : q1 = IF outcome = "ok" THEN [q EXCEPT !.pc = "gate"]
                       ELSE IF then = "retry" THEN [q EXCEPT !.retried = TRUE] ELSE Idle
    OBVIOUS
  <1>7. On(r, a) /\ a \in Claims(n) /\ NamesOf(q) = {n}
    <2>1. On(r, a)
      BY <1>3, <1>4 DEF On
    <2> QED
      BY <1>2, <1>3, <1>5, <2>1, OwnNames, NamesOfAre DEF IInv, Types, Updating
  <1>8. \/ q1 = Idle
        \/ /\ q1 \in UpdateReq /\ q1 \in AnyReq /\ q1.app = a /\ q1.pc # "idle" /\ q1.path = n
           /\ q1.man = q.man /\ q1.pre = q.pre
           /\ q1.pc = IF outcome = "ok" THEN "gate" ELSE "pull"
    BY <1>3, <1>4, <1>5, <1>6 DEF UpdateReq, Updating, AnyReq
  <1>9. /\ req' = [req EXCEPT ![r] = q1]
        /\ rows' = rows \/ rows' = SetStatus(a, "error")
        /\ outcome = "ok" \/ then = "retry" \/ q1 = Idle
        /\ outcome = "ok" => rows' = rows /\ q1.pc = "gate"
        /\ q1 # Idle => rows' = rows
        /\ resume' = resume \/ resume' = resume \cup {a}
        /\ spoiled' = spoiled \cup (IF outcome = "half" THEN {a} ELSE {})
        /\ IF outcome = "half" THEN Fault ELSE NoFault
        /\ outcome = "failed" => tree' = tree
        /\ outcome # "failed" => HasGit(n) /\ tree' = [tree EXCEPT ![dir[Tmp][n]] = Target(a)]
    <2>1. /\ outcome = "ok" => req' = [req EXCEPT ![r] = [q EXCEPT !.pc = "gate"]]
          /\ outcome # "ok" /\ then = "retry" => req' = [req EXCEPT ![r] = [q EXCEPT !.retried = TRUE]]
          /\ outcome # "ok" /\ then # "retry" => req' = [req EXCEPT ![r] = Idle]
      BY <1>1, <1>3 DEF AfterFailure
    <2>2. req' = [req EXCEPT ![r] = q1]
      BY <1>6, <2>1
    <2>3. outcome = "ok" => rows' = rows /\ q1.pc = "gate"
      BY <1>1, <1>3, <1>6 DEF UpdateReq
    <2>4. outcome = "ok" \/ then = "retry" \/ q1 = Idle
      BY <1>6
    <2>5. /\ rows' = rows \/ rows' = SetStatus(a, "error")
          /\ q1 # Idle => rows' = rows
          /\ resume' = resume \/ resume' = resume \cup {a}
      BY <1>1, <1>3, <1>4, <1>6 DEF AfterFailure
    <2>6. /\ spoiled' = spoiled \cup (IF outcome = "half" THEN {a} ELSE {})
          /\ IF outcome = "half" THEN Fault ELSE NoFault
      BY <1>1, <1>3, <1>4 DEF Spoil
    <2>7. /\ outcome = "failed" => tree' = tree
          /\ outcome # "failed" => HasGit(n) /\ tree' = [tree EXCEPT ![dir[Tmp][n]] = Target(a)]
      BY <1>1, <1>3, <1>4, <1>5
    <2> QED
      BY <2>2, <2>3, <2>4, <2>5, <2>6, <2>7
  <1>10. /\ tree' \in [Apps -> Commits \cup {None}] /\ OwnDirs(a)
         /\ tree[a] # None => tree'[a] # None
         /\ outcome # "failed" /\ Lives(a, Tmp, n) => tree'[a] = Target(a)
    <2>1. CASE outcome = "failed"
      BY <1>1, <1>9, <2>1 DEF OwnDirs, IInv, Types, CodeType
    <2>2. CASE outcome # "failed"
      <3>1. Target(a) \in Commits
        BY DEF Target, IInv, Types, CodeType
      <3> QED
        BY <1>1, <1>7, <1>9, <2>2, <3>1, TreePut DEF HasGit
    <2> QED
      BY <2>1, <2>2
  <1>11. /\ RowsType' /\ (Exists(a)' <=> Exists(a))
         /\ \A b \in Apps \ {a} : rows'[b] = rows[b]
         /\ Exists(a) => /\ rows'[a].name = rows[a].name /\ rows'[a].man = rows[a].man
                         /\ rows'[a].root = rows[a].root /\ rows'[a].path = rows[a].path
                         /\ ClaimsRow(a, rows'[a])
         /\ rows' = rows \/ (Exists(a) => rows'[a].status = "error")
    <2>1. CASE rows' = rows
      BY <2>1, OwnNames DEF IInv, Types, RowsType, Exists
    <2>2. CASE rows' = SetStatus(a, "error")
      <3>1. "error" \in Statuses
        BY DEF Statuses
      <3> QED
        BY <2>2, <3>1, StatusStep
    <2> QED
      BY <1>9, <2>1, <2>2
  <1>12. CodeType' /\ OwnerType' /\ BoundsType'
    BY <1>1, <1>9, <1>10, AppSourceAssumption
       DEF IInv, Types, CodeType, OwnerType, BoundsType, owner, Fault, NoFault
  <1>13. OwnRows(a)
    BY <1>1, <1>9, <1>11 DEF OwnRows, owner
  <1>14. /\ ActorsType' /\ ByApp(a) /\ req'[r] = q1
         /\ \A p \in Reqs \ {r} : req'[p] = req[p]
         /\ \A p \in Reqs \ {r}, b \in Apps : On(p, b)' <=> On(p, b)
    <2>1. q1 = Idle \/ (q1 \in AnyReq /\ q1.app = a /\ q1.pc # "idle" /\ \A m \in NamesOf(q1) : a \in Claims(m))
      BY <1>7, <1>8, NamesOfAre
    <2>2. worker' \in [Apps -> Worker \cup {Idle}] /\ worker'[a] = worker[a]
      BY <1>1, <1>2 DEF ActorsType
    <2>3. On(r, a) \/ req[r] = Idle
      BY <1>7
    <2>4. req' = [req EXCEPT ![r] = q1]
      BY <1>9
    <2>5. worker'[a] # Idle => worker'[a] = worker[a] \/ ClaimsPath(a, worker'[a])
      BY <2>2
    <2>6. Exists(a)' => ClaimsRow(a, rows'[a])
      BY <1>11
    <2>7. RowsType' /\ OwnRows(a) /\ OwnDirs(a)
      BY <1>10, <1>11, <1>13
    <2> QED
      BY <2>1, <2>2, <2>3, <2>4, <2>5, <2>6, <2>7, ReqStep, Zenon
  <1>15. FreshOK(a)'
    <2>1. tree[a] # None /\ \A p \in Reqs : On(p, a) => req[p].pc \notin Installing
      BY <1>1, <1>7, NotFresh DEF Updating
    <2>2. \A p \in Reqs : On(p, a)' => req'[p].pc \notin Installing
      BY <1>8, <1>14, <2>1 DEF On, Idle, Installing
    <2>3. Exists(a)' \/ code'[a] = None
      BY <1>1, <1>11 DEF IInv, AppsOK, AppOK, FreshOK
    <2> QED
      BY <1>10, <2>1, <2>2, <2>3, StaysFresh
  <1>16. ASSUME a \notin spoiled' PROVE SoundOK(a)'
    <2>1. a \notin spoiled /\ outcome \in {"ok", "failed"}
      BY <1>9, <1>16
    <2>2. /\ \A p \in Reqs \ {r} : ~On(p, a)
          /\ worker[a] = Idle /\ ReqOK(a, q) /\ (Exists(a) => OwnedOK(a))
      BY <1>3, <1>7, <2>1, SoloReq
    <2>3. Exists(a) => OwnedOK(a)'
      BY <1>1, <1>11, <2>2 DEF OwnedOK, Accepted, owner, Vetted, Known
    <2>4. worker'[a] = Idle /\ \A p \in Reqs \ {r} : ~On(p, a)'
      BY <1>1, <1>14, <2>2
    <2>5. Exists(a) => UpdateOK(a, q)
      BY <1>3, <2>2 DEF ReqOK, Updating
    <2>6. Exists(a) => Home(a) /\ Home(a)' /\ Lives(a, Tmp, n)
      BY <1>1, <1>5, <1>11, <2>5, TmpTier DEF UpdateOK, Home, Lives, Known, Lost
    <2>7. CASE q1 = Idle
      <3>1. outcome = "failed" /\ tree' = tree
        BY <1>9, <2>1, <2>7 DEF Idle
      <3>2. ASSUME Exists(a) PROVE RestOK(a)'
        <4>1. rows'[a].status \in Settled
          BY <1>11, <2>5, <3>2 DEF UpdateOK, Settled, Known, Lost
        <4>2. Fits(a, tree[a], rows[a].status) /\ rows[a].man = rows'[a].man
          BY <1>3, <1>11, <2>5, <3>2 DEF UpdateOK, Known, Lost
        <4>3. accepted' = accepted /\ (rows' = rows \/ rows'[a].status = "error")
          BY <1>1, <1>11, <3>2 DEF owner
        <4>4. Fits(a, tree[a], rows[a].status)'
          BY <3>1, <4>2, <4>3 DEF Fits, Accepted, Vetted, Known, Lost
        <4> QED
          BY <2>6, <3>2, <4>1, <4>4 DEF RestOK
      <3>3. \A p \in Reqs : ~On(p, a)'
        BY <1>14, <2>4, <2>7 DEF On, Idle
      <3> QED
        BY <1>11, <2>3, <2>4, <3>2, <3>3, RestSound
    <2>8. CASE q1 # Idle
      <3>1. On(r, a)'
        BY <1>8, <1>14, <2>8 DEF On
      <3>2. ASSUME Exists(a) PROVE UpdateOK(a, req[r])'
        <4>1. rows' = rows /\ accepted' = accepted
          BY <1>1, <1>9, <2>8 DEF owner
        <4>2. q1.pc = "pull" => tree' = tree
          BY <1>9, <2>1, <2>8
        <4> QED
          BY <1>3, <1>5, <1>8, <1>14, <2>5, <2>6, <2>8, <3>2, <4>1, <4>2
             DEF UpdateOK, Fits, Accepted, Vetted, Known, Lost
      <3>3. ReqOK(a, req[r])'
        BY <1>8, <1>11, <1>14, <2>8, <3>2 DEF ReqOK, Renaming
      <3> QED
        BY <1>11, <2>3, <2>4, <3>1, <3>3, ReqSound
    <2> QED
      BY <2>7, <2>8
  <1> QED
    BY <1>11, <1>12, <1>14, <1>15, <1>16, StepByApp DEF Types

LEMMA RollBackStep == ASSUME IInv, RollBack PROVE IInv'
  <1>1. PICK r \in Reqs, works \in BOOLEAN :
          /\ req[r].pc = "roll back"
          /\ IF works THEN NoFault ELSE Fault
          /\ LET whose == dir[Tmp][req[r].path]
             IN tree' = IF works /\ HasGit(req[r].path) THEN [tree EXCEPT ![whose] = req[r].pre] ELSE tree
          /\ req' = [req EXCEPT ![r] = Idle]
          /\ spoiled' = spoiled \cup (IF works THEN {} ELSE {req[r].app})
          /\ UNCHANGED <<rows, dir, up, code, owner, resume, worker, ops>>
    BY DEF RollBack, Spoil
  <1>2. ActorsType /\ req[r] \in UpdateReq
    BY <1>1, ReqShape DEF IInv, Types, Updating
  <1>3. PICK q \in UpdateReq : q = req[r] /\ q.pc = "roll back"
    BY <1>1, <1>2
  <1>4. PICK a \in Apps : a = q.app
    BY <1>3 DEF UpdateReq
  <1>5. PICK n \in Names : n = q.path
    BY <1>3 DEF UpdateReq
  <1>6. PICK c \in Commits : c = q.pre
    BY <1>3 DEF UpdateReq
  <1>7. On(r, a) /\ a \in Claims(n)
    <2>1. On(r, a)
      BY <1>3, <1>4 DEF On
    <2> QED
      BY <1>2, <1>3, <1>5, <2>1, OwnNames DEF IInv, Types, Updating
  <1>8. /\ tree' = tree \/ (HasGit(n) /\ tree' = [tree EXCEPT ![dir[Tmp][n]] = c])
        /\ works /\ HasGit(n) => tree' = [tree EXCEPT ![dir[Tmp][n]] = c]
        /\ spoiled' = spoiled \cup (IF works THEN {} ELSE {a})
    BY <1>1, <1>3, <1>4, <1>5, <1>6
  <1>9. /\ tree' \in [Apps -> Commits \cup {None}] /\ OwnDirs(a)
        /\ tree[a] # None => tree'[a] # None
        /\ works /\ Lives(a, Tmp, n) /\ a \notin Builtin => tree'[a] = c
    <2>1. CASE tree' = tree
      <3>1. works /\ Lives(a, Tmp, n) /\ a \notin Builtin => dir[Tmp][n] = a /\ HasGit(n)
        BY AppSourceAssumption DEF Lives, HasGit
      <3>2. works /\ Lives(a, Tmp, n) /\ a \notin Builtin => tree[a] = c
        BY <1>8, <2>1, <3>1 DEF IInv, Types, CodeType
      <3> QED
        BY <1>1, <2>1, <3>2 DEF OwnDirs, IInv, Types, CodeType
    <2>2. CASE HasGit(n) /\ tree' = [tree EXCEPT ![dir[Tmp][n]] = c]
      BY <1>1, <1>7, <2>2, TreePut DEF HasGit
    <2> QED
      BY <1>8, <2>1, <2>2
  <1>10. RowsType' /\ CodeType' /\ OwnerType' /\ BoundsType'
    <2>1. RowsType' /\ OwnerType'
      BY <1>1 DEF IInv, Types, RowsType, OwnerType, owner, Exists
    <2>2. CodeType'
      BY <1>1, <1>8, <1>9 DEF IInv, Types, CodeType
    <2>3. BoundsType'
      <3>1. ops' = ops /\ (faults' = faults \/ (faults < MaxFaults /\ faults' = faults + 1))
        BY <1>1 DEF Fault, NoFault
      <3> QED
        BY <3>1, AppSourceAssumption DEF IInv, Types, BoundsType
    <2> QED
      BY <2>1, <2>2, <2>3
  <1>11. OwnRows(a)
    BY <1>1, <1>8 DEF OwnRows, owner
  <1>12. /\ ActorsType' /\ ByApp(a) /\ req'[r] = Idle
         /\ \A p \in Reqs \ {r} : req'[p] = req[p]
         /\ \A p \in Reqs \ {r}, b \in Apps : On(p, b)' <=> On(p, b)
    <2>1. Idle = Idle \/ (Idle \in AnyReq /\ Idle.app = a /\ Idle.pc # "idle" /\ \A m \in NamesOf(Idle) : a \in Claims(m))
      OBVIOUS
    <2>2. worker' \in [Apps -> Worker \cup {Idle}] /\ worker'[a] = worker[a]
      BY <1>1, <1>2 DEF ActorsType
    <2>3. On(r, a) \/ req[r] = Idle
      BY <1>7
    <2>4. req' = [req EXCEPT ![r] = Idle]
      BY <1>1
    <2>5. worker'[a] # Idle => worker'[a] = worker[a] \/ ClaimsPath(a, worker'[a])
      BY <2>2
    <2>6. Exists(a)' => ClaimsRow(a, rows'[a])
      BY <1>1, OwnNames DEF IInv, Types, Exists
    <2>7. RowsType' /\ OwnRows(a) /\ OwnDirs(a)
      BY <1>9, <1>10, <1>11
    <2> QED
      BY <2>1, <2>2, <2>3, <2>4, <2>5, <2>6, <2>7, ReqStep, Zenon
  <1>13. ~On(r, a)'
    BY <1>12 DEF On, Idle
  <1>14. FreshOK(a)'
    <2>1. tree[a] # None /\ \A p \in Reqs : On(p, a) => req[p].pc \notin Installing
      BY <1>1, <1>7, NotFresh DEF Updating
    <2>2. \A p \in Reqs : On(p, a)' => req'[p].pc \notin Installing
      BY <1>12, <1>13, <2>1
    <2>3. Exists(a)' \/ code'[a] = None
      BY <1>1 DEF IInv, AppsOK, AppOK, FreshOK, Exists
    <2> QED
      BY <1>9, <2>1, <2>2, <2>3, StaysFresh
  <1>15. ASSUME a \notin spoiled' PROVE SoundOK(a)'
    <2>1. a \notin spoiled /\ works
      BY <1>8, <1>15
    <2>2. /\ \A p \in Reqs \ {r} : ~On(p, a)
          /\ worker[a] = Idle /\ ReqOK(a, q) /\ (Exists(a) => OwnedOK(a))
      BY <1>3, <1>7, <2>1, SoloReq
    <2>3. worker'[a] = Idle /\ \A p \in Reqs : ~On(p, a)'
      BY <1>1, <1>12, <1>13, <2>2
    <2>4. ASSUME Exists(a) PROVE OwnedOK(a)' /\ RestOK(a)'
      <3>1. OwnedOK(a)'
        BY <1>1, <2>2, <2>4 DEF OwnedOK, Accepted, owner, Vetted, Known
      <3>2. UpdateOK(a, q)
        BY <1>3, <2>2, <2>4 DEF ReqOK, Updating
      <3>3. Lives(a, Tmp, n) /\ Home(a)'
        BY <1>1, <1>5, <3>2, TmpTier DEF UpdateOK, Home, Lives, Known, Lost
      <3>4. tree'[a] = c
        BY <1>9, <2>1, <3>2, <3>3 DEF UpdateOK
      <3>5. Fits(a, tree[a], rows[a].status)'
        BY <1>1, <1>3, <1>6, <3>2, <3>4 DEF UpdateOK, Fits, Accepted, owner, Vetted, Known, Lost
      <3> QED
        BY <1>1, <3>1, <3>2, <3>3, <3>5 DEF RestOK, UpdateOK, Known, Lost
    <2>5. Exists(a)' => Exists(a)
      BY <1>1 DEF Exists
    <2> QED
      BY <2>3, <2>4, <2>5, RestSound
  <1> QED
    BY <1>10, <1>12, <1>14, <1>15, StepByApp DEF Types

\* What the gate lets through was accepted, before or by it.
LEMMA Reviewed ==
    ASSUME IInv, NEW a \in Apps, NEW c \in Commits, NEW prev \in Commits,
           ~NeedsReview(a, c, prev), Accepted(a, prev), grants[a] \subseteq accepted[a].perms
    PROVE  Accepted(a, c)
  BY DEF NeedsReview, NewPerms, Accepted, Manifest

LEMMA GateStep == ASSUME IInv, Gate PROVE IInv'
  <1>1. PICK r \in Reqs :
          /\ req[r].pc = "gate"
          /\ LET q == req[r]
                 c == Checkout(q.path)
             IN IF ~Parses(c) \/ ~NeedsReview(q.app, c, q.man)
                THEN req' = [req EXCEPT ![r].pc = "claim"] /\ UNCHANGED owner
                ELSE IF ~q.approve
                THEN req' = [req EXCEPT ![r].pc = "roll back"] /\ UNCHANGED owner
                ELSE /\ req' = [req EXCEPT ![r].pc = "claim"]
                     /\ grants' = [grants EXCEPT ![q.app] = @ \cup NewPerms(q.app, c, q.man)]
                     /\ accepted' = [accepted EXCEPT ![q.app] =
                          [perms |-> @.perms \cup Declares[c], maps |-> @.maps \cup {Maps[c]}]]
          /\ UNCHANGED <<store, up, code, resume, worker, spoiled, bounds>>
    BY DEF Gate
  <1>2. ActorsType /\ req[r] \in UpdateReq
    BY <1>1, ReqShape DEF IInv, Types, Updating
  <1>3. PICK q \in UpdateReq : q = req[r] /\ q.pc = "gate"
    BY <1>1, <1>2
  <1>4. PICK a \in Apps : a = q.app
    BY <1>3 DEF UpdateReq
  <1>5. PICK n \in Names : n = q.path
    BY <1>3 DEF UpdateReq
  <1>6. PICK c \in Commits \cup {None} : c = Checkout(n)
    BY CheckoutType
  <1>7. PICK review \in BOOLEAN : review <=> (Parses(c) /\ NeedsReview(a, c, q.man))
    OBVIOUS
  <1>8. PICK to \in {"claim", "roll back"} : to = IF review /\ ~q.approve THEN "roll back" ELSE "claim"
    OBVIOUS
  <1>9. PICK q1 : q1 = [q EXCEPT !.pc = to]
    OBVIOUS
  <1>10. On(r, a) /\ a \in Claims(n)
    <2>1. On(r, a)
      BY <1>3, <1>4 DEF On
    <2> QED
      BY <1>2, <1>3, <1>5, <2>1, OwnNames DEF IInv, Types, Updating
  <1>11. /\ q1 \in UpdateReq /\ q1 \in AnyReq /\ q1.app = a /\ q1.path = n
         /\ q1.man = q.man /\ q1.pre = q.pre /\ q1.pc = to
    BY <1>3, <1>4, <1>5, <1>9 DEF UpdateReq, Updating, AnyReq
  <1>12. /\ req' = [req EXCEPT ![r] = q1]
         /\ ~(review /\ q.approve) => grants' = grants /\ accepted' = accepted
         /\ review /\ q.approve =>
              /\ grants' = [grants EXCEPT ![a] = @ \cup NewPerms(a, c, q.man)]
              /\ accepted' = [accepted EXCEPT ![a] =
                   [perms |-> @.perms \cup Declares[c], maps |-> @.maps \cup {Maps[c]}]]
    <2>1. CASE ~review
      BY <1>1, <1>3, <1>4, <1>5, <1>6, <1>7, <1>8, <1>9, <2>1 DEF owner
    <2>2. CASE review /\ ~q.approve
      BY <1>1, <1>3, <1>4, <1>5, <1>6, <1>7, <1>8, <1>9, <2>2 DEF owner
    <2>3. CASE review /\ q.approve
      BY <1>1, <1>3, <1>4, <1>5, <1>6, <1>7, <1>8, <1>9, <2>3 DEF owner
    <2> QED
      BY <2>1, <2>2, <2>3
  \* What is granted and accepted only grows, by what is reviewed.
  <1>13. /\ grants' \in [Apps -> SUBSET Perms]
         /\ accepted' \in [Apps -> [perms : SUBSET Perms, maps : SUBSET BOOLEAN]]
         /\ \A b \in Apps \ {a} : grants'[b] = grants[b] /\ accepted'[b] = accepted[b]
         /\ accepted[a].perms \subseteq accepted'[a].perms /\ accepted[a].maps \subseteq accepted'[a].maps
         /\ grants[a] \subseteq accepted[a].perms => grants'[a] \subseteq accepted'[a].perms
         /\ review /\ q.approve => Declares[c] \subseteq accepted'[a].perms /\ Maps[c] \in accepted'[a].maps
    <2>0. /\ grants \in [Apps -> SUBSET Perms]
          /\ accepted \in [Apps -> [perms : SUBSET Perms, maps : SUBSET BOOLEAN]]
      BY DEF IInv, Types, OwnerType
    <2>1. CASE ~(review /\ q.approve)
      BY <1>12, <2>0, <2>1
    <2>2. CASE review /\ q.approve
      <3>1. c \in Commits /\ Declares[c] \in SUBSET Perms /\ Maps[c] \in BOOLEAN
        BY <1>7, <2>2, AppSourceAssumption DEF Parses
      <3>2. PICK g \in SUBSET Perms : g = grants[a] \cup NewPerms(a, c, q.man)
        BY <2>0, <3>1 DEF NewPerms
      <3>3. g \subseteq grants[a] \cup Declares[c]
        BY <3>2 DEF NewPerms
      <3>4. PICK k \in [perms : SUBSET Perms, maps : SUBSET BOOLEAN] :
              k = [perms |-> accepted[a].perms \cup Declares[c], maps |-> accepted[a].maps \cup {Maps[c]}]
        BY <2>0, <3>1
      <3>5. k.perms = accepted[a].perms \cup Declares[c] /\ k.maps = accepted[a].maps \cup {Maps[c]}
        BY <3>4
      <3>6. grants' = [grants EXCEPT ![a] = g]
        BY <1>12, <2>0, <2>2, <3>2
      <3>7. accepted' = [accepted EXCEPT ![a] = k]
        BY <1>12, <2>0, <2>2, <3>4
      <3>8. grants' \in [Apps -> SUBSET Perms] /\ grants'[a] = g /\ \A b \in Apps \ {a} : grants'[b] = grants[b]
        BY <2>0, <3>6
      <3>9. /\ accepted' \in [Apps -> [perms : SUBSET Perms, maps : SUBSET BOOLEAN]]
            /\ accepted'[a] = k /\ \A b \in Apps \ {a} : accepted'[b] = accepted[b]
        <4> HIDE DEF IInv
        <4> QED
          BY <2>0, <3>7
      <3> QED
        BY <3>3, <3>5, <3>8, <3>9
    <2> QED
      BY <2>1, <2>2
  <1>14. RowsType' /\ CodeType' /\ OwnerType' /\ BoundsType'
    BY <1>1, <1>13 DEF IInv, Types, RowsType, CodeType, OwnerType, BoundsType, store, bounds, Exists
  <1>15. OwnRows(a) /\ OwnDirs(a)
    BY <1>1, <1>13 DEF OwnRows, OwnDirs, store
  <1>16. /\ ActorsType' /\ ByApp(a) /\ req'[r] = q1
         /\ \A p \in Reqs \ {r} : req'[p] = req[p]
         /\ \A p \in Reqs \ {r}, b \in Apps : On(p, b)' <=> On(p, b)
    <2>1. q1 = Idle \/ (q1 \in AnyReq /\ q1.app = a /\ q1.pc # "idle" /\ \A m \in NamesOf(q1) : a \in Claims(m))
      BY <1>8, <1>10, <1>11, NamesOfAre
    <2>2. worker' \in [Apps -> Worker \cup {Idle}] /\ worker'[a] = worker[a]
      BY <1>1, <1>2 DEF ActorsType
    <2>3. On(r, a) \/ req[r] = Idle
      BY <1>10
    <2>4. req' = [req EXCEPT ![r] = q1]
      BY <1>12
    <2>5. worker'[a] # Idle => worker'[a] = worker[a] \/ ClaimsPath(a, worker'[a])
      BY <2>2
    <2>6. Exists(a)' => ClaimsRow(a, rows'[a])
      BY <1>1, OwnNames DEF IInv, Types, Exists, store
    <2> QED
      BY <1>14, <1>15, <2>1, <2>2, <2>3, <2>4, <2>5, <2>6, ReqStep, Zenon
  <1>17. On(r, a)'
    BY <1>8, <1>11, <1>16 DEF On
  <1>18. FreshOK(a)'
    <2>1. tree[a] # None /\ \A p \in Reqs : On(p, a) => req[p].pc \notin Installing
      BY <1>1, <1>10, NotFresh DEF Updating
    <2>2. \A p \in Reqs : On(p, a)' => req'[p].pc \notin Installing
      BY <1>8, <1>11, <1>16, <2>1 DEF Installing
    <2>3. (Exists(a)' \/ code'[a] = None) /\ tree'[a] # None
      BY <1>1, <2>1 DEF IInv, AppsOK, AppOK, FreshOK, Exists, store
    <2> QED
      BY <2>2, <2>3, StaysFresh
  <1>19. ASSUME a \notin spoiled' PROVE SoundOK(a)'
    <2>1. a \notin spoiled
      BY <1>1, <1>19
    <2>2. /\ \A p \in Reqs \ {r} : ~On(p, a)
          /\ worker[a] = Idle /\ ReqOK(a, q) /\ (Exists(a) => OwnedOK(a))
      BY <1>3, <1>10, <2>1, SoloReq
    <2>3. worker'[a] = Idle /\ \A p \in Reqs \ {r} : ~On(p, a)'
      BY <1>1, <1>16, <2>2
    <2>4. ASSUME Exists(a) PROVE OwnedOK(a)' /\ UpdateOK(a, req[r])'
      <3>1. rows' = rows /\ code' = code /\ tree' = tree /\ dir' = dir
        BY <1>1 DEF store
      <3>2. \A d \in Commits : /\ Accepted(a, d) => Accepted(a, d)'
                               /\ Vetted(a, d) => Vetted(a, d)'
                               /\ Known(a, d) => Known(a, d)'
        BY <1>13 DEF Accepted, Manifest, Vetted, Known
      <3>3. OwnedOK(a)'
        <4>1. rows[a].man \in Commits /\ (code[a] # None => code[a] \in Commits)
          BY <2>4 DEF IInv, Types, RowsType, CodeType, AppRow, Exists
        <4> QED
          BY <1>13, <2>2, <2>4, <3>1, <3>2, <4>1 DEF OwnedOK
      <3>4. UpdateOK(a, q)
        BY <1>3, <2>2, <2>4 DEF ReqOK, Updating
      <3>5. Lives(a, Tmp, n) /\ Home(a)'
        BY <1>5, <3>1, <3>4, TmpTier DEF UpdateOK, Home, Lives, Known, Lost
      <3>6. c = tree[a] /\ c \in Commits
        BY <1>6, <2>4, <3>5, CheckoutIs, AtIs
      <3>7. ASSUME to = "claim" PROVE Known(a, tree[a])'
        <4>0. CASE c \in Broken
          BY <3>1, <3>6, <4>0 DEF Known
        <4>1. CASE review /\ q.approve
          BY <1>13, <3>1, <3>6, <4>1 DEF Accepted, Manifest, Vetted, Known
        <4>2. CASE ~review /\ c \notin Broken
          <5>1. ~NeedsReview(a, c, q.man)
            BY <1>7, <3>6, <4>2, AppSourceAssumption DEF Parses
          <5>2. Accepted(a, q.man) /\ grants[a] \subseteq accepted[a].perms /\ q.man \in Commits
            BY <1>3, <2>2, <2>4, <3>4 DEF OwnedOK, UpdateOK, UpdateReq, Vetted
          <5>3. Accepted(a, c)
            BY <3>6, <5>1, <5>2, Reviewed
          <5> QED
            BY <3>1, <3>2, <3>6, <5>3 DEF Accepted, Vetted, Known
        <4> QED
          BY <1>8, <3>7, <4>0, <4>1, <4>2
      <3>8. Fits(a, q.pre, rows[a].status)'
        BY <1>3, <3>1, <3>2, <3>4 DEF UpdateOK, UpdateReq, Fits, Known, Lost
      <3> QED
        BY <1>3, <1>5, <1>8, <1>11, <1>16, <3>1, <3>3, <3>4, <3>5, <3>7, <3>8
           DEF UpdateOK, Fits, Known, Lost
    <2>5. (Exists(a)' <=> Exists(a)) /\ req'[r].pc \in {"claim", "roll back"}
      BY <1>1, <1>8, <1>11, <1>16 DEF Exists, store
    <2>6. ReqOK(a, req[r])'
      BY <2>4, <2>5 DEF ReqOK, Renaming
    <2> QED
      BY <1>17, <2>3, <2>4, <2>5, <2>6, ReqSound
  <1> QED
    BY <1>14, <1>16, <1>18, <1>19, StepByApp DEF Types

\* The claim of a row and the start of its thread.
LEMMA StartWorkerIs ==
    ASSUME IInv, NEW a \in Apps, NEW n \in Names \cup {None}, n \in Names => a \in Claims(n), NEW again \in BOOLEAN,
           StartWorker(a, n, again)
    PROVE  /\ RowsType' /\ (Exists(a)' <=> Exists(a))
           /\ worker' \in [Apps -> Worker \cup {Idle}] /\ code' \in [Apps -> Commits \cup {None}]
           /\ \A b \in Apps \ {a} : rows'[b] = rows[b] /\ worker'[b] = worker[b] /\ code'[b] = code[b]
           /\ Exists(a)' => ClaimsRow(a, rows'[a])
           /\ worker'[a] # Idle => worker'[a] = worker[a] \/ ClaimsPath(a, worker'[a])
           /\ \/ UNCHANGED <<rows, worker, code>> /\ (Exists(a) => rows[a].status \notin Settled)
              \/ /\ Exists(a) /\ code'[a] = None
                 /\ worker'[a].pc = "copy" /\ worker'[a].path = n /\ worker'[a] # Idle
                 /\ rows'[a].name = rows[a].name /\ rows'[a].man = rows[a].man
                 /\ rows'[a].root = rows[a].root /\ rows'[a].path = rows[a].path
                 /\ rows'[a].status # "running"
  <1>0. /\ worker \in [Apps -> Worker \cup {Idle}] /\ code \in [Apps -> Commits \cup {None}]
        /\ Exists(a) => ClaimsRow(a, rows[a]) /\ rows[a].status \in Statuses
    BY OwnNames DEF IInv, Types, ActorsType, CodeType, RowsType, Exists, AppRow
  <1>1. CASE ~(Exists(a) /\ (again \/ Status(a) \notin {"building", "starting"}))
    <2>1. UNCHANGED <<rows, worker, code>>
      BY <1>1 DEF StartWorker
    <2>2. Exists(a) => rows[a].status \notin Settled
      BY <1>1 DEF Status, Settled
    <2> QED
      BY <1>0, <2>1, <2>2 DEF IInv, Types, RowsType, Exists
  <1>2. CASE Exists(a) /\ (again \/ Status(a) \notin {"building", "starting"})
    <2>1. PICK w : w = [pc |-> "copy", path |-> n, img |-> None, loop |-> FALSE]
      OBVIOUS
    <2>2. w \in Worker /\ w.pc = "copy" /\ w.path = n /\ w # Idle
      BY <2>1 DEF Worker, Idle
    <2>3. /\ worker' = [worker EXCEPT ![a] = w] /\ code' = [code EXCEPT ![a] = None]
          /\ \/ rows' = rows /\ rows[a].status # "running"
             \/ rows' = SetStatus(a, "building")
      BY <1>2, <2>1 DEF StartWorker, Status
    <2>4. /\ worker' \in [Apps -> Worker \cup {Idle}] /\ worker'[a] = w
          /\ \A b \in Apps \ {a} : worker'[b] = worker[b]
      BY <1>0, <2>2, <2>3
    <2>5. /\ code' \in [Apps -> Commits \cup {None}] /\ code'[a] = None
          /\ \A b \in Apps \ {a} : code'[b] = code[b]
      BY <1>0, <2>3
    <2>6. /\ RowsType' /\ (Exists(a)' <=> Exists(a)) /\ \A b \in Apps \ {a} : rows'[b] = rows[b]
          /\ rows'[a].name = rows[a].name /\ rows'[a].man = rows[a].man
          /\ rows'[a].root = rows[a].root /\ rows'[a].path = rows[a].path
          /\ rows'[a].status # "running"
      <3>1. CASE rows' = rows /\ rows[a].status # "running"
        BY <3>1 DEF IInv, Types, RowsType, Exists
      <3>2. CASE rows' = SetStatus(a, "building")
        <4>1. "building" \in Statuses
          BY DEF Statuses
        <4> QED
          BY <1>2, <3>2, <4>1, StatusStep
      <3> QED
        BY <2>3, <3>1, <3>2
    <2>7. Exists(a)' => ClaimsRow(a, rows'[a])
      BY <1>0, <1>2, <2>6 DEF ClaimsRow
    <2>8. ClaimsPath(a, worker'[a])
      BY <2>2, <2>4 DEF ClaimsPath
    <2> QED
      BY <1>2, <2>2, <2>4, <2>5, <2>6, <2>7, <2>8
  <1> QED
    BY <1>1, <1>2

\* The thread of an app at which nobody else was at work.
LEMMA WorkerStarted ==
    ASSUME IInv, NEW a \in Apps, a \notin spoiled, Exists(a), Exists(a)', OwnedOK(a), Home(a), Known(a, tree[a]),
           worker'[a].pc = "copy", worker'[a].path = Path(a), worker'[a] # Idle, code'[a] = None,
           rows'[a].name = rows[a].name, rows'[a].man = rows[a].man,
           rows'[a].root = rows[a].root, rows'[a].path = rows[a].path, rows'[a].status # "running",
           dir' = dir, tree' = tree,
           grants' = grants, accepted' = accepted, \A q \in Reqs : ~On(q, a)'
    PROVE  SoundOK(a)'
  <1>1. OwnedOK(a)'
    BY DEF OwnedOK, Accepted, Vetted, Known
  <1>2. WorkerOK(a)'
    BY DEF WorkerOK, Home, Lives, Accepted, Vetted, Known, Lost, Path
  <1> QED
    BY <1>1, <1>2, WorkerSound

LEMMA ClaimStep == ASSUME IInv, Claim PROVE IInv'
  <1>1. PICK r \in Reqs :
          /\ req[r].pc = "claim"
          /\ StartWorker(req[r].app, req[r].path, req[r].again)
          /\ req' = [req EXCEPT ![r] = Idle]
          /\ UNCHANGED <<dir, tree, up, owner, resume, spoiled, bounds>>
    BY DEF Claim
  <1>2. ActorsType /\ req[r] \in UpdateReq
    BY <1>1, ReqShape DEF IInv, Types, Updating
  <1>3. PICK q \in UpdateReq : q = req[r] /\ q.pc = "claim"
    BY <1>1, <1>2
  <1>4. PICK a \in Apps : a = q.app
    BY <1>3 DEF UpdateReq
  <1>5. PICK n \in Names : n = q.path
    BY <1>3 DEF UpdateReq
  <1>6. On(r, a) /\ a \in Claims(n)
    <2>1. On(r, a)
      BY <1>3, <1>4 DEF On
    <2> QED
      BY <1>2, <1>3, <1>5, <2>1, OwnNames DEF IInv, Types, Updating
  <1>7. /\ RowsType' /\ (Exists(a)' <=> Exists(a))
        /\ worker' \in [Apps -> Worker \cup {Idle}] /\ code' \in [Apps -> Commits \cup {None}]
        /\ \A b \in Apps \ {a} : rows'[b] = rows[b] /\ worker'[b] = worker[b] /\ code'[b] = code[b]
        /\ Exists(a)' => ClaimsRow(a, rows'[a])
        /\ worker'[a] # Idle => worker'[a] = worker[a] \/ ClaimsPath(a, worker'[a])
        /\ \/ UNCHANGED <<rows, worker, code>> /\ (Exists(a) => rows[a].status \notin Settled)
           \/ /\ Exists(a) /\ code'[a] = None
              /\ worker'[a].pc = "copy" /\ worker'[a].path = n /\ worker'[a] # Idle
              /\ rows'[a].name = rows[a].name /\ rows'[a].man = rows[a].man
              /\ rows'[a].root = rows[a].root /\ rows'[a].path = rows[a].path
              /\ rows'[a].status # "running"
    <2>1. PICK again \in BOOLEAN : again = q.again
      BY <1>3 DEF UpdateReq
    <2>2. StartWorker(a, n, again)
      BY <1>1, <1>3, <1>4, <1>5, <2>1
    <2> HIDE DEF IInv
    <2> QED
      BY <1>6, <2>2, StartWorkerIs
  <1>8. CodeType' /\ OwnerType' /\ BoundsType'
    BY <1>1, <1>7 DEF IInv, Types, CodeType, OwnerType, BoundsType, owner, bounds
  <1>9. OwnRows(a) /\ OwnDirs(a)
    BY <1>1, <1>7 DEF OwnRows, OwnDirs, owner
  <1>10. /\ ActorsType' /\ ByApp(a) /\ req'[r] = Idle
         /\ \A p \in Reqs \ {r} : req'[p] = req[p]
         /\ \A p \in Reqs \ {r}, b \in Apps : On(p, b)' <=> On(p, b)
    <2>1. Idle = Idle \/ (Idle \in AnyReq /\ Idle.app = a /\ Idle.pc # "idle" /\ \A m \in NamesOf(Idle) : a \in Claims(m))
      OBVIOUS
    <2>2. On(r, a) \/ req[r] = Idle
      BY <1>6
    <2>3. req' = [req EXCEPT ![r] = Idle]
      BY <1>1
    <2>4. worker'[a] # Idle => worker'[a] = worker[a] \/ ClaimsPath(a, worker'[a])
      BY <1>7
    <2>5. Exists(a)' => ClaimsRow(a, rows'[a])
      BY <1>7
    <2>6. RowsType' /\ worker' \in [Apps -> Worker \cup {Idle}]
      BY <1>7
    <2> QED
      BY <1>9, <2>1, <2>2, <2>3, <2>4, <2>5, <2>6, ReqStep, Zenon
  <1>11. ~On(r, a)'
    BY <1>10 DEF On, Idle
  <1>12. FreshOK(a)'
    <2>1. tree[a] # None /\ \A p \in Reqs : On(p, a) => req[p].pc \notin Installing
      BY <1>1, <1>6, NotFresh DEF Updating
    <2>2. \A p \in Reqs : On(p, a)' => req'[p].pc \notin Installing
      BY <1>10, <1>11, <2>1
    <2>3. (Exists(a)' \/ code'[a] = None) /\ tree'[a] # None
      BY <1>1, <1>7, <2>1 DEF IInv, AppsOK, AppOK, FreshOK, Exists
    <2> QED
      BY <2>2, <2>3, StaysFresh
  <1>13. ASSUME a \notin spoiled' PROVE SoundOK(a)'
    <2>1. a \notin spoiled
      BY <1>1, <1>13
    <2>2. /\ \A p \in Reqs \ {r} : ~On(p, a)
          /\ worker[a] = Idle /\ ReqOK(a, q) /\ (Exists(a) => OwnedOK(a))
      BY <1>3, <1>6, <2>1, SoloReq
    <2>3. \A p \in Reqs : ~On(p, a)'
      BY <1>10, <1>11, <2>2
    <2>4. CASE Exists(a)
      <3>1. UpdateOK(a, q)
        BY <1>3, <2>2, <2>4 DEF ReqOK, Updating
      <3>2. n = Path(a) /\ Home(a) /\ rows[a].status \in Settled /\ Known(a, tree[a])
        BY <1>3, <1>5, <2>2, <2>4, <3>1, AtIs DEF UpdateOK, OwnedOK
      <3> QED
        BY <1>1, <1>7, <2>1, <2>2, <2>3, <2>4, <3>2, WorkerStarted DEF owner
    <2>5. CASE ~Exists(a)
      <3>1. ~Exists(a)' /\ worker'[a] = Idle
        BY <1>7, <2>2, <2>5
      <3> QED
        BY <2>3, <3>1, RestSound
    <2> QED
      BY <2>4, <2>5
  <1> QED
    BY <1>7, <1>8, <1>10, <1>12, <1>13, StepByApp DEF Types

LEMMA PlainReloadStep == ASSUME IInv, PlainReload PROVE IInv'
  <1>1. PICK a \in Apps :
          /\ ops < MaxOps /\ ops' = ops + 1 /\ Exists(a) /\ Status(a) \notin {"building", "starting"}
          /\ StartWorker(a, Path(a), FALSE)
          /\ spoiled' = spoiled \cup Overlap(a)
          /\ UNCHANGED <<dir, tree, up, owner, resume, req, faults>>
    BY DEF PlainReload, Ask, Spoil
  <1>2. PICK n \in Names \cup {None} : n = Path(a)
    BY <1>1, AtIs
  <1>3. n \in Names => a \in Claims(n)
    BY <1>1, <1>2, OwnNames, AppSourceAssumption DEF IInv, Types, Path, ClaimsRow
  <1>4. rows[a].status \in Settled
    BY <1>1 DEF Status, Settled, IInv, Types, RowsType, Exists, AppRow, Statuses
  <1>5. /\ RowsType' /\ (Exists(a)' <=> Exists(a))
        /\ worker' \in [Apps -> Worker \cup {Idle}] /\ code' \in [Apps -> Commits \cup {None}]
        /\ \A b \in Apps \ {a} : rows'[b] = rows[b] /\ worker'[b] = worker[b] /\ code'[b] = code[b]
        /\ Exists(a)' => ClaimsRow(a, rows'[a])
        /\ worker'[a] # Idle => worker'[a] = worker[a] \/ ClaimsPath(a, worker'[a])
        /\ Exists(a) /\ code'[a] = None
        /\ worker'[a].pc = "copy" /\ worker'[a].path = n /\ worker'[a] # Idle
        /\ rows'[a].name = rows[a].name /\ rows'[a].man = rows[a].man
        /\ rows'[a].root = rows[a].root /\ rows'[a].path = rows[a].path
        /\ rows'[a].status # "running"
    <2>1. StartWorker(a, n, FALSE)
      BY <1>1, <1>2
    <2> HIDE DEF IInv
    <2> QED
      BY <1>1, <1>3, <1>4, <2>1, StartWorkerIs
  <1>6. CodeType' /\ OwnerType' /\ BoundsType'
    <2>1. CodeType'
      BY <1>1, <1>5, OverlapIs DEF IInv, Types, CodeType
    <2>2. OwnerType' /\ BoundsType'
      BY <1>1, AppSourceAssumption DEF IInv, Types, OwnerType, BoundsType, owner
    <2> QED
      BY <2>1, <2>2
  <1>7. OwnRows(a) /\ OwnDirs(a)
    BY <1>1, <1>5 DEF OwnRows, OwnDirs, owner
  <1>8. ActorsType' /\ ByApp(a) /\ \A p \in Reqs, b \in Apps : On(p, b)' <=> On(p, b)
    <2>1. req' = req /\ RowsType' /\ worker' \in [Apps -> Worker \cup {Idle}]
      BY <1>1, <1>5
    <2>2. worker'[a] # Idle => worker'[a] = worker[a] \/ ClaimsPath(a, worker'[a])
      BY <1>5
    <2>3. Exists(a)' => ClaimsRow(a, rows'[a])
      BY <1>5
    <2> QED
      BY <1>7, <2>1, <2>2, <2>3, OwnStep, Zenon
  <1>9. FreshOK(a)'
    <2>1. tree[a] # None /\ \A p \in Reqs : On(p, a) => req[p].pc \notin Installing
      BY <1>1, WorkerNotFresh
    <2> QED
      BY <1>1, <1>5, <1>8, <2>1, StaysFresh
  <1>10. ASSUME a \notin spoiled' PROVE SoundOK(a)'
    <2>1. a \notin spoiled /\ ~Busy(a)
      BY <1>1, <1>10, OverlapIs
    <2>2. (\A p \in Reqs : ~On(p, a)) /\ OwnedOK(a) /\ RestOK(a)
      BY <1>1, <2>1, AtRest
    <2>3. Home(a) /\ Known(a, tree[a])
      BY <2>2 DEF RestOK, Fits
    <2> QED
      BY <1>1, <1>2, <1>5, <1>8, <2>1, <2>2, <2>3, WorkerStarted DEF owner
  <1> QED
    BY <1>5, <1>6, <1>8, <1>9, <1>10, StepByApp DEF Types

-----------------------------------------------------------------------------
(* The thread *)

\* A row that stays an app's under its name, with another manifest and port.
LEMMA RowPut ==
    ASSUME IInv, NEW a \in Apps, Exists(a), NEW row \in AppRow,
           row.name = rows[a].name, row.path = rows[a].path, rows' = [rows EXCEPT ![a] = row]
    PROVE  /\ RowsType' /\ Exists(a)' /\ rows'[a] = row
           /\ \A b \in Apps \ {a} : rows'[b] = rows[b]
           /\ ClaimsRow(a, rows'[a])
  <1>1. rows \in [Apps -> AppRow \cup {None}] /\ row # None
    BY NoneAssumption DEF IInv, Types, RowsType
  <1>2. /\ rows' \in [Apps -> AppRow \cup {None}] /\ rows'[a] = row
        /\ \A b \in Apps \ {a} : rows'[b] = rows[b]
    BY <1>1
  <1>3. \A b \in Apps : Exists(b)' => Exists(b) /\ rows'[b].name = rows[b].name
    BY <1>2 DEF Exists
  <1>4. ClaimsRow(a, rows[a])
    BY OwnNames DEF IInv, Types
  <1> QED
    BY <1>1, <1>2, <1>3, <1>4, NamesUnique DEF IInv, Types, Exists, ClaimsRow

\* Whatever the thread of an app does, the table keeps its names.
LEMMA ThreadStep ==
    ASSUME IInv, NEW a \in Apps, worker[a] # Idle, RowsType', Exists(a)' <=> Exists(a),
           \A b \in Apps \ {a} : rows'[b] = rows[b],
           Exists(a)' => ClaimsRow(a, rows'[a]),
           NEW w, w = Idle \/ (w \in Worker /\ (w.path = worker[a].path \/ ClaimsPath(a, w))),
           worker' = [worker EXCEPT ![a] = w],
           code' \in [Apps -> Commits \cup {None}], \A b \in Apps \ {a} : code'[b] = code[b],
           Exists(a) \/ code'[a] = code[a],
           DirType(dir'), OwnDirs(a),
           UNCHANGED <<tree, up, owner, resume, req, spoiled, bounds>>
    PROVE  /\ Types' /\ ByApp(a) /\ worker'[a] = w /\ FreshOK(a)'
           /\ \A p \in Reqs : On(p, a)' <=> On(p, a)
  <1>1. /\ worker' \in [Apps -> Worker \cup {Idle}] /\ worker'[a] = w
        /\ \A b \in Apps \ {a} : worker'[b] = worker[b]
    BY DEF IInv, Types, ActorsType
  <1>2. OwnRows(a)
    BY <1>1 DEF OwnRows, owner
  <1>3. CodeType' /\ OwnerType' /\ BoundsType'
    BY DEF IInv, Types, CodeType, OwnerType, BoundsType, owner, bounds, DirType
  <1>4. ActorsType' /\ ByApp(a) /\ \A p \in Reqs, b \in Apps : On(p, b)' <=> On(p, b)
    <2>1. worker'[a] # Idle => worker'[a] = worker[a] \/ ClaimsPath(a, worker'[a])
      <3>1. ClaimsPath(a, worker[a])
        BY OwnNames DEF IInv, Types
      <3> QED
        BY <1>1, <3>1 DEF ClaimsPath
    <2>2. req' = req
      OBVIOUS
    <2> QED
      BY <1>1, <1>2, <2>1, <2>2, OwnStep, Zenon
  <1>5. FreshOK(a)'
    <2>1. tree[a] # None /\ \A p \in Reqs : On(p, a) => req[p].pc \notin Installing
      BY WorkerNotFresh
    <2>2. Exists(a)' \/ code'[a] = None
      BY DEF IInv, AppsOK, AppOK, FreshOK
    <2> QED
      BY <1>4, <2>1, <2>2, StaysFresh
  <1> QED
    BY <1>1, <1>3, <1>4, <1>5 DEF Types

\* What is copied again goes where the path of the thread leads.
LEMMA RecopyDirs ==
    ASSUME IInv, NEW a \in Apps, worker[a] # Idle, NEW n \in Names, worker[a].path = n, dir' = MovedIn(n, a),
           \A b \in Apps \ {a} : tree'[b] = tree[b]
    PROVE  DirType(dir') /\ OwnDirs(a) /\ (Exists(a) /\ Home(a) /\ n = rows[a].name => dir' = dir)
  <1>1. DirType(dir) /\ a \in Claims(n)
    BY OwnNames DEF IInv, Types, CodeType, DirType, ClaimsPath
  <1>2. /\ DirType(dir')
        /\ \A t \in 1..Tiers, m \in Names : dir'[t][m] = IF t = Tmp /\ m = n THEN a ELSE dir[t][m]
    BY <1>1, MovedInIs
  <1>3. OwnDirs(a)
    BY <1>1, <1>2 DEF OwnDirs
  <1>4. ASSUME Home(a), n = rows[a].name PROVE dir' = dir
    <2>1. dir[Tmp][n] = a
      BY <1>4, TmpTier DEF Home, Lives
    <2>2. [dir[Tmp] EXCEPT ![n] = a] = dir[Tmp]
      BY <1>1, <2>1, TmpTier DEF DirType
    <2>3. dir' = [dir EXCEPT ![Tmp] = [dir[Tmp] EXCEPT ![n] = a]]
      BY <1>1, TmpTier DEF MovedIn, DirType
    <2> QED
      BY <1>1, <2>2, <2>3, TmpTier DEF DirType
  <1> QED
    BY <1>2, <1>3, <1>4

LEMMA RecopyStep == ASSUME IInv, Recopy PROVE IInv'
  <1>1. PICK a \in Apps, outcome \in {"none", "copied", "failed"} :
          /\ worker[a].pc = "copy"
          /\ LET n == worker[a].path
             IN /\ outcome # "none" => a \in Builtin /\ Exists(a) /\ ~HasGit(n)
                /\ outcome = "copied" => n # None
                /\ IF outcome = "failed" /\ n # None THEN Fault ELSE NoFault
                /\ IF outcome = "failed"
                   THEN /\ worker' = [worker EXCEPT ![a] = Idle] /\ UNCHANGED dir
                        /\ rows' = SetStatus(a, "error")
                        /\ tree' \in {tree, IF n = None THEN tree ELSE [tree EXCEPT ![a] = up[a]]}
                   ELSE /\ worker' = [worker EXCEPT ![a].pc = "sync"] /\ UNCHANGED rows
                        /\ dir' = IF outcome = "copied" THEN MovedIn(n, a) ELSE dir
                        /\ tree' = IF outcome = "copied" THEN [tree EXCEPT ![a] = up[a]] ELSE tree
          /\ UNCHANGED <<up, code, owner, resume, req, spoiled, ops>>
    BY DEF Recopy
  <1>2. worker[a] # Idle /\ worker[a] \in Worker
    BY <1>1, WorkerShape DEF IInv, Types, Idle
  <1>3. PICK n \in Names \cup {None} : n = worker[a].path
    BY <1>2 DEF Worker
  <1>4. /\ tree' \in [Apps -> Commits \cup {None}] /\ \A b \in Apps \ {a} : tree'[b] = tree[b]
        /\ tree'[a] # None /\ (outcome = "none" => tree' = tree)
    <2>1. /\ tree \in [Apps -> Commits \cup {None}] /\ up[a] \in Commits /\ tree[a] # None
      BY <1>2, WorkerNotFresh DEF IInv, Types, CodeType
    <2>2. tree' = tree \/ (outcome # "none" /\ tree' = [tree EXCEPT ![a] = up[a]])
      BY <1>1, <1>3
    <2> QED
      BY <2>1, <2>2, AppSourceAssumption
  <1>5. /\ DirType(dir') /\ OwnDirs(a)
        /\ Exists(a) /\ Home(a) /\ (n # None => n = rows[a].name) => dir' = dir
    <2>1. CASE outcome = "copied"
      <3>1. n \in Names /\ dir' = MovedIn(n, a)
        BY <1>1, <1>3, <2>1
      <3> QED
        BY <1>2, <1>3, <1>4, <3>1, RecopyDirs, AppSourceAssumption
    <2>2. CASE outcome # "copied"
      BY <1>1, <1>4, <2>2 DEF IInv, Types, CodeType, DirType, OwnDirs
    <2> QED
      BY <2>1, <2>2
  <1>6. PICK w : w = IF outcome = "failed" THEN Idle ELSE [worker[a] EXCEPT !.pc = "sync"]
    OBVIOUS
  <1>7. /\ outcome = "failed" => w = Idle
        /\ outcome # "failed" => w \in Worker /\ w # Idle /\ w.pc = "sync" /\ w.path = n
    BY <1>2, <1>3, <1>6 DEF Worker, Idle
  <1>8. /\ worker' = [worker EXCEPT ![a] = w]
        /\ outcome = "failed" => rows' = SetStatus(a, "error")
        /\ outcome # "failed" => rows' = rows
    BY <1>1, <1>6 DEF IInv, Types, ActorsType
  <1>9. /\ worker' \in [Apps -> Worker \cup {Idle}] /\ worker'[a] = w
        /\ \A b \in Apps \ {a} : worker'[b] = worker[b]
    BY <1>7, <1>8 DEF IInv, Types, ActorsType
  <1>10. /\ RowsType' /\ (Exists(a)' <=> Exists(a))
         /\ \A b \in Apps \ {a} : rows'[b] = rows[b]
         /\ Exists(a)' => ClaimsRow(a, rows'[a])
         /\ Exists(a) => /\ rows'[a].name = rows[a].name /\ rows'[a].man = rows[a].man
                         /\ rows'[a].root = rows[a].root /\ rows'[a].path = rows[a].path
                         /\ outcome = "failed" => rows'[a].status = "error"
    <2>1. CASE outcome = "failed"
      <3>1. "error" \in Statuses
        BY DEF Statuses
      <3> QED
        BY <1>8, <2>1, <3>1, StatusStep
    <2>2. CASE outcome # "failed"
      BY <1>8, <2>2, OwnNames DEF IInv, Types, RowsType, Exists
    <2> QED
      BY <2>1, <2>2
  <1>11. CodeType' /\ OwnerType' /\ BoundsType'
    <2>1. CodeType' /\ OwnerType'
      BY <1>1, <1>4, <1>5 DEF IInv, Types, CodeType, OwnerType, owner, DirType
    <2>2. BoundsType'
      BY <1>1, AppSourceAssumption DEF IInv, Types, BoundsType, Fault, NoFault
    <2> QED
      BY <2>1, <2>2
  <1>12. ActorsType' /\ ByApp(a) /\ \A p \in Reqs, b \in Apps : On(p, b)' <=> On(p, b)
    <2>1. OwnRows(a)
      BY <1>1, <1>9, <1>10 DEF OwnRows, owner
    <2>2. worker'[a] # Idle => worker'[a] = worker[a] \/ ClaimsPath(a, worker'[a])
      <3>1. ClaimsPath(a, worker[a])
        BY <1>2, OwnNames DEF IInv, Types
      <3> QED
        BY <1>3, <1>7, <1>9, <3>1 DEF ClaimsPath
    <2>3. req' = req
      BY <1>1
    <2> QED
      BY <1>5, <1>9, <1>10, <2>1, <2>2, <2>3, OwnStep, Zenon
  <1>13. FreshOK(a)'
    <2>1. \A p \in Reqs : On(p, a)' => req'[p].pc \notin Installing
      BY <1>1, <1>2, <1>12, WorkerNotFresh
    <2>2. Exists(a)' \/ code'[a] = None
      BY <1>1, <1>10 DEF IInv, AppsOK, AppOK, FreshOK
    <2> QED
      BY <1>4, <2>1, <2>2, StaysFresh
  <1>14. ASSUME a \notin spoiled' PROVE SoundOK(a)'
    <2>1. a \notin spoiled
      BY <1>1, <1>14
    <2>2. /\ \A q \in Reqs : ~On(q, a)'
          /\ Exists(a) => OwnedOK(a) /\ WorkerOK(a)
      BY <1>2, <1>12, <2>1, SoloWorker
    <2>3. ASSUME Exists(a)
          PROVE  /\ OwnedOK(a)' /\ Home(a)' /\ Known(a, tree[a])'
                 /\ n = Path(a) /\ Path(a)' = Path(a)
      <3>1. Home(a) /\ Known(a, tree[a]) /\ n = Path(a) /\ rows[a].path = rows[a].name
        BY <1>3, <2>2, <2>3 DEF WorkerOK, OwnedOK
      <3>2. dir' = dir
        BY <1>5, <2>3, <3>1 DEF Path
      <3>3. Home(a)' /\ Path(a)' = Path(a)
        BY <1>10, <2>3, <3>1, <3>2 DEF Home, Lives, Path, Lost
      <3>4. OwnedOK(a)'
        BY <1>1, <1>10, <2>2, <2>3 DEF OwnedOK, Accepted, owner, Vetted
      <3>5. Known(a, tree[a])'
        <4>1. CASE outcome = "none"
          BY <1>1, <1>4, <3>1, <4>1 DEF Known, Vetted, Accepted, owner
        <4>2. CASE outcome # "none"
          BY <1>1, <4>2 DEF Known, Vetted
        <4> QED
          BY <4>1, <4>2
      <3> QED
        BY <3>1, <3>3, <3>4, <3>5
    <2>4. CASE outcome # "failed"
      <3>1. ASSUME Exists(a)' PROVE OwnedOK(a)' /\ WorkerOK(a)'
        <4>1. WorkerOK(a) /\ Exists(a) /\ rows'[a] = rows[a]
          BY <1>8, <1>10, <2>2, <2>4, <3>1
        <4>2. (rows[a].status = "running" => ~Lost(a))'
          BY <4>1 DEF WorkerOK, Lost
        <4> QED
          BY <1>7, <1>9, <2>3, <2>4, <4>1, <4>2 DEF WorkerOK
      <3> QED
        BY <1>7, <1>9, <2>2, <2>4, <3>1, WorkerSound
    <2>5. CASE outcome = "failed"
      <3>1. ASSUME Exists(a)' PROVE OwnedOK(a)' /\ RestOK(a)'
        BY <1>10, <2>3, <2>5, <3>1 DEF RestOK, Fits, Settled
      <3> QED
        BY <1>7, <1>9, <2>2, <2>5, <3>1, RestSound
    <2> QED
      BY <2>4, <2>5
  <1> QED
    BY <1>10, <1>11, <1>12, <1>13, <1>14, StepByApp DEF Types

LEMMA SyncStep == ASSUME IInv, Sync PROVE IInv'
  <1>1. PICK a \in Apps :
          /\ worker[a].pc = "sync"
          /\ LET c == Checkout(worker[a].path)
             IN IF ~Exists(a)
                THEN worker' = [worker EXCEPT ![a] = Idle] /\ UNCHANGED rows
                ELSE IF Parses(c) /\ HostPorts(a, c) = {}
                THEN /\ rows' = SetStatus(a, "error")
                     /\ worker' = [worker EXCEPT ![a] = Idle]
                ELSE \E p \in IF Parses(c) THEN HostPorts(a, c) ELSE {rows[a].host} :
                     LET starts == Parses(At(a))
                     IN /\ rows' = [rows EXCEPT ![a].man = IF Parses(c) THEN c ELSE @, ![a].host = p,
                                                ![a].status = IF starts THEN "starting" ELSE "error"]
                        /\ worker' = [worker EXCEPT ![a] = IF starts THEN Launch(Path(a), FALSE) ELSE Idle]
          /\ UNCHANGED <<dir, tree, up, code, owner, resume, req, spoiled, bounds>>
    BY DEF Sync
  <1>2. worker[a] # Idle /\ worker[a].path \in Names \cup {None}
    BY <1>1, WorkerShape DEF IInv, Types, Idle, Worker
  <1>3. PICK c \in Commits \cup {None} : c = Checkout(worker[a].path)
    BY <1>2, CheckoutType DEF Checkout
  <1>4. Exists(a) => /\ rows[a] \in AppRow /\ ClaimsRow(a, rows[a])
                     /\ Path(a) \in {rows[a].path, None} /\ Path(a) \in Names \cup {None}
    BY OwnNames, AtIs DEF IInv, Types, RowsType, Exists, Path
  <1>5. PICK read \in BOOLEAN : read <=> Parses(c)
    OBVIOUS
  <1>6. PICK starts \in BOOLEAN : starts <=> Parses(At(a))
    OBVIOUS
  <1>7. PICK st : st = IF ~Exists(a) THEN "gone"
                       ELSE IF read /\ HostPorts(a, c) = {} THEN "full" ELSE "on"
    OBVIOUS
  <1>8. PICK w : w = IF st = "on" /\ starts THEN Launch(Path(a), FALSE) ELSE Idle
    OBVIOUS
  <1>9. /\ st \in {"gone", "full", "on"} /\ (Exists(a) <=> st # "gone")
        /\ w = Idle \/ (w \in Worker /\ w # Idle /\ w.pc = "build" /\ w.path = Path(a) /\ ClaimsPath(a, w))
        /\ w # Idle <=> (st = "on" /\ starts)
    <2>1. st \in {"gone", "full", "on"} /\ (Exists(a) <=> st # "gone")
      BY <1>7
    <2>2. CASE st = "on" /\ starts
      <3>1. w = Launch(Path(a), FALSE) /\ Exists(a)
        BY <1>8, <2>1, <2>2
      <3>2. w \in Worker /\ w # Idle /\ w.pc = "build" /\ w.path = Path(a)
        BY <1>4, <3>1, LaunchIs
      <3>3. ClaimsPath(a, w)
        BY <1>4, <3>1, <3>2, AppSourceAssumption DEF ClaimsPath, ClaimsRow
      <3> QED
        BY <2>1, <2>2, <3>2, <3>3
    <2>3. CASE ~(st = "on" /\ starts)
      BY <1>8, <2>1, <2>3
    <2> QED
      BY <2>2, <2>3
  <1>10. /\ worker' = [worker EXCEPT ![a] = w]
         /\ st = "gone" => rows' = rows
         /\ st = "full" => rows' = SetStatus(a, "error")
         /\ st = "on" => \E p \in IF read THEN HostPorts(a, c) ELSE {rows[a].host} :
              rows' = [rows EXCEPT ![a].man = IF read THEN c ELSE @, ![a].host = p,
                                   ![a].status = IF starts THEN "starting" ELSE "error"]
    <2>1. CASE st = "gone"
      BY <1>1, <1>7, <1>8, <2>1
    <2>2. CASE st = "full"
      BY <1>1, <1>3, <1>5, <1>7, <1>8, <2>2
    <2>3. CASE st = "on"
      <3>1. Exists(a) /\ ~(Parses(Checkout(worker[a].path)) /\ HostPorts(a, Checkout(worker[a].path)) = {})
        BY <1>3, <1>5, <1>7, <2>3
      <3>2. w = IF starts THEN Launch(Path(a), FALSE) ELSE Idle
        BY <1>8, <2>3
      <3> QED
        BY <1>1, <1>3, <1>5, <1>6, <2>3, <3>1, <3>2
    <2> QED
      BY <1>9, <2>1, <2>2, <2>3
  <1>11. /\ RowsType' /\ (Exists(a)' <=> Exists(a))
         /\ \A b \in Apps \ {a} : rows'[b] = rows[b]
         /\ Exists(a)' => ClaimsRow(a, rows'[a])
         /\ Exists(a) => /\ rows'[a].name = rows[a].name
                         /\ rows'[a].root = rows[a].root /\ rows'[a].path = rows[a].path
                         /\ rows'[a].man = IF st = "on" /\ read THEN c ELSE rows[a].man
                         /\ st = "full" \/ ~starts => rows'[a].status = "error"
                         /\ st = "on" => rows'[a].status # "running"
    <2>1. CASE st = "gone"
      BY <1>9, <1>10, <2>1 DEF IInv, Types, RowsType, Exists
    <2>2. CASE st = "full"
      <3>1. "error" \in Statuses
        BY DEF Statuses
      <3> QED
        BY <1>9, <1>10, <2>2, <3>1, StatusStep
    <2>3. CASE st = "on"
      <3>1. Exists(a) /\ (read => c \in Commits)
        BY <1>5, <1>9, <2>3 DEF Parses
      <3>2. PICK p \in IF read THEN HostPorts(a, c) ELSE {rows[a].host} :
              rows' = [rows EXCEPT ![a].man = IF read THEN c ELSE @, ![a].host = p,
                                   ![a].status = IF starts THEN "starting" ELSE "error"]
        BY <1>10, <2>3
      <3>3. p \in Ports \cup {0}
        BY <1>4, <3>1, <3>2 DEF HostPorts, Free, AppRow
      <3>4. PICK row : row = [rows[a] EXCEPT !.man = IF read THEN c ELSE @, !.host = p,
                                             !.status = IF starts THEN "starting" ELSE "error"]
        OBVIOUS
      <3>5. /\ row \in AppRow /\ row.name = rows[a].name /\ row.path = rows[a].path /\ row.root = rows[a].root
            /\ row.man = (IF read THEN c ELSE rows[a].man) /\ (~starts => row.status = "error")
            /\ row.status # "running"
        BY <1>4, <3>1, <3>3, <3>4 DEF AppRow, Statuses
      <3>6. rows' = [rows EXCEPT ![a] = row]
        BY <3>1, <3>2, <3>4 DEF IInv, Types, RowsType
      <3>7. /\ RowsType' /\ Exists(a)' /\ rows'[a] = row
            /\ \A b \in Apps \ {a} : rows'[b] = rows[b]
            /\ ClaimsRow(a, rows'[a])
        BY <3>1, <3>5, <3>6, RowPut
      <3> QED
        BY <2>3, <3>1, <3>5, <3>7
    <2> QED
      BY <1>9, <2>1, <2>2, <2>3
  <1>12. /\ Types' /\ ByApp(a) /\ worker'[a] = w /\ FreshOK(a)'
         /\ \A p \in Reqs : On(p, a)' <=> On(p, a)
    <2>1. /\ code' \in [Apps -> Commits \cup {None}] /\ (\A b \in Apps \ {a} : code'[b] = code[b])
          /\ Exists(a) \/ code'[a] = code[a]
          /\ DirType(dir') /\ OwnDirs(a)
          /\ UNCHANGED <<tree, up, owner, resume, req, spoiled, bounds>>
      BY <1>1 DEF IInv, Types, CodeType, DirType, OwnDirs
    <2>2. w = Idle \/ (w \in Worker /\ (w.path = worker[a].path \/ ClaimsPath(a, w)))
      BY <1>9
    <2> HIDE DEF IInv
    <2> QED
      BY <1>2, <1>10, <1>11, <2>1, <2>2, ThreadStep
  <1>13. ASSUME a \notin spoiled' PROVE SoundOK(a)'
    <2>1. a \notin spoiled
      BY <1>1, <1>13
    <2>2. /\ \A q \in Reqs : ~On(q, a)'
          /\ Exists(a) => OwnedOK(a) /\ WorkerOK(a)
      BY <1>2, <1>12, <2>1, SoloWorker
    <2>3. CASE ~Exists(a)
      <3>1. worker'[a] = Idle /\ ~Exists(a)'
        BY <1>9, <1>11, <1>12, <2>3
      <3> QED
        BY <2>2, <3>1, RestSound
    <2>4. CASE Exists(a)
      <3>1. Home(a) /\ Home(a)' /\ Known(a, tree[a]) /\ worker[a].path = Path(a)
        BY <1>1, <1>11, <2>2, <2>4 DEF WorkerOK, Home, Lives
      <3>2. c = At(a) /\ (read <=> starts) /\ (read => c \notin Broken /\ c # None)
        BY <1>3, <1>5, <1>6, <3>1 DEF At, Parses
      <3>3. read => c = tree[a] /\ ~Lost(a)
        BY <2>2, <2>4, <3>1, <3>2, AtIs DEF OwnedOK
      <3>4. OwnedOK(a)'
        BY <1>1, <1>11, <2>2, <2>4, <3>1, <3>2, <3>3 DEF OwnedOK, Accepted, owner, Vetted, Known
      <3>5. CASE w = Idle
        <4>1. rows'[a].status = "error"
          BY <1>9, <1>11, <2>4, <3>5
        <4>2. Known(a, tree[a])'
          BY <1>1, <3>1 DEF Known, Vetted, Accepted, owner
        <4>3. RestOK(a)'
          BY <3>1, <4>1, <4>2 DEF RestOK, Fits, Settled
        <4> QED
          BY <1>12, <2>2, <3>4, <3>5, <4>3, RestSound
      <3>6. CASE w # Idle
        <4>1. st = "on" /\ starts /\ w.pc = "build" /\ w.path = Path(a)
          BY <1>9, <3>6
        <4>2. Path(a)' = Path(a)
          BY <1>11, <2>4 DEF Path, Lost
        <4>3. Known(a, tree[a])'
          BY <1>1, <3>1 DEF Known, Vetted, Accepted, owner
        <4>4. (tree[a] = rows[a].man)'
          BY <1>1, <1>11, <2>4, <3>2, <3>3, <4>1
        <4>5. WorkerOK(a)'
          BY <1>11, <1>12, <2>4, <3>1, <4>1, <4>2, <4>3, <4>4 DEF WorkerOK
        <4> QED
          BY <1>12, <2>2, <3>4, <3>6, <4>5, WorkerSound
      <3> QED
        BY <3>5, <3>6
    <2> QED
      BY <2>3, <2>4
  <1> QED
    BY <1>12, <1>13, StepByApp

LEMMA BuildStep == ASSUME IInv, Build PROVE IInv'
  <1>1. PICK a \in Apps, works \in BOOLEAN :
          /\ worker[a].pc = "build"
          /\ IF works /\ Parses(Checkout(worker[a].path))
             THEN /\ worker' = [worker EXCEPT ![a].pc = "run", ![a].img = Checkout(worker[a].path)]
                  /\ UNCHANGED rows
             ELSE worker' = [worker EXCEPT ![a] = Idle] /\ rows' = SetStatus(a, "error")
          /\ UNCHANGED <<dir, tree, up, code, owner, resume, req, spoiled, bounds>>
    BY DEF Build
  <1>2. worker[a] # Idle /\ worker[a] \in Worker /\ worker[a].path \in Names \cup {None}
    BY <1>1, WorkerShape DEF IInv, Types, Idle, Worker
  <1>3. PICK c \in Commits \cup {None} : c = Checkout(worker[a].path)
    BY <1>2, CheckoutType DEF Checkout
  <1>4. PICK built \in BOOLEAN : built <=> (works /\ Parses(c))
    OBVIOUS
  <1>5. PICK w : w = IF built THEN [worker[a] EXCEPT !.pc = "run", !.img = c] ELSE Idle
    OBVIOUS
  <1>6. /\ built => w \in Worker /\ w # Idle /\ w.pc = "run" /\ w.path = worker[a].path /\ w.img = c
        /\ ~built => w = Idle
    BY <1>2, <1>5 DEF Worker, Idle
  <1>7. /\ worker' = [worker EXCEPT ![a] = w]
        /\ IF built THEN rows' = rows ELSE rows' = SetStatus(a, "error")
    <2>1. CASE built
      BY <1>1, <1>3, <1>4, <1>5, <2>1 DEF IInv, Types, ActorsType
    <2>2. CASE ~built
      BY <1>1, <1>3, <1>4, <1>5, <2>2
    <2> QED
      BY <2>1, <2>2
  <1>8. /\ RowsType' /\ (Exists(a)' <=> Exists(a))
        /\ \A b \in Apps \ {a} : rows'[b] = rows[b]
        /\ Exists(a)' => ClaimsRow(a, rows'[a])
        /\ Exists(a) => /\ rows'[a].name = rows[a].name /\ rows'[a].man = rows[a].man
                        /\ rows'[a].root = rows[a].root /\ rows'[a].path = rows[a].path
                        /\ ~built => rows'[a].status = "error"
    <2>1. CASE built
      BY <1>7, <2>1, OwnNames DEF IInv, Types, RowsType, Exists
    <2>2. CASE ~built
      <3>1. "error" \in Statuses
        BY DEF Statuses
      <3> QED
        BY <1>7, <2>2, <3>1, StatusStep
    <2> QED
      BY <2>1, <2>2
  <1>9. /\ Types' /\ ByApp(a) /\ worker'[a] = w /\ FreshOK(a)'
        /\ \A p \in Reqs : On(p, a)' <=> On(p, a)
    <2>1. /\ code' \in [Apps -> Commits \cup {None}] /\ (\A b \in Apps \ {a} : code'[b] = code[b])
          /\ Exists(a) \/ code'[a] = code[a]
          /\ DirType(dir') /\ OwnDirs(a)
          /\ UNCHANGED <<tree, up, owner, resume, req, spoiled, bounds>>
      BY <1>1 DEF IInv, Types, CodeType, DirType, OwnDirs
    <2>2. w = Idle \/ (w \in Worker /\ (w.path = worker[a].path \/ ClaimsPath(a, w)))
      BY <1>6
    <2> HIDE DEF IInv
    <2> QED
      BY <1>2, <1>7, <1>8, <2>1, <2>2, ThreadStep
  <1>10. ASSUME a \notin spoiled' PROVE SoundOK(a)'
    <2>1. a \notin spoiled
      BY <1>1, <1>10
    <2>2. /\ \A q \in Reqs : ~On(q, a)'
          /\ Exists(a) => OwnedOK(a) /\ WorkerOK(a)
      BY <1>2, <1>9, <2>1, SoloWorker
    <2>3. ASSUME Exists(a)
          PROVE  /\ OwnedOK(a)' /\ Home(a)' /\ tree'[a] = rows'[a].man /\ Known(a, tree[a])'
                 /\ worker[a].path = Path(a)'
                 /\ built => c = tree'[a] /\ ~Lost(a)'
      <3>1. Home(a) /\ tree[a] = rows[a].man /\ worker[a].path = Path(a) /\ Known(a, tree[a])
        BY <1>1, <2>2, <2>3 DEF WorkerOK
      <3>2. Home(a)' /\ (Lost(a)' <=> Lost(a)) /\ Path(a)' = Path(a)
        BY <1>1, <1>8, <2>3, <3>1 DEF Home, Lives, Lost, Path
      <3>3. built => c = tree[a] /\ ~Lost(a)
        <4>1. c = At(a) /\ (built => c # None)
          BY <1>3, <1>4, <3>1 DEF At, Parses
        <4> QED
          BY <2>2, <2>3, <3>1, <4>1, AtIs DEF OwnedOK
      <3>4. OwnedOK(a)' /\ Known(a, tree[a])'
        BY <1>1, <1>8, <2>2, <2>3, <3>1 DEF OwnedOK, Accepted, owner, Vetted, Known
      <3> QED
        BY <1>1, <1>8, <2>3, <3>1, <3>2, <3>3, <3>4
    <2>4. CASE built
      <3>1. ASSUME Exists(a) PROVE WorkerOK(a)'
        BY <1>6, <1>9, <2>3, <2>4, <3>1 DEF WorkerOK
      <3> QED
        BY <1>6, <1>8, <1>9, <2>2, <2>3, <2>4, <3>1, WorkerSound
    <2>5. CASE ~built
      <3>1. ASSUME Exists(a) PROVE RestOK(a)'
        BY <1>8, <2>3, <2>5, <3>1 DEF RestOK, Fits, Settled
      <3> QED
        BY <1>6, <1>8, <1>9, <2>2, <2>3, <2>5, <3>1, RestSound
    <2> QED
      BY <2>4, <2>5
  <1> QED
    BY <1>9, <1>10, StepByApp

LEMMA RunStep == ASSUME IInv, Run PROVE IInv'
  <1>1. PICK a \in Apps, works \in BOOLEAN :
          /\ worker[a].pc = "run"
          /\ worker' = [worker EXCEPT ![a] = Idle]
          /\ IF works /\ Exists(a)
             THEN /\ code' = [code EXCEPT ![a] = worker[a].img]
                  /\ rows' = SetStatus(a, "running")
                  /\ dir' = Made(rows[a].name, a)
             ELSE /\ rows' = SetStatus(a, "error")
                  /\ UNCHANGED <<code, dir>>
          /\ UNCHANGED <<tree, up, owner, resume, req, spoiled, bounds>>
    BY DEF Run
  <1>2. worker[a] # Idle /\ worker[a] \in Worker
    BY <1>1, WorkerShape DEF IInv, Types, Idle
  <1>3. PICK c \in Commits \cup {None} : c = worker[a].img
    BY <1>2 DEF Worker
  <1>4. PICK runs \in BOOLEAN : runs <=> (works /\ Exists(a))
    OBVIOUS
  <1>5. PICK st \in Statuses : st = IF runs THEN "running" ELSE "error"
    BY DEF Statuses
  <1>6. /\ RowsType' /\ (Exists(a)' <=> Exists(a))
        /\ \A b \in Apps \ {a} : rows'[b] = rows[b]
        /\ Exists(a) => /\ rows'[a].name = rows[a].name /\ rows'[a].man = rows[a].man
                        /\ rows'[a].root = rows[a].root /\ rows'[a].path = rows[a].path
                        /\ rows'[a].status = st /\ ClaimsRow(a, rows'[a])
    <2>1. rows' = SetStatus(a, st)
      BY <1>1, <1>4, <1>5
    <2> QED
      BY <2>1, StatusStep
  <1>7. /\ code' \in [Apps -> Commits \cup {None}] /\ \A b \in Apps \ {a} : code'[b] = code[b]
        /\ code'[a] = IF runs THEN c ELSE code[a]
    BY <1>1, <1>3, <1>4 DEF IInv, Types, CodeType
  <1>8. /\ DirType(dir') /\ OwnDirs(a)
        /\ \A t \in 1..Tiers, m \in Names : dir[t][m] = a => dir'[t][m] = a
        /\ \A m \in Names : dir'[Tmp][m] = dir[Tmp][m]
    <2>1. CASE runs
      <3>1. PICK n \in Names : n = rows[a].name
        BY <1>4, <2>1 DEF IInv, Types, RowsType, AppRow, Exists
      <3>2. a \in Claims(n)
        BY <1>4, <2>1, <3>1, OwnNames DEF IInv, Types
      <3>3. /\ DirType(dir')
            /\ \A t \in 1..Tiers, m \in Names :
                 dir'[t][m] = IF m = n /\ t # Tmp /\ dir[t][n] = None THEN a ELSE dir[t][m]
        BY <1>1, <1>4, <2>1, <3>1, MadeIs DEF IInv, Types, CodeType, DirType
      <3>4. OwnDirs(a)
        BY <1>1, <3>2, <3>3 DEF OwnDirs
      <3> QED
        BY <3>3, <3>4, TmpTier
    <2>2. CASE ~runs
      <3>1. dir' = dir
        BY <1>1, <1>4, <2>2
      <3>2. OwnDirs(a)
        BY <1>1, <3>1 DEF OwnDirs
      <3> QED
        BY <3>1, <3>2 DEF IInv, Types, CodeType, DirType
    <2> QED
      BY <2>1, <2>2
  <1>9. /\ Types' /\ ByApp(a) /\ worker'[a] = Idle /\ FreshOK(a)'
        /\ \A p \in Reqs : On(p, a)' <=> On(p, a)
    <2>1. Idle = Idle \/ (Idle \in Worker /\ (Idle.path = worker[a].path \/ ClaimsPath(a, Idle)))
      OBVIOUS
    <2>2. /\ Exists(a) \/ code'[a] = code[a]
          /\ Exists(a)' => ClaimsRow(a, rows'[a])
          /\ worker' = [worker EXCEPT ![a] = Idle]
          /\ UNCHANGED <<tree, up, owner, resume, req, spoiled, bounds>>
      BY <1>1, <1>4, <1>6, <1>7
    <2> HIDE DEF IInv
    <2> QED
      BY <1>2, <1>6, <1>7, <1>8, <2>1, <2>2, ThreadStep
  <1>10. ASSUME a \notin spoiled' PROVE SoundOK(a)'
    <2>1. a \notin spoiled
      BY <1>1, <1>10
    <2>2. /\ \A q \in Reqs : ~On(q, a)'
          /\ Exists(a) => OwnedOK(a) /\ WorkerOK(a)
      BY <1>2, <1>9, <2>1, SoloWorker
    <2>3. ASSUME Exists(a) PROVE OwnedOK(a)' /\ RestOK(a)'
      <3>1. Home(a) /\ tree[a] = rows[a].man /\ c = tree[a] /\ ~Lost(a) /\ Known(a, tree[a])
        BY <1>1, <1>2, <1>3, <2>2, <2>3 DEF WorkerOK
      <3>2. Home(a)'
        BY <1>6, <1>8, <2>3, <3>1, OwnNames DEF Home, Lives, IInv, Types
      <3>3. OwnedOK(a)'
        <4>1. accepted' = accepted /\ grants' = grants
          BY <1>1 DEF owner
        <4>2. code'[a] = code[a] \/ code'[a] = rows[a].man
          BY <1>7, <3>1
        <4> QED
          BY <1>6, <2>2, <2>3, <4>1, <4>2 DEF OwnedOK, Accepted, Vetted, Known
      <3>4. rows'[a].status \in Settled
        BY <1>5, <1>6, <2>3 DEF Settled
      <3>5. Fits(a, tree[a], rows[a].status)'
        BY <1>1, <1>6, <2>3, <3>1 DEF Fits, Known, Vetted, Accepted, Lost, owner
      <3> QED
        BY <3>2, <3>3, <3>4, <3>5 DEF RestOK
    <2> QED
      BY <1>6, <1>9, <2>2, <2>3, RestSound
  <1> QED
    BY <1>9, <1>10, StepByApp

-----------------------------------------------------------------------------
(* Renaming                                                                *)

LEMMA BeginRenameStep == ASSUME IInv, BeginRename PROVE IInv'
  <1>0. PICK r \in Reqs, a \in Apps, n \in Names :
          /\ Ask /\ LoopFree /\ req[r] = Idle
          /\ Exists(a) /\ rows[a].name # n /\ ~Taken(n)
          /\ code' = [code EXCEPT ![a] = None]
          /\ rows' = SetStatus(a, "stopped")
          /\ req' = [req EXCEPT ![r] = [pc |-> "move", app |-> a, from |-> rows[a].name, to |-> n,
                                        was |-> rows[a].status, tier |-> 1, moved |-> {}]]
          /\ Spoil(Overlap(a) \cup (IF Wanted(n) = {} THEN {} ELSE Wanted(n) \cup {a}))
          /\ UNCHANGED <<dir, tree, up, owner, resume, worker, faults>>
    BY Zenon DEF BeginRename
  <1>1. /\ ops < MaxOps /\ ops' = ops + 1 /\ req[r] = Idle
        /\ Exists(a) /\ rows[a].name # n /\ ~Taken(n)
        /\ code' = [code EXCEPT ![a] = None]
        /\ rows' = SetStatus(a, "stopped")
        /\ req' = [req EXCEPT ![r] = [pc |-> "move", app |-> a, from |-> rows[a].name, to |-> n,
                                      was |-> rows[a].status, tier |-> 1, moved |-> {}]]
        /\ spoiled' = spoiled \cup (Overlap(a) \cup (IF Wanted(n) = {} THEN {} ELSE Wanted(n) \cup {a}))
        /\ UNCHANGED <<dir, tree, up, owner, resume, worker, faults>>
    BY <1>0 DEF Ask, Spoil
  <1>2. PICK q1 : q1 = [pc |-> "move", app |-> a, from |-> rows[a].name, to |-> n,
                        was |-> rows[a].status, tier |-> 1, moved |-> {}]
    OBVIOUS
  <1>3. ActorsType /\ RowsType
    BY DEF IInv, Types
  <1>4. rows[a].name \in Names /\ rows[a].status \in Statuses /\ a \in Claims(rows[a].name)
    BY <1>1, <1>3, OwnNames DEF RowsType, Exists, AppRow
  <1>5. /\ q1 \in RenameReq /\ q1 \in AnyReq /\ q1.app = a /\ q1.pc = "move" /\ q1.from = rows[a].name
        /\ q1.to = n /\ q1.was = rows[a].status /\ q1.tier = 1 /\ q1.moved = {}
    <2>1. 1 \in 1..Tiers /\ 1 \in Nat
      BY AppSourceAssumption
    <2> QED
      BY <1>2, <1>4, <2>1 DEF RenameReq, Renaming, AnyReq
  <1>6. NamesOf(q1) = {rows[a].name, n}
    BY <1>5, NamesOfAre
  <1>7. /\ RowsType' /\ Exists(a)'
        /\ \A b \in Apps \ {a} : rows'[b] = rows[b]
        /\ rows'[a].status = "stopped" /\ rows'[a].name = rows[a].name
        /\ rows'[a].root = rows[a].root /\ rows'[a].path = rows[a].path
        /\ rows'[a].man = rows[a].man /\ ClaimsRow(a, rows'[a])
    <2>1. "stopped" \in Statuses
      BY DEF Statuses
    <2> QED
      BY <1>1, <2>1, StatusStep
  <1>8. /\ code' \in [Apps -> Commits \cup {None}] /\ code'[a] = None
        /\ \A b \in Apps \ {a} : code'[b] = code[b]
    BY <1>1 DEF IInv, Types, CodeType
  <1>9. spoiled \subseteq spoiled' /\ spoiled' \subseteq Apps
    <2>1. Wanted(n) \subseteq Claims(n) /\ Claims(n) \subseteq Apps
      BY <1>3, ClaimsAreApps DEF Claims, ClaimsInApps
    <2>2. Overlap(a) \subseteq Apps /\ spoiled \subseteq Apps
      BY OverlapIs DEF IInv, Types, CodeType
    <2> QED
      BY <1>1, <2>1, <2>2
  <1>10. /\ req' \in [Reqs -> AnyReq] /\ req'[r] = q1
         /\ \A p \in Reqs \ {r} : req'[p] = req[p]
         /\ \A p \in Reqs \ {r}, b \in Apps : On(p, b)' <=> On(p, b)
    <2>1. req' = [req EXCEPT ![r] = q1] /\ (q1 = Idle \/ q1 \in AnyReq)
      BY <1>1, <1>2, <1>5
    <2> QED
      BY <1>3, <2>1, ReqChanged
  <1>11. Types'
    <2>1. CodeType'
      BY <1>1, <1>8, <1>9 DEF IInv, Types, CodeType
    <2>2. OwnerType' /\ BoundsType'
      BY <1>1, AppSourceAssumption DEF IInv, Types, OwnerType, BoundsType, owner
    <2>3. ActorsType'
      BY <1>1, <1>3, <1>10 DEF ActorsType, AnyReq
    <2> QED
      BY <1>7, <2>1, <2>2, <2>3 DEF Types
  <1>12. \A m \in Names : a \in Claims(m)' => a \in Claims(m) \/ m = n
    <2>1. ActorsType /\ ActorsType'
      BY <1>3, <1>11 DEF Types
    <2>2. Exists(a)' => \A m \in {rows'[a].name, rows'[a].path} : a \in Claims(m) \/ m = n
      BY <1>7 DEF ClaimsRow
    <2>3. \A p \in Reqs : On(p, a)' =>
            \/ req'[p] = req[p]
            \/ \A m \in NamesOf(req'[p]) : a \in Claims(m) \/ m = n
      BY <1>4, <1>6, <1>10
    <2>4. worker'[a] # Idle => worker'[a] = worker[a] \/ ClaimsPath(a, worker'[a]) \/ worker'[a].path = n
      BY <1>1
    <2> QED
      BY <2>1, <2>2, <2>3, <2>4, ClaimsFrom, Zenon
  <1>13. \A b \in Claims(n) \ {a} : {a, b} \subseteq spoiled'
    <2>1. Claims(n) = Wanted(n)
      BY <1>1 DEF Claims, Taken
    <2> QED
      BY <1>1, <2>1
  <1>14. ByApp(a)
    <2>1. OwnRows(a)
      BY <1>1, <1>7, <1>8, <1>9 DEF OwnRows, owner
    <2>2. OwnReqs(a)
      BY <1>1, <1>5, <1>10 DEF OwnReqs, Idle
    <2>3. OwnDirs(a)
      BY <1>1 DEF OwnDirs
    <2>4. OwnClaims(a)
      BY <1>12, <1>13 DEF OwnClaims
    <2> QED
      BY <2>1, <2>2, <2>3, <2>4 DEF ByApp
  <1>15. FreshOK(a)'
    <2>1. tree[a] # None /\ \A p \in Reqs : On(p, a) => req[p].pc \notin Installing
      BY <1>1, WorkerNotFresh
    <2>2. \A p \in Reqs : On(p, a)' => req'[p].pc \notin Installing
      BY <1>5, <1>10, <2>1 DEF Installing
    <2>3. tree'[a] # None
      BY <1>1, <2>1
    <2> QED
      BY <1>7, <2>2, <2>3, StaysFresh
  <1>16. ASSUME a \notin spoiled' PROVE SoundOK(a)'
    <2>1. a \notin spoiled /\ ~Busy(a)
      BY <1>1, <1>16, OverlapIs
    <2>2. (\A p \in Reqs : ~On(p, a)) /\ worker[a] = Idle /\ OwnedOK(a) /\ RestOK(a)
      BY <1>1, <2>1, AtRest
    <2>3. OwnedOK(a)'
      BY <1>1, <1>7, <1>8, <2>2 DEF OwnedOK, Accepted, owner, Vetted, Known
    <2>4. RenameOK(a, req[r])'
      <3>1. Home(a)'
        BY <1>1, <1>7, <2>2 DEF RestOK, Home, Lives
      <3>2. Fits(a, tree[a], q1.was)'
        BY <1>1, <1>5, <1>7, <2>2 DEF RestOK, Fits, Accepted, owner, Vetted, Known, Lost
      <3>3. q1.moved = 1..(q1.tier - 1)
        BY <1>5
      <3>4. rows[a].status \in Settled
        BY <2>2 DEF RestOK
      <3>5. \A t \in 1..Tiers : (Lives(a, t, IF t \in req[r].moved THEN req[r].to ELSE req[r].from))'
        BY <1>5, <1>7, <1>10, <3>1 DEF Home
      <3>6. (Fits(a, tree[a], req[r].was))'
        BY <1>10, <3>2
      <3> QED
        BY <1>1, <1>5, <1>7, <1>10, <3>3, <3>4, <3>5, <3>6 DEF RenameOK
    <2>5. ReqOK(a, req[r])'
      BY <1>5, <1>10, <2>4 DEF ReqOK, Updating
    <2>6. On(r, a)' /\ (\A p \in Reqs \ {r} : ~On(p, a)') /\ worker'[a] = Idle
      BY <1>1, <1>5, <1>10, <2>2 DEF On
    <2> QED
      BY <2>3, <2>5, <2>6, ReqSound
  <1> QED
    BY <1>11, <1>14, <1>15, <1>16, StepByApp

\* A directory that moves from one name of an app to another.
LEMMA MovedDirs ==
    ASSUME IInv, NEW a \in Apps, NEW t \in 1..Tiers, NEW n \in Names, NEW m \in Names,
           a \in Claims(n), a \in Claims(m), dir' = Moved(t, n, m), tree' = tree
    PROVE  /\ DirType(dir') /\ OwnDirs(a)
           /\ \A u \in 1..Tiers \ {t} : dir'[u] = dir[u]
           /\ n # m /\ Lives(a, t, n) => Lives(a, t, m)'
  <1>1. /\ DirType(dir') /\ DirType(dir)
        /\ \A u \in 1..Tiers, k \in Names :
             dir'[u][k] = IF u # t THEN dir[u][k]
                          ELSE IF k = n THEN None ELSE IF k = m THEN dir[t][n] ELSE dir[t][k]
    BY MovedIs DEF IInv, Types, CodeType, DirType
  <1>2. OwnDirs(a)
    <2>1. None \notin Apps
      BY AppSourceAssumption
    <2> QED
      BY <1>1, <2>1 DEF OwnDirs
  <1>3. \A u \in 1..Tiers \ {t} : dir'[u] = dir[u]
    <2>1. ASSUME NEW u \in 1..Tiers \ {t} PROVE dir'[u] = dir[u]
      <3>1. dir'[u] \in [Names -> Apps \cup {None}] /\ dir[u] \in [Names -> Apps \cup {None}]
        BY <1>1 DEF DirType
      <3>2. \A k \in Names : dir'[u][k] = dir[u][k]
        BY <1>1
      <3> QED
        BY <3>1, <3>2
    <2> QED
      BY <2>1
  <1>4. n # m /\ Lives(a, t, n) => Lives(a, t, m)'
    <2>1. None \notin Apps
      BY AppSourceAssumption
    <2> QED
      BY <1>1, <2>1 DEF Lives
  <1> QED
    BY <1>1, <1>2, <1>3, <1>4

\* The request that renames an app goes on, or ends.
GoesOn(r, a, q) ==
    \/ q = Idle
    \/ q \in RenameReq /\ q.app = a /\ q.from = req[r].from /\ q.to = req[r].to

LEMMA RenameStep ==
    ASSUME IInv, NEW r \in Reqs, req[r].pc \in Renaming, NEW a \in Apps, On(r, a),
           NEW q1, GoesOn(r, a, q1),
           req' = [req EXCEPT ![r] = q1],
           RowsType', Exists(a)' <=> Exists(a), \A b \in Apps \ {a} : rows'[b] = rows[b],
           Exists(a)' => ClaimsRow(a, rows'[a]),
           DirType(dir'), OwnDirs(a), BoundsType', spoiled' \in {spoiled, spoiled \cup {a}},
           UNCHANGED <<tree, up, code, owner, resume, worker>>
    PROVE  /\ Types' /\ ByApp(a) /\ FreshOK(a)' /\ req'[r] = q1
           /\ \A p \in Reqs \ {r}, b \in Apps : On(p, b)' <=> On(p, b)
  <1>1. ActorsType /\ req[r] \in RenameReq
    BY ReqShape DEF IInv, Types
  <1>2. CodeType' /\ OwnerType' /\ worker' \in [Apps -> Worker \cup {Idle}]
    BY DEF IInv, Types, CodeType, OwnerType, ActorsType, owner, DirType
  <1>3. OwnRows(a)
    BY DEF OwnRows, owner
  <1>4. /\ ActorsType' /\ ByApp(a) /\ req'[r] = q1
        /\ \A p \in Reqs \ {r} : req'[p] = req[p]
        /\ \A p \in Reqs \ {r}, b \in Apps : On(p, b)' <=> On(p, b)
    <2>1. q1 = Idle \/ (q1 \in AnyReq /\ q1.app = a /\ q1.pc # "idle" /\ \A m \in NamesOf(q1) : a \in Claims(m))
      <3>1. a \in Claims(req[r].from) /\ a \in Claims(req[r].to)
        BY <1>1, OwnNames DEF IInv, Types
      <3>2. CASE q1 # Idle
        <4>1. NamesOf(q1) = {req[r].from, req[r].to}
          BY <3>2, NamesOfAre DEF GoesOn
        <4>2. q1.pc # "idle" /\ q1 \in AnyReq /\ q1.app = a
          BY <3>2 DEF GoesOn, RenameReq, Renaming, AnyReq
        <4> QED
          BY <3>1, <3>2, <4>1, <4>2
      <3> QED
        BY <3>2
    <2>2. worker'[a] # Idle => worker'[a] = worker[a] \/ ClaimsPath(a, worker'[a])
      OBVIOUS
    <2>3. On(r, a) \/ req[r] = Idle
      OBVIOUS
    <2>4. worker' \in [Apps -> Worker \cup {Idle}]
      BY <1>2
    <2> HIDE DEF IInv
    <2> QED
      BY <1>3, <2>1, <2>2, <2>3, <2>4, ReqStep, Zenon
  <1>5. FreshOK(a)'
    <2>1. tree[a] # None /\ \A p \in Reqs : On(p, a) => req[p].pc \notin Installing
      BY <1>1, NotFresh
    <2>2. req'[r].pc \notin Installing
      BY <1>4 DEF GoesOn, RenameReq, Renaming, Installing, Idle
    <2>3. \A p \in Reqs : On(p, a)' => req'[p].pc \notin Installing
      BY <1>4, <2>1, <2>2
    <2>4. (Exists(a)' \/ code'[a] = None) /\ tree'[a] # None
      BY <2>1 DEF IInv, AppsOK, AppOK, FreshOK
    <2> QED
      BY <2>3, <2>4, StaysFresh
  <1> QED
    BY <1>2, <1>4, <1>5 DEF Types

LEMMA MoveTierStep == ASSUME IInv, MoveTier PROVE IInv'
  <1>1. PICK r \in Reqs, works \in BOOLEAN :
          /\ req[r].pc = "move"
          /\ LET q == req[r]
                 t == q.tier
                 movable == dir[t][q.from] # None /\ dir[t][q.to] = None
             IN /\ works \/ movable
                /\ IF works THEN NoFault ELSE Fault
                /\ dir' = IF works /\ movable THEN Moved(t, q.from, q.to) ELSE dir
                /\ req' = [req EXCEPT ![r] =
                     IF ~works THEN [q EXCEPT !.pc = "undo"]
                     ELSE [q EXCEPT !.moved = IF movable THEN @ \cup {t} ELSE @, !.tier = t + 1,
                                    !.pc = IF t = Tiers THEN "name" ELSE "move"]]
                /\ Spoil(IF dir[t][q.from] # None /\ dir[t][q.to] # None THEN {q.app} ELSE {})
          /\ UNCHANGED <<rows, tree, up, code, owner, resume, worker, ops>>
    BY DEF MoveTier
  <1>2. ActorsType /\ req[r] \in RenameReq /\ req[r].pc \in Renaming
    BY <1>1, ReqShape DEF IInv, Types, Renaming
  <1>3. PICK q \in RenameReq : q = req[r] /\ q.pc = "move"
    BY <1>1, <1>2
  <1>4. PICK a \in Apps : a = q.app
    BY <1>3 DEF RenameReq
  <1>5. PICK n \in Names, m \in Names : n = q.from /\ m = q.to
    BY <1>3 DEF RenameReq
  <1>6. PICK t \in 1..Tiers : t = q.tier
    BY <1>3 DEF RenameReq
  <1>7. PICK movable \in BOOLEAN : movable <=> (dir[t][n] # None /\ dir[t][m] = None)
    OBVIOUS
  <1>8. PICK mv \in SUBSET (1..Tiers) : mv = IF movable THEN q.moved \cup {t} ELSE q.moved
    <2>1. q.moved \in SUBSET (1..Tiers)
      BY <1>3 DEF RenameReq
    <2> QED
      BY <2>1
  <1>9. PICK pc \in {"name", "move"} : pc = IF t = Tiers THEN "name" ELSE "move"
    OBVIOUS
  <1>10. PICK q1 : q1 = IF ~works THEN [q EXCEPT !.pc = "undo"]
                        ELSE [q EXCEPT !.moved = mv, !.tier = t + 1, !.pc = pc]
    OBVIOUS
  <1>11. Tiers \in Nat /\ t \in Nat /\ t + 1 \in Nat /\ (t # Tiers => t + 1 \in 1..Tiers)
    BY AppSourceAssumption
  <1>12. /\ q1 \in RenameReq /\ q1.app = a /\ q1.from = n /\ q1.to = m /\ q1.was = q.was
         /\ works => q1.pc = pc /\ q1.moved = mv /\ q1.tier = t + 1
         /\ ~works => q1.pc = "undo" /\ q1.moved = q.moved
    <2>1. CASE works
      <3>1. q1 = [q EXCEPT !.moved = mv, !.tier = t + 1, !.pc = pc]
        BY <1>10, <2>1
      <3>2. /\ q1 \in [pc : Renaming, app : Apps, from : Names, to : Names, was : Statuses,
                       tier : Nat, moved : SUBSET (1..Tiers)]
            /\ q1.app = a /\ q1.from = n /\ q1.to = m /\ q1.was = q.was
            /\ q1.pc = pc /\ q1.moved = mv /\ q1.tier = t + 1
        BY <1>3, <1>4, <1>5, <1>11, <3>1 DEF RenameReq, Renaming
      <3>3. q1.pc = "move" => q1.tier \in 1..Tiers
        BY <1>9, <1>11, <3>2
      <3> QED
        BY <2>1, <3>2, <3>3 DEF RenameReq
    <2>2. CASE ~works
      BY <1>3, <1>4, <1>5, <1>10, <2>2 DEF RenameReq, Renaming
    <2> QED
      BY <2>1, <2>2
  <1>13. /\ req' = [req EXCEPT ![r] = q1]
         /\ dir' = IF works /\ movable THEN Moved(t, n, m) ELSE dir
         /\ spoiled' = spoiled \cup (IF dir[t][n] # None /\ dir[t][m] # None THEN {a} ELSE {})
         /\ faults' = faults \/ (faults < MaxFaults /\ faults' = faults + 1)
    <2>1. dir' = IF works /\ movable THEN Moved(t, n, m) ELSE dir
      BY <1>1, <1>3, <1>5, <1>6, <1>7
    <2>2. spoiled' = spoiled \cup (IF dir[t][n] # None /\ dir[t][m] # None THEN {a} ELSE {})
      BY <1>1, <1>3, <1>4, <1>5, <1>6 DEF Spoil
    <2>3. faults' = faults \/ (faults < MaxFaults /\ faults' = faults + 1)
      BY <1>1 DEF Fault, NoFault
    <2>4. req' = [req EXCEPT ![r] =
                   IF ~works THEN [q EXCEPT !.pc = "undo"]
                   ELSE [q EXCEPT !.moved = IF movable THEN q.moved \cup {t} ELSE q.moved, !.tier = t + 1,
                                  !.pc = IF t = Tiers THEN "name" ELSE "move"]]
      BY <1>1, <1>3, <1>5, <1>6, <1>7 DEF RenameReq
    <2>5. req' = [req EXCEPT ![r] = q1]
      BY <1>8, <1>9, <1>10, <2>4
    <2> QED
      BY <2>1, <2>2, <2>3, <2>5
  <1>14. On(r, a) /\ a \in Claims(n) /\ a \in Claims(m)
    <2>1. On(r, a)
      BY <1>3, <1>4 DEF On
    <2> QED
      BY <1>2, <1>3, <1>5, <2>1, OwnNames DEF IInv, Types
  <1>15. DirType(dir') /\ OwnDirs(a)
    <2>1. CASE works /\ movable
      BY <1>1, <1>13, <1>14, <2>1, MovedDirs
    <2>2. CASE ~(works /\ movable)
      BY <1>1, <1>13, <2>2 DEF OwnDirs, IInv, Types, CodeType, DirType
    <2> QED
      BY <2>1, <2>2
  <1>16. /\ RowsType' /\ (Exists(a)' <=> Exists(a)) /\ (\A b \in Apps \ {a} : rows'[b] = rows[b])
         /\ Exists(a)' => ClaimsRow(a, rows'[a])
    BY <1>1, OwnNames DEF IInv, Types, RowsType, Exists
  <1>17. BoundsType'
    BY <1>1, <1>13, AppSourceAssumption DEF IInv, Types, BoundsType
  <1>18. /\ Types' /\ ByApp(a) /\ FreshOK(a)' /\ req'[r] = q1
         /\ \A p \in Reqs \ {r}, b \in Apps : On(p, b)' <=> On(p, b)
    <2>1. GoesOn(r, a, q1)
      BY <1>3, <1>5, <1>12 DEF GoesOn
    <2>2. spoiled' \in {spoiled, spoiled \cup {a}}
      BY <1>13
    <2>3. UNCHANGED <<tree, up, code, owner, resume, worker>> /\ req' = [req EXCEPT ![r] = q1]
      BY <1>1, <1>13
    <2> QED
      BY <1>2, <1>14, <1>15, <1>16, <1>17, <2>1, <2>2, <2>3, RenameStep
  <1>19. ASSUME a \notin spoiled' PROVE SoundOK(a)'
    <2>1. a \notin spoiled
      BY <1>13, <1>19
    <2>2. /\ \A p \in Reqs \ {r} : ~On(p, a)
          /\ worker[a] = Idle /\ ReqOK(a, q) /\ (Exists(a) => OwnedOK(a))
      BY <1>3, <1>14, <2>1, SoloReq
    <2>3. /\ On(r, a)' /\ (\A p \in Reqs \ {r} : ~On(p, a)') /\ worker'[a] = Idle
          /\ req'[r].pc \in Renaming
      BY <1>1, <1>12, <1>18, <2>2 DEF On, RenameReq, Renaming
    <2>4. ASSUME Exists(a) PROVE OwnedOK(a)' /\ RenameOK(a, req[r])'
      <3>1. OwnedOK(a)'
        BY <1>1, <2>2, <2>4 DEF OwnedOK, Accepted, owner, Vetted, Known
      <3>2. RenameOK(a, q)
        BY <1>2, <1>3, <2>2, <2>4 DEF ReqOK
      <3>3. n # m /\ q.moved = 1..(t - 1) /\ t \notin q.moved
        BY <1>3, <1>5, <1>6, <1>11, <3>2 DEF RenameOK
      <3>4. Lives(a, t, n) /\ movable
        <4>1. Lives(a, t, n)
          BY <1>5, <3>2, <3>3 DEF RenameOK
        <4>2. dir[t][n] # None
          BY <4>1, AppSourceAssumption DEF Lives
        <4> QED
          BY <1>7, <1>13, <1>19, <4>1, <4>2
      <3>5. \A u \in 1..Tiers : Lives(a, u, IF u \in q1.moved THEN q1.to ELSE q1.from)'
        <4>1. CASE ~works
          <5>1. dir' = dir /\ q1.moved = q.moved
            BY <1>12, <1>13, <4>1
          <5> QED
            BY <1>5, <1>12, <3>2, <5>1 DEF RenameOK, Lives
        <4>2. CASE works
          <5>1. Lives(a, t, m)' /\ \A u \in 1..Tiers \ {t} : dir'[u] = dir[u]
            BY <1>1, <1>13, <1>14, <3>3, <3>4, <4>2, MovedDirs
          <5>2. q1.moved = q.moved \cup {t}
            BY <1>8, <1>12, <3>4, <4>2
          <5>3. ASSUME NEW u \in 1..Tiers \ {t} PROVE Lives(a, u, IF u \in q.moved THEN m ELSE n)'
            BY <1>5, <3>2, <5>1 DEF RenameOK, Lives
          <5>4. ASSUME NEW u \in 1..Tiers PROVE Lives(a, u, IF u \in q1.moved THEN q1.to ELSE q1.from)'
            <6>1. CASE u = t
              BY <1>12, <5>1, <5>2, <6>1
            <6>2. CASE u # t
              BY <1>12, <5>2, <5>3, <6>2
            <6> QED
              BY <6>1, <6>2
          <5> QED
            BY <5>4
        <4> QED
          BY <4>1, <4>2
      <3>6. works => q1.moved = 1..t
        <4>1. 1..t = (1..(t - 1)) \cup {t}
          BY <1>11
        <4>2. works => q1.moved = q.moved \cup {t}
          BY <1>8, <1>12, <3>4
        <4> QED
          BY <3>3, <4>1, <4>2
      <3>7. q1.pc = "move" => q1.moved = 1..(q1.tier - 1)
        BY <1>9, <1>11, <1>12, <3>6
      <3>8. q1.pc = "name" => q1.moved = 1..Tiers
        BY <1>9, <1>12, <3>6
      <3>9. Fits(a, tree[a], q1.was)'
        BY <1>1, <1>12, <3>2 DEF RenameOK, Fits, Accepted, owner, Vetted, Known, Lost
      <3>10. \A u \in 1..Tiers : (Lives(a, u, IF u \in req[r].moved THEN req[r].to ELSE req[r].from))'
        BY <1>18, <3>5
      <3>11. (Fits(a, tree[a], req[r].was))'
        BY <1>18, <3>9
      <3> QED
        BY <1>1, <1>5, <1>12, <1>18, <3>1, <3>2, <3>3, <3>7, <3>8, <3>10, <3>11 DEF RenameOK
    <2>5. ReqOK(a, req[r])'
      BY <1>16, <2>3, <2>4 DEF ReqOK, Renaming, Updating
    <2> QED
      BY <1>16, <2>3, <2>4, <2>5, ReqSound
  <1> QED
    BY <1>18, <1>19, StepByApp

LEMMA UndoStep == ASSUME IInv, Undo PROVE IInv'
  <1>1. PICK r \in Reqs, works \in BOOLEAN :
          /\ req[r].pc = "undo"
          /\ LET q == req[r]
                 t == Max(q.moved)
             IN IF q.moved = {}
                THEN /\ works /\ NoFault /\ UNCHANGED <<dir, spoiled>>
                     /\ rows' = SetStatus(q.app, q.was)
                     /\ req' = [req EXCEPT ![r] = Idle]
                ELSE /\ IF works THEN NoFault ELSE Fault
                     /\ dir' = IF works THEN Moved(t, q.to, q.from) ELSE dir
                     /\ req' = [req EXCEPT ![r].moved = @ \ {t}]
                     /\ Spoil(IF works THEN {} ELSE {q.app})
                     /\ UNCHANGED rows
          /\ UNCHANGED <<tree, up, code, owner, resume, worker, ops>>
    BY DEF Undo
  <1>2. ActorsType /\ req[r] \in RenameReq /\ req[r].pc \in Renaming
    BY <1>1, ReqShape DEF IInv, Types, Renaming
  <1>3. PICK q \in RenameReq : q = req[r] /\ q.pc = "undo"
    BY <1>1, <1>2
  <1>4. PICK a \in Apps : a = q.app
    BY <1>3 DEF RenameReq
  <1>5. PICK n \in Names, m \in Names : n = q.from /\ m = q.to
    BY <1>3 DEF RenameReq
  <1>6. PICK was \in Statuses : was = q.was
    BY <1>3 DEF RenameReq
  <1>7. PICK mv \in SUBSET (1..Tiers) : mv = q.moved
    BY <1>3 DEF RenameReq
  <1>8. On(r, a) /\ a \in Claims(n) /\ a \in Claims(m)
    <2>1. On(r, a)
      BY <1>3, <1>4 DEF On
    <2> QED
      BY <1>2, <1>3, <1>5, <2>1, OwnNames DEF IInv, Types
  <1>9. ASSUME a \notin spoiled
        PROVE  /\ \A p \in Reqs \ {r} : ~On(p, a)
               /\ worker[a] = Idle
               /\ Exists(a) => OwnedOK(a) /\ RenameOK(a, q)
    BY <1>2, <1>3, <1>8, <1>9, SoloReq DEF ReqOK
  <1>10. CASE mv = {}
    <2>1. /\ NoFault /\ dir' = dir /\ spoiled' = spoiled
          /\ rows' = SetStatus(a, was) /\ req' = [req EXCEPT ![r] = Idle]
      BY <1>1, <1>3, <1>4, <1>6, <1>7, <1>10
    <2>2. /\ RowsType' /\ (Exists(a)' <=> Exists(a))
          /\ \A b \in Apps \ {a} : rows'[b] = rows[b]
          /\ Exists(a) => /\ rows'[a].status = was /\ rows'[a].name = rows[a].name
                          /\ rows'[a].root = rows[a].root /\ rows'[a].path = rows[a].path
                          /\ rows'[a].man = rows[a].man /\ ClaimsRow(a, rows'[a])
      BY <2>1, StatusStep
    <2>3. /\ Types' /\ ByApp(a) /\ FreshOK(a)' /\ req'[r] = Idle
          /\ \A p \in Reqs \ {r}, b \in Apps : On(p, b)' <=> On(p, b)
      <3>1. DirType(dir') /\ OwnDirs(a)
        BY <1>1, <2>1 DEF IInv, Types, CodeType, DirType, OwnDirs
      <3>2. BoundsType'
        BY <1>1, <2>1 DEF IInv, Types, BoundsType, NoFault
      <3>3. GoesOn(r, a, Idle) /\ spoiled' \in {spoiled, spoiled \cup {a}}
        BY <2>1 DEF GoesOn
      <3>4. UNCHANGED <<tree, up, code, owner, resume, worker>>
        BY <1>1
      <3>5. Exists(a)' => ClaimsRow(a, rows'[a])
        BY <2>2
      <3> QED
        BY <1>2, <1>8, <2>1, <2>2, <3>1, <3>2, <3>3, <3>4, <3>5, RenameStep
    <2>4. ASSUME a \notin spoiled' PROVE SoundOK(a)'
      <3>1. a \notin spoiled
        BY <2>1, <2>4
      <3>2. ASSUME Exists(a) PROVE OwnedOK(a)' /\ RestOK(a)'
        <4>1. OwnedOK(a) /\ RenameOK(a, q)
          BY <1>9, <3>1, <3>2
        <4>2. OwnedOK(a)'
          BY <1>1, <2>2, <3>2, <4>1 DEF OwnedOK, Accepted, owner, Vetted, Known
        <4>3. Home(a)'
          BY <1>5, <1>7, <1>10, <2>1, <2>2, <3>2, <4>1 DEF RenameOK, Home, Lives
        <4>4. Fits(a, tree[a], rows[a].status)'
          BY <1>1, <1>6, <2>2, <3>2, <4>1 DEF RenameOK, Fits, Accepted, owner, Vetted, Known, Lost
        <4> QED
          BY <1>6, <2>2, <3>2, <4>1, <4>2, <4>3, <4>4 DEF RestOK, RenameOK
      <3>3. \A p \in Reqs : ~On(p, a)'
        BY <1>9, <2>3, <3>1 DEF On, Idle
      <3>4. worker'[a] = Idle
        BY <1>1, <1>9, <3>1
      <3> QED
        BY <2>2, <3>2, <3>3, <3>4, RestSound
    <2> QED
      BY <2>3, <2>4, StepByApp
  <1>11. CASE mv # {}
    <2>1. PICK t \in mv : t = Max(mv)
      BY <1>11, MaxIsThere
    <2>2. PICK q1 : q1 = [q EXCEPT !.moved = mv \ {t}]
      OBVIOUS
    <2>3. /\ q1 \in RenameReq /\ q1.app = a /\ q1.from = n /\ q1.to = m /\ q1.was = q.was
          /\ q1.pc = "undo" /\ q1.moved = mv \ {t}
      BY <1>3, <1>4, <1>5, <1>7, <2>2 DEF RenameReq, Renaming
    <2>4. /\ IF works THEN NoFault ELSE Fault
          /\ dir' = IF works THEN Moved(t, m, n) ELSE dir
          /\ req' = [req EXCEPT ![r] = q1]
          /\ spoiled' = spoiled \cup (IF works THEN {} ELSE {a})
          /\ rows' = rows
      <3>1. req' = [req EXCEPT ![r].moved = @ \ {t}]
        BY <1>1, <1>3, <1>7, <1>11, <2>1
      <3>2. req' = [req EXCEPT ![r] = q1]
        BY <1>2, <1>3, <1>7, <2>2, <3>1 DEF ActorsType
      <3> QED
        BY <1>1, <1>3, <1>4, <1>5, <1>7, <1>11, <2>1, <3>2 DEF Spoil
    <2>5. t \in 1..Tiers
      OBVIOUS
    <2>6. DirType(dir') /\ OwnDirs(a)
      <3>1. CASE works
        BY <1>1, <1>8, <2>4, <2>5, <3>1, MovedDirs
      <3>2. CASE ~works
        BY <1>1, <2>4, <3>2 DEF OwnDirs, IInv, Types, CodeType, DirType
      <3> QED
        BY <3>1, <3>2
    <2>7. /\ Types' /\ ByApp(a) /\ FreshOK(a)' /\ req'[r] = q1
          /\ \A p \in Reqs \ {r}, b \in Apps : On(p, b)' <=> On(p, b)
      <3>1. /\ RowsType' /\ (Exists(a)' <=> Exists(a)) /\ (\A b \in Apps \ {a} : rows'[b] = rows[b])
            /\ Exists(a)' => ClaimsRow(a, rows'[a])
        BY <2>4, OwnNames DEF IInv, Types, RowsType, Exists
      <3>2. BoundsType'
        <4>1. ops' = ops /\ (faults' = faults \/ (faults < MaxFaults /\ faults' = faults + 1))
          BY <1>1, <2>4 DEF Fault, NoFault
        <4> QED
          BY <4>1, AppSourceAssumption DEF IInv, Types, BoundsType
      <3>3. GoesOn(r, a, q1) /\ spoiled' \in {spoiled, spoiled \cup {a}}
        BY <1>3, <1>5, <2>3, <2>4 DEF GoesOn
      <3>4. UNCHANGED <<tree, up, code, owner, resume, worker>>
        BY <1>1
      <3> QED
        BY <1>2, <1>8, <2>4, <2>6, <3>1, <3>2, <3>3, <3>4, RenameStep
    <2>8. ASSUME a \notin spoiled' PROVE SoundOK(a)'
      <3>1. a \notin spoiled /\ works
        BY <2>4, <2>8
      <3>2. /\ On(r, a)' /\ (\A p \in Reqs \ {r} : ~On(p, a)') /\ worker'[a] = Idle
            /\ (Exists(a)' <=> Exists(a))
        BY <1>1, <1>9, <2>3, <2>4, <2>7, <3>1 DEF On, Exists
      <3>3. ASSUME Exists(a) PROVE OwnedOK(a)' /\ RenameOK(a, req[r])'
        <4>1. OwnedOK(a) /\ RenameOK(a, q)
          BY <1>9, <3>1, <3>3
        <4>2. OwnedOK(a)'
          BY <1>1, <2>4, <4>1 DEF OwnedOK, Accepted, owner, Vetted, Known
        <4>3. n # m /\ Lives(a, t, m)
          BY <1>5, <1>7, <2>5, <4>1 DEF RenameOK
        <4>4. Lives(a, t, n)' /\ \A u \in 1..Tiers \ {t} : dir'[u] = dir[u]
          BY <1>1, <1>8, <2>4, <2>5, <3>1, <4>3, MovedDirs
        <4>5. ASSUME NEW u \in 1..Tiers PROVE Lives(a, u, IF u \in q1.moved THEN q1.to ELSE q1.from)'
          <5>1. CASE u = t
            BY <2>3, <4>4, <5>1
          <5>2. CASE u # t
            <6>1. Lives(a, u, IF u \in mv THEN m ELSE n)
              BY <1>5, <1>7, <4>1 DEF RenameOK
            <6>2. (u \in q1.moved <=> u \in mv) /\ dir'[u] = dir[u]
              BY <2>3, <4>4, <5>2
            <6> QED
              BY <2>3, <6>1, <6>2 DEF Lives
          <5> QED
            BY <5>1, <5>2
        <4>6. \A u \in 1..Tiers : (Lives(a, u, IF u \in req[r].moved THEN req[r].to ELSE req[r].from))'
          BY <2>7, <4>5
        <4>7. (Fits(a, tree[a], req[r].was))'
          BY <1>1, <2>3, <2>4, <2>7, <4>1 DEF RenameOK, Fits, Accepted, owner, Vetted, Known, Lost
        <4> QED
          BY <1>5, <2>3, <2>4, <2>7, <4>1, <4>2, <4>6, <4>7 DEF RenameOK
      <3>4. ReqOK(a, req[r])'
        BY <2>3, <2>7, <3>2, <3>3 DEF ReqOK, Updating
      <3> QED
        BY <3>2, <3>3, <3>4, ReqSound
    <2> QED
      BY <2>7, <2>8, StepByApp
  <1> QED
    BY <1>10, <1>11

LEMMA GiveNameStep == ASSUME IInv, GiveName PROVE IInv'
  <1>1. PICK r \in Reqs :
          /\ req[r].pc = "name"
          /\ LET q == req[r]
                 renamed(x) == IF x = q.from THEN q.to ELSE x
                 root == renamed(rows[q.app].root)
                 path == renamed(rows[q.app].path)
             IN IF ~Exists(q.app) \/ Taken(q.to)
                THEN UNCHANGED <<rows, worker>>
                ELSE /\ rows' = [rows EXCEPT ![q.app].name = q.to, ![q.app].root = root, ![q.app].path = path,
                                   ![q.app].status = IF q.was \in {"running", "starting", "building"}
                                                     THEN "starting" ELSE @]
                     /\ worker' = IF q.was \in {"running", "starting", "building"}
                                  THEN [worker EXCEPT ![q.app] =
                                          Launch(IF root = Root THEN path ELSE None, TRUE)]
                                  ELSE worker
          /\ req' = [req EXCEPT ![r] = Idle]
          /\ UNCHANGED <<dir, tree, up, code, owner, resume, spoiled, bounds>>
    BY DEF GiveName
  <1>2. ActorsType /\ req[r] \in RenameReq /\ req[r].pc \in Renaming
    BY <1>1, ReqShape DEF IInv, Types, Renaming
  <1>3. PICK q \in RenameReq : q = req[r] /\ q.pc = "name"
    BY <1>1, <1>2
  <1>4. PICK a \in Apps : a = q.app
    BY <1>3 DEF RenameReq
  <1>5. PICK m \in Names : m = q.to
    BY <1>3 DEF RenameReq
  <1>6. PICK given \in BOOLEAN : given <=> (Exists(a) /\ ~Taken(m))
    OBVIOUS
  <1>7. PICK starts \in BOOLEAN : starts <=> q.was \in {"running", "starting", "building"}
    OBVIOUS
  <1>8. On(r, a) /\ a \in Claims(m)
    <2>1. On(r, a)
      BY <1>3, <1>4 DEF On
    <2> QED
      BY <1>2, <1>3, <1>5, <2>1, OwnNames DEF IInv, Types
  <1>a. PICK root : root = IF rows[a].root = q.from THEN q.to ELSE rows[a].root
    OBVIOUS
  <1>b. PICK path : path = IF rows[a].path = q.from THEN q.to ELSE rows[a].path
    OBVIOUS
  <1>c. PICK to : to = IF root = Root THEN path ELSE None
    OBVIOUS
  <1>d. Exists(a) => /\ rows[a] \in AppRow /\ root \in Names \cup {None} /\ path \in Names
                     /\ a \in Claims(path) /\ to \in Names \cup {None} /\ (to # None => to = path)
    <2>1. Exists(a) => rows[a] \in AppRow /\ ClaimsRow(a, rows[a])
      BY OwnNames DEF IInv, Types, RowsType, Exists
    <2>2. Exists(a) => root \in Names \cup {None} /\ path \in Names
      BY <1>5, <1>a, <1>b, <2>1 DEF AppRow
    <2>3. Exists(a) => a \in Claims(path)
      BY <1>5, <1>8, <1>b, <2>1 DEF ClaimsRow
    <2> QED
      BY <1>c, <2>1, <2>2, <2>3
  <1>9. PICK row : row = [rows[a] EXCEPT !.name = m, !.root = root, !.path = path,
                                         !.status = IF starts THEN "starting" ELSE rows[a].status]
    OBVIOUS
  <1>10. given => /\ row \in AppRow /\ row # None /\ row.name = m /\ row.man = rows[a].man
                  /\ row.root = root /\ row.path = path
                  /\ row.status = IF starts THEN "starting" ELSE rows[a].status
    <2> SUFFICES ASSUME given
                 PROVE  /\ row \in AppRow /\ row # None /\ row.name = m /\ row.man = rows[a].man
                        /\ row.root = root /\ row.path = path
                        /\ row.status = IF starts THEN "starting" ELSE rows[a].status
      OBVIOUS
    <2>1. rows[a] \in AppRow
      BY <1>6 DEF IInv, Types, RowsType, Exists
    <2>2. PICK st \in Statuses : st = IF starts THEN "starting" ELSE rows[a].status
      BY <2>1 DEF AppRow, Statuses
    <2>3. row = [rows[a] EXCEPT !.name = m, !.root = root, !.path = path, !.status = st]
      BY <1>9, <2>2
    <2>4. /\ row \in AppRow /\ row.name = m /\ row.man = rows[a].man /\ row.status = st
          /\ row.root = root /\ row.path = path
      BY <1>6, <1>d, <2>1, <2>3 DEF AppRow
    <2> QED
      BY <2>2, <2>4, NoneAssumption
  <1>11. /\ ~given => rows' = rows /\ worker' = worker
         /\ given => rows' = [rows EXCEPT ![a] = row]
         /\ given => worker' = IF starts THEN [worker EXCEPT ![a] = Launch(to, TRUE)] ELSE worker
    <2>1. given => /\ rows' = [rows EXCEPT ![a].name = m, ![a].root = root, ![a].path = path,
                                           ![a].status = IF starts THEN "starting" ELSE @]
                   /\ worker' = IF starts THEN [worker EXCEPT ![a] = Launch(to, TRUE)] ELSE worker
      BY <1>1, <1>3, <1>4, <1>5, <1>6, <1>7, <1>a, <1>b, <1>c
    <2>3. ~given => rows' = rows /\ worker' = worker
      BY <1>1, <1>3, <1>4, <1>5, <1>6
    <2>2. given => rows' = [rows EXCEPT ![a] = row]
      BY <1>9, <2>1 DEF IInv, Types, RowsType
    <2> QED
      BY <2>1, <2>2, <2>3
  <1>12. /\ RowsType' /\ (Exists(a)' <=> Exists(a)) /\ (\A b \in Apps \ {a} : rows'[b] = rows[b])
         /\ Exists(a)' => ClaimsRow(a, rows'[a])
         /\ given => rows'[a] = row
    <2>1. CASE ~given
      BY <1>11, <2>1, OwnNames DEF IInv, Types, RowsType, Exists
    <2>2. CASE given
      <3>1. /\ rows' \in [Apps -> AppRow \cup {None}] /\ rows'[a] = row
            /\ \A b \in Apps \ {a} : rows'[b] = rows[b]
        BY <1>10, <1>11, <2>2 DEF IInv, Types, RowsType
      <3>2. \A b \in Apps \ {a} : rows[b] # None => rows[b].name # m
        BY <1>6, <2>2 DEF Taken, Exists
      <3>3. RowsType'
        BY <1>10, <2>2, <3>1, <3>2 DEF IInv, Types, RowsType, Exists
      <3> QED
        BY <1>6, <1>8, <1>10, <1>d, <2>2, <3>1, <3>3 DEF Exists, ClaimsRow
    <2> QED
      BY <2>1, <2>2
  <1>13. /\ worker' \in [Apps -> Worker \cup {Idle}] /\ \A b \in Apps \ {a} : worker'[b] = worker[b]
         /\ worker'[a] = IF given /\ starts THEN Launch(to, TRUE) ELSE worker[a]
         /\ given => Launch(to, TRUE) \in Worker /\ Launch(to, TRUE).path = to
    <2>1. given => Launch(to, TRUE) \in Worker /\ Launch(to, TRUE).path = to
      BY <1>6, <1>d, LaunchIs
    <2> QED
      BY <1>2, <1>11, <2>1 DEF ActorsType
  <1>14. CodeType' /\ OwnerType' /\ BoundsType'
    BY <1>1 DEF IInv, Types, CodeType, OwnerType, BoundsType, owner, bounds
  <1>15. OwnRows(a) /\ OwnDirs(a)
    BY <1>1, <1>12, <1>13 DEF OwnRows, OwnDirs, owner
  <1>16. /\ ActorsType' /\ ByApp(a) /\ req'[r] = Idle
         /\ \A p \in Reqs \ {r} : req'[p] = req[p]
         /\ \A p \in Reqs \ {r}, b \in Apps : On(p, b)' <=> On(p, b)
    <2>1. Idle = Idle \/ (Idle \in AnyReq /\ Idle.app = a /\ Idle.pc # "idle" /\ \A k \in NamesOf(Idle) : a \in Claims(k))
      OBVIOUS
    <2>2. On(r, a) \/ req[r] = Idle
      BY <1>8
    <2>3. req' = [req EXCEPT ![r] = Idle]
      BY <1>1
    <2>4. worker'[a] # Idle => worker'[a] = worker[a] \/ ClaimsPath(a, worker'[a])
      BY <1>6, <1>13, <1>d, AppSourceAssumption DEF ClaimsPath
    <2>5. Exists(a)' => ClaimsRow(a, rows'[a])
      BY <1>12
    <2>6. RowsType' /\ worker' \in [Apps -> Worker \cup {Idle}]
      BY <1>12, <1>13
    <2> QED
      BY <1>15, <2>1, <2>2, <2>3, <2>4, <2>5, <2>6, ReqStep, Zenon
  <1>17. ~On(r, a)'
    BY <1>16 DEF On, Idle
  <1>18. FreshOK(a)'
    <2>1. tree[a] # None /\ \A p \in Reqs : On(p, a) => req[p].pc \notin Installing
      BY <1>2, <1>8, NotFresh
    <2>2. \A p \in Reqs : On(p, a)' => req'[p].pc \notin Installing
      BY <1>16, <1>17, <2>1
    <2>3. (Exists(a)' \/ code'[a] = None) /\ tree'[a] # None
      BY <1>1, <1>12, <2>1 DEF IInv, AppsOK, AppOK, FreshOK
    <2> QED
      BY <2>2, <2>3, StaysFresh
  <1>19. ASSUME a \notin spoiled' PROVE SoundOK(a)'
    <2>1. a \notin spoiled
      BY <1>1, <1>19
    <2>2. /\ \A p \in Reqs \ {r} : ~On(p, a)
          /\ worker[a] = Idle /\ ReqOK(a, q) /\ (Exists(a) => OwnedOK(a))
      BY <1>3, <1>8, <2>1, SoloReq
    <2>3. \A p \in Reqs : ~On(p, a)'
      BY <1>16, <1>17, <2>2
    <2>4. CASE ~Exists(a)
      <3>1. ~Exists(a)' /\ worker'[a] = Idle
        BY <1>6, <1>12, <1>13, <2>2, <2>4
      <3> QED
        BY <2>3, <3>1, RestSound
    <2>5. CASE Exists(a)
      <3>1. RenameOK(a, q)
        BY <1>2, <1>3, <2>2, <2>5 DEF ReqOK
      \* Nobody else has the name: that would be a second claim on it.
      <3>2. given
        <4>1. SUFFICES ASSUME Taken(m) PROVE FALSE
          BY <1>6, <2>5
        <4>2. PICK b \in Apps : Exists(b) /\ rows[b].name = m
          BY <4>1 DEF Taken
        <4>3. b # a
          BY <1>5, <3>1, <4>2 DEF RenameOK
        <4>4. b \in Claims(m)
          BY <4>2 DEF Claims
        <4> QED
          BY <1>8, <2>1, <4>3, <4>4 DEF IInv, ClaimsOK
      <3>3. \A t \in 1..Tiers : Lives(a, t, m)
        BY <1>3, <1>5, <3>1 DEF RenameOK
      <3>4. rows'[a].name = m /\ rows'[a].man = rows[a].man /\ Home(a)'
        BY <1>1, <1>10, <1>12, <3>2, <3>3 DEF Home, Lives
      <3>5. OwnedOK(a)' /\ Path(a)' = to /\ Known(a, tree[a])'
        <4>1. rows'[a].path = m /\ rows'[a].path = path /\ rows'[a].root = root
          BY <1>5, <1>10, <1>12, <1>b, <2>2, <2>5, <3>1, <3>2 DEF OwnedOK, RenameOK
        <4>2. Path(a)' = to
          BY <1>c, <4>1 DEF Path, Lost
        <4> QED
          BY <1>1, <2>2, <2>5, <3>1, <3>4, <4>1, <4>2 DEF RenameOK, Fits, OwnedOK, Accepted, owner, Vetted, Known
      <3>6. Fits(a, tree[a], q.was)
        BY <3>1 DEF RenameOK
      <3>7. CASE starts
        <4>1. worker'[a] = Launch(to, TRUE) /\ rows'[a].status = "starting"
          BY <1>10, <1>12, <1>13, <3>2, <3>7
        <4>2. tree'[a] = rows'[a].man
          BY <1>1, <1>7, <3>4, <3>6, <3>7 DEF Fits
        <4>3. worker'[a] # Idle /\ worker'[a].pc = "build" /\ worker'[a].path = to
          BY <1>d, <2>5, <4>1, LaunchIs
        <4>4. WorkerOK(a)'
          BY <3>4, <3>5, <4>1, <4>2, <4>3 DEF WorkerOK
        <4> QED
          BY <2>3, <3>5, <4>3, <4>4, WorkerSound
      <3>8. CASE ~starts
        <4>1. worker'[a] = Idle
          BY <1>13, <2>2, <3>8
        <4>2. rows'[a].status = rows[a].status /\ rows[a].status \in {"stopped", "error"}
          BY <1>10, <1>12, <3>1, <3>2, <3>8 DEF RenameOK
        <4>3. Fits(a, tree[a], rows[a].status)'
          BY <3>5, <4>2 DEF Fits
        <4>5. RestOK(a)'
          BY <3>4, <4>2, <4>3 DEF RestOK, Settled
        <4> QED
          BY <2>3, <3>5, <4>1, <4>5, RestSound
      <3> QED
        BY <3>7, <3>8
    <2> QED
      BY <2>4, <2>5
  <1> QED
    BY <1>12, <1>14, <1>16, <1>18, <1>19, StepByApp DEF Types

-----------------------------------------------------------------------------
(* Removing, and the crash of the router                                   *)

LEMMA RemoveStep == ASSUME IInv, Remove PROVE IInv'
  <1>1. PICK a \in Apps, keep \in BOOLEAN :
          /\ ops < MaxOps /\ ops' = ops + 1 /\ Exists(a)
          /\ rows' = [rows EXCEPT ![a] = None]
          /\ code' = [code EXCEPT ![a] = None]
          /\ dir' = Deprovisioned(rows[a].name, keep)
          /\ grants' = [grants EXCEPT ![a] = {}]
          /\ spoiled' = spoiled \cup Overlap(a)
          /\ UNCHANGED <<tree, up, accepted, resume, req, worker, faults>>
    BY DEF Remove, Ask, Spoil
  <1>2. PICK n \in Names : n = rows[a].name
    BY <1>1 DEF IInv, Types, RowsType, Exists, AppRow
  <1>3. a \in Claims(n)
    BY <1>1, <1>2, OwnNames DEF IInv, Types
  <1>4. /\ RowsType' /\ ~Exists(a)' /\ \A b \in Apps \ {a} : rows'[b] = rows[b]
    <2>1. /\ rows' \in [Apps -> AppRow \cup {None}] /\ rows'[a] = None
          /\ \A b \in Apps \ {a} : rows'[b] = rows[b]
      BY <1>1 DEF IInv, Types, RowsType
    <2>2. \A b \in Apps : Exists(b)' => Exists(b) /\ rows'[b].name = rows[b].name
      BY <2>1 DEF Exists
    <2> QED
      BY <2>1, <2>2, NamesUnique DEF IInv, Types, Exists
  <1>5. /\ DirType(dir')
        /\ \A t \in 1..Tiers, m \in Names : dir'[t][m] = dir[t][m] \/ (m = n /\ dir'[t][m] = None)
    BY <1>1, <1>2, DeprovisionedIs DEF IInv, Types, CodeType, DirType
  <1>6. /\ code' \in [Apps -> Commits \cup {None}] /\ code'[a] = None
        /\ \A b \in Apps \ {a} : code'[b] = code[b]
    BY <1>1 DEF IInv, Types, CodeType
  <1>7. grants' \in [Apps -> SUBSET Perms] /\ \A b \in Apps \ {a} : grants'[b] = grants[b]
    BY <1>1 DEF IInv, Types, OwnerType
  <1>8. CodeType' /\ OwnerType' /\ BoundsType'
    <2>1. CodeType'
      BY <1>1, <1>5, <1>6, OverlapIs DEF IInv, Types, CodeType, DirType
    <2>2. OwnerType' /\ BoundsType'
      BY <1>1, <1>7, AppSourceAssumption DEF IInv, Types, OwnerType, BoundsType
    <2> QED
      BY <2>1, <2>2
  <1>9. OwnRows(a)
    BY <1>1, <1>4, <1>6, <1>7 DEF OwnRows
  <1>10. OwnDirs(a)
    <2>1. None \notin Apps
      BY AppSourceAssumption
    <2> QED
      BY <1>1, <1>3, <1>5, <2>1 DEF OwnDirs
  <1>11. ActorsType' /\ ByApp(a) /\ \A p \in Reqs, b \in Apps : On(p, b)' <=> On(p, b)
    <2>1. req' = req /\ worker' \in [Apps -> Worker \cup {Idle}]
      BY <1>1 DEF IInv, Types, ActorsType
    <2>2. worker'[a] # Idle => worker'[a] = worker[a] \/ ClaimsPath(a, worker'[a])
      BY <1>1
    <2>3. Exists(a)' => ClaimsRow(a, rows'[a])
      BY <1>4
    <2>4. RowsType'
      BY <1>4
    <2> QED
      BY <1>9, <1>10, <2>1, <2>2, <2>3, <2>4, OwnStep, Zenon
  <1>12. FreshOK(a)'
    <2>1. tree[a] # None /\ \A p \in Reqs : On(p, a) => req[p].pc \notin Installing
      BY <1>1, WorkerNotFresh
    <2> QED
      BY <1>1, <1>6, <1>11, <2>1, StaysFresh
  <1>13. ASSUME a \notin spoiled' PROVE SoundOK(a)'
    <2>1. a \notin spoiled /\ ~Busy(a)
      BY <1>1, <1>13, OverlapIs
    <2>2. (\A p \in Reqs : ~On(p, a)) /\ worker[a] = Idle
      BY <1>1, <2>1, AtRest
    <2> QED
      BY <1>1, <1>4, <1>11, <2>2, RestSound
  <1> QED
    BY <1>4, <1>8, <1>11, <1>12, <1>13, StepByApp DEF Types

Launched == {"building", "starting"}

\* An app that is not spoiled and at which a crash finds nobody in the middle of
\* a step is as its row says.
LEMMA AsItsRowSays ==
    ASSUME IInv, NEW a \in Apps, a \notin spoiled, Exists(a), worker[a].pc \notin {"copy", "sync"},
           \A r \in Reqs : On(r, a) => req[r].pc \notin {"gate", "roll back", "claim", "move", "undo", "name"}
    PROVE  /\ Home(a) /\ OwnedOK(a)
           /\ rows[a].status \in Launched => tree[a] = rows[a].man /\ Known(a, tree[a])
           /\ rows[a].status \in Settled => Fits(a, tree[a], rows[a].status)
  <1>1. SoundOK(a) /\ FreshOK(a) /\ OwnedOK(a)
    BY DEF IInv, AppsOK, AppOK, SoundOK
  <1>2. CASE worker[a] # Idle
    <2>1. WorkerOK(a)
      BY <1>1, <1>2 DEF SoundOK
    <2>2. worker[a].pc \in {"build", "run"}
      BY <1>2, WorkerShape DEF IInv, Types, Worker
    <2> QED
      BY <1>1, <2>1, <2>2 DEF WorkerOK, Fits, Settled
  <1>3. ASSUME NEW r \in Reqs, On(r, a)
        PROVE  Home(a) /\ rows[a].status \in Settled /\ Fits(a, tree[a], rows[a].status)
    <2>1. req[r].pc \notin Installing
      BY <1>1, <1>3 DEF FreshOK
    <2>2. req[r].pc = "pull" /\ req[r].pc \in Updating
      <3>1. req[r].pc \in Installing \cup Updating \cup Renaming
        BY <1>3, ReqShape DEF IInv, Types, On
      <3>2. req[r].pc \notin {"gate", "roll back", "claim", "move", "undo", "name"}
        BY <1>3
      <3> QED
        BY <2>1, <3>1, <3>2 DEF Installing, Updating, Renaming
    <2>3. UpdateOK(a, req[r])
      BY <1>1, <1>3, <2>2 DEF SoundOK, ReqOK
    <2> QED
      BY <2>2, <2>3 DEF UpdateOK, Known, Lost
  <1>4. CASE ~Busy(a)
    <2>1. RestOK(a)
      BY <1>1, <1>4 DEF SoundOK
    <2> QED
      BY <1>1, <2>1 DEF RestOK, Settled, Launched
  <1> QED
    BY <1>1, <1>2, <1>3, <1>4, BusyIs DEF Settled, Launched

LEMMA CrashStep == ASSUME IInv, Crash PROVE IInv'
  <1>1. /\ faults < MaxFaults /\ faults' = faults + 1
        /\ req' = [r \in Reqs |-> Idle]
        /\ worker' = [a \in Apps |-> IF Status(a) \in {"building", "starting"}
                                     THEN Launch(Path(a), FALSE) ELSE Idle]
        /\ rows' = [a \in Apps |-> IF Status(a) = "building" THEN [rows[a] EXCEPT !.status = "starting"]
                                   ELSE rows[a]]
        /\ spoiled' = spoiled \cup
             ({req[r].app : r \in {q \in Reqs : req[q].pc \in
                                    {"gate", "roll back", "claim", "move", "undo", "name"}}}
              \cup {a \in Apps : worker[a].pc \in {"copy", "sync"}})
        /\ UNCHANGED <<dir, tree, up, code, owner, resume, ops>>
    BY DEF Crash, Fault, Spoil
  <1>2. ActorsType /\ RowsType
    BY DEF IInv, Types
  <1>3. \A a \in Apps : Exists(a) => /\ rows[a] \in AppRow /\ rows[a] # None /\ rows[a].name \in Names
                                    /\ rows[a].status \in Statuses /\ Status(a) = rows[a].status
    BY <1>2 DEF RowsType, Exists, AppRow, Status
  <1>4. \A a \in Apps : ~Exists(a) => Status(a) = "none" /\ rows[a] = None
    BY DEF Exists, Status
  <1>5. ASSUME NEW a \in Apps
        PROVE  /\ Exists(a)' <=> Exists(a)
               /\ Exists(a) => /\ rows'[a] \in AppRow /\ rows'[a].name = rows[a].name /\ rows'[a].man = rows[a].man
                               /\ rows'[a].status = IF rows[a].status = "building" THEN "starting" ELSE rows[a].status
               /\ ~Exists(a) => rows'[a] = None
               /\ worker'[a] = IF Exists(a) /\ rows[a].status \in Launched THEN Launch(Path(a), FALSE) ELSE Idle
               /\ Exists(a) => rows'[a].root = rows[a].root /\ rows'[a].path = rows[a].path
               /\ Exists(a) => Path(a) \in Names \cup {None} /\ Path(a) \in {rows[a].path, None}
    <2>1. CASE ~Exists(a)
      BY <1>1, <1>4, <2>1 DEF Exists
    <2>2. CASE Exists(a)
      <3>1. rows'[a] = IF rows[a].status = "building" THEN [rows[a] EXCEPT !.status = "starting"] ELSE rows[a]
        BY <1>1, <1>3, <2>2
      <3>2. /\ rows'[a] \in AppRow /\ rows'[a].name = rows[a].name /\ rows'[a].man = rows[a].man
            /\ rows'[a].root = rows[a].root /\ rows'[a].path = rows[a].path
            /\ rows'[a].status = IF rows[a].status = "building" THEN "starting" ELSE rows[a].status
        BY <1>3, <2>2, <3>1 DEF AppRow, Statuses
      <3>3. rows'[a] # None
        BY <3>2, NoneAssumption
      <3>4. worker'[a] = IF rows[a].status \in Launched THEN Launch(Path(a), FALSE) ELSE Idle
        BY <1>1, <1>3, <2>2 DEF Launched
      <3>5. Path(a) \in Names \cup {None} /\ Path(a) \in {rows[a].path, None}
        BY <2>2, AtIs DEF Path
      <3> QED
        BY <2>2, <3>2, <3>3, <3>4, <3>5 DEF Exists
    <2> QED
      BY <2>1, <2>2
  <1>6. RowsType'
    <2>1. rows' \in [Apps -> AppRow \cup {None}]
      <3>1. \A a \in Apps : rows'[a] \in AppRow \cup {None}
        BY <1>5
      <3>2. rows' = [a \in Apps |-> rows'[a]]
        BY <1>1
      <3> QED
        BY <3>1, <3>2
    <2>2. \A b \in Apps : Exists(b)' => Exists(b) /\ rows'[b].name = rows[b].name
      BY <1>5
    <2> QED
      BY <1>2, <2>1, <2>2, NamesUnique
  <1>7. ActorsType'
    <2>1. \A a \in Apps : worker'[a] \in Worker \cup {Idle}
      BY <1>3, <1>5, LaunchIs
    <2>2. worker' = [a \in Apps |-> worker'[a]]
      BY <1>1
    <2>3. Idle \in IdleReq
      BY DEF Idle, IdleReq
    <2> QED
      BY <1>1, <2>1, <2>2, <2>3 DEF ActorsType
  <1>8. spoiled \subseteq spoiled' /\ spoiled' \subseteq Apps
    <2>1. \A r \in Reqs : req[r].pc \in {"gate", "roll back", "claim", "move", "undo", "name"} => req[r].app \in Apps
      BY <1>2, ReqShape
    <2>2. spoiled \subseteq Apps
      BY DEF IInv, Types, CodeType
    <2> QED
      BY <1>1, <2>1, <2>2
  <1>9. Types'
    <2>1. CodeType'
      BY <1>1, <1>8 DEF IInv, Types, CodeType
    <2>2. OwnerType'
      BY <1>1 DEF IInv, Types, OwnerType, owner
    <2>3. BoundsType'
      <3>1. faults < MaxFaults /\ faults' = faults + 1 /\ ops' = ops
        BY <1>1
      <3> QED
        BY <3>1, AppSourceAssumption DEF IInv, Types, BoundsType
    <2> QED
      BY <1>6, <1>7, <2>1, <2>2, <2>3 DEF Types
  <1>10. \A r \in Reqs, a \in Apps : ~On(r, a)'
    BY <1>1 DEF On, Idle
  <1>11. ClaimsOK'
    <2>1. ASSUME NEW n \in Names, NEW a \in Claims(n)' PROVE a \in Claims(n)
      <3>1. Claimed' /\ ClaimsInApps'
        BY ClaimsAre, ClaimsAreApps, PTL
      <3>2. a \in Apps
        BY <1>7, <2>1, <3>1 DEF ClaimsInApps
      <3>3. ClaimedBy(a, n)'
        BY <1>7, <2>1, <3>1, <3>2 DEF Claimed
      <3>4. Exists(a) /\ n \in {rows[a].name, rows[a].path}
        <4>1. ~\E r \in Reqs : (On(r, a) /\ n \in NamesOf(req[r]))'
          BY <1>10, <3>2
        <4>2. (Exists(a) /\ n \in {rows[a].name, rows[a].path})' \/ (worker'[a] # Idle /\ worker'[a].path = n)
          BY <3>3, <4>1 DEF ClaimedBy
        <4>3. CASE (Exists(a) /\ n \in {rows[a].name, rows[a].path})'
          BY <1>5, <3>2, <4>3
        <4>4. CASE worker'[a] # Idle /\ worker'[a].path = n
          <5>1. /\ Exists(a) /\ worker'[a] = Launch(Path(a), FALSE)
                /\ Path(a) \in Names \cup {None} /\ Path(a) \in {rows[a].path, None}
            BY <1>5, <3>2, <4>4
          <5>2. n = Path(a)
            BY <4>4, <5>1, LaunchIs
          <5> QED
            BY <5>1, <5>2, AppSourceAssumption
        <4> QED
          BY <4>2, <4>3, <4>4
      <3> QED
        BY <1>2, <3>2, <3>4, ClaimsAre DEF Claimed, ClaimedBy
    <2> QED
      BY <1>8, <2>1 DEF IInv, ClaimsOK
  <1>12. ASSUME NEW a \in Apps PROVE FreshOK(a)'
    <2>1. FreshOK(a)
      BY DEF IInv, AppsOK, AppOK
    <2> QED
      BY <1>1, <1>5, <1>10, <2>1 DEF FreshOK
  <1>13. ASSUME NEW a \in Apps, a \notin spoiled' PROVE SoundOK(a)'
    <2>1. a \notin spoiled /\ worker[a].pc \notin {"copy", "sync"}
      BY <1>1, <1>13
    <2>2. \A r \in Reqs : On(r, a) => req[r].pc \notin {"gate", "roll back", "claim", "move", "undo", "name"}
      BY <1>1, <1>13 DEF On
    <2>3. CASE ~Exists(a)
      BY <1>5, <1>10, <2>3, RestSound
    <2>4. CASE Exists(a)
      <3>1. /\ Home(a) /\ OwnedOK(a)
            /\ rows[a].status \in Launched => tree[a] = rows[a].man /\ Known(a, tree[a])
            /\ rows[a].status \in Settled => Fits(a, tree[a], rows[a].status)
        BY <2>1, <2>2, <2>4, AsItsRowSays
      <3>2. OwnedOK(a)' /\ Home(a)' /\ rows'[a].man = rows[a].man /\ rows'[a].name = rows[a].name
        BY <1>1, <1>5, <2>4, <3>1 DEF OwnedOK, Accepted, owner, Home, Lives, Vetted, Known
      <3>3. CASE rows[a].status \in Launched
        <4>1. worker'[a] = Launch(Path(a), FALSE) /\ Path(a)' = Path(a)
          BY <1>5, <2>4, <3>3 DEF Path, Lost
        <4>2. worker'[a] # Idle /\ worker'[a].pc = "build" /\ worker'[a].path = Path(a)'
          BY <1>5, <2>4, <4>1, LaunchIs
        <4>3. Known(a, tree[a])' /\ tree'[a] = rows'[a].man /\ rows'[a].status # "running"
          <5>1. accepted' = accepted /\ tree' = tree
            BY <1>1 DEF owner
          <5>2. rows'[a].status = IF rows[a].status = "building" THEN "starting" ELSE rows[a].status
            BY <1>5, <2>4
          <5>3. rows'[a].status # "running"
            BY <3>3, <5>2 DEF Launched
          <5>4. Known(a, tree[a])'
            BY <3>1, <3>3, <5>1 DEF Known, Vetted, Accepted
          <5> QED
            BY <3>1, <3>2, <3>3, <5>1, <5>3, <5>4
        <4>4. WorkerOK(a)'
          BY <3>2, <4>2, <4>3 DEF WorkerOK
        <4> QED
          BY <1>10, <3>2, <4>2, <4>4, WorkerSound
      <3>4. CASE rows[a].status \notin Launched
        <4>1. worker'[a] = Idle /\ rows'[a].status = rows[a].status
          BY <1>5, <2>4, <3>4 DEF Launched
        <4>2. rows[a].status \in Settled
          BY <1>3, <2>4, <3>4 DEF Launched, Settled, Statuses
        <4>3. Fits(a, tree[a], rows[a].status)'
          BY <1>1, <1>5, <2>4, <3>1, <3>2, <4>1, <4>2 DEF Fits, Accepted, owner, Vetted, Known, Lost
        <4>4. RestOK(a)'
          BY <3>2, <4>1, <4>2, <4>3 DEF RestOK
        <4> QED
          BY <1>10, <3>2, <4>1, <4>4, RestSound
      <3> QED
        BY <3>3, <3>4
    <2> QED
      BY <2>3, <2>4
  <1>14. AppsOK'
    BY <1>12, <1>13 DEF AppsOK, AppOK
  <1> QED
    BY <1>9, <1>11, <1>14 DEF IInv

-----------------------------------------------------------------------------
(* The start, and the theorems                                             *)

LEMMA InitOK == ASSUME Init PROVE IInv
  <1>1. PICK a \in Apps, n \in Names, c \in Commits :
          /\ rows = [b \in Apps |-> IF b # a THEN None
                                    ELSE [name |-> n, status |-> "running", man |-> Base,
                                          local |-> Min(Ports), host |-> 0, root |-> Root, path |-> n]]
          /\ dir = [t \in 1..Tiers |-> [m \in Names |-> IF m = n THEN a ELSE None]]
          /\ tree = [b \in Apps |-> IF b = a THEN Base ELSE None]
          /\ code = tree
          /\ up = [b \in Apps |-> c]
          /\ grants = [b \in Apps |-> {}]
          /\ accepted = [b \in Apps |-> IF b = a THEN [perms |-> Declares[Base], maps |-> {FALSE}]
                                         ELSE [perms |-> {}, maps |-> {}]]
          /\ resume = {}
          /\ req = [r \in Reqs |-> Idle] /\ worker = [b \in Apps |-> Idle]
          /\ spoiled = {}
          /\ ops = 0 /\ faults = 0
    BY DEF Init
  <1>2. Base \in Commits /\ Declares[Base] \in SUBSET Perms /\ Maps[Base] = FALSE
    BY AppSourceAssumption
  <1>3. PICK row \in AppRow : /\ row # None /\ row.name = n /\ row.status = "running" /\ row.man = Base
                              /\ row.root = Root /\ row.path = n
                              /\ row = [name |-> n, status |-> "running", man |-> Base,
                                        local |-> Min(Ports), host |-> 0, root |-> Root, path |-> n]
    <2>1. Min(Ports) \in Ports
      <3>1. Ports \in SUBSET Nat /\ Ports # {}
        BY AppSourceAssumption
      <3> QED
        BY <3>1, MinIsThere
    <2>2. [name |-> n, status |-> "running", man |-> Base, local |-> Min(Ports), host |-> 0, root |-> Root, path |-> n] \in AppRow
      BY <1>2, <2>1, AppSourceAssumption DEF AppRow, Statuses
    <2> QED
      BY <2>2, NoneAssumption
  <1>4. rows[a] = row /\ \A b \in Apps \ {a} : rows[b] = None
    BY <1>1, <1>3
  <1>5. \A b \in Apps : Exists(b) <=> b = a
    BY <1>3, <1>4 DEF Exists
  <1>6. \A r \in Reqs, b \in Apps : ~On(r, b)
    BY <1>1 DEF On, Idle
  <1>7. Types
    <2>1. RowsType
      <3>1. rows \in [Apps -> AppRow \cup {None}]
        BY <1>1, <1>3
      <3> QED
        BY <1>5, <3>1 DEF RowsType
    <2>2. CodeType
      BY <1>1, <1>2 DEF CodeType
    <2>3. OwnerType
      <3>1. [perms |-> Declares[Base], maps |-> {FALSE}] \in [perms : SUBSET Perms, maps : SUBSET BOOLEAN]
        BY <1>2
      <3>2. [perms |-> {}, maps |-> {}] \in [perms : SUBSET Perms, maps : SUBSET BOOLEAN]
        OBVIOUS
      <3>3. grants \in [Apps -> SUBSET Perms]
        BY <1>1
      <3>4. accepted \in [Apps -> [perms : SUBSET Perms, maps : SUBSET BOOLEAN]]
        <4>1. PICK k1 \in [perms : SUBSET Perms, maps : SUBSET BOOLEAN] : k1 = [perms |-> Declares[Base], maps |-> {FALSE}]
          BY <3>1
        <4>2. PICK k2 \in [perms : SUBSET Perms, maps : SUBSET BOOLEAN] : k2 = [perms |-> {}, maps |-> {}]
          BY <3>2
        <4>3. accepted = [b \in Apps |-> IF b = a THEN k1 ELSE k2]
          BY <1>1, <4>1, <4>2
        <4> QED
          BY <4>3
      <3> QED
        BY <3>3, <3>4 DEF OwnerType
    <2>4. ActorsType
      BY <1>1 DEF ActorsType, Idle, IdleReq
    <2>5. BoundsType
      BY <1>1, AppSourceAssumption DEF BoundsType
    <2> QED
      BY <2>1, <2>2, <2>3, <2>4, <2>5 DEF Types
  <1>8. ClaimsOK
    <2>1. ASSUME NEW m \in Names, NEW b \in Claims(m) PROVE b = a
      <3>1. b \in Apps
        BY <1>7, <2>1, ClaimsAreApps DEF ClaimsInApps, Types
      <3>2. ClaimedBy(b, m)
        BY <1>7, <2>1, <3>1, ClaimsAre DEF Claimed, Types
      <3> QED
        BY <1>1, <1>5, <1>6, <3>1, <3>2 DEF ClaimedBy, Idle
    <2> QED
      BY <2>1 DEF ClaimsOK
  <1>9. ASSUME NEW b \in Apps PROVE AppOK(b)
    <2>1. ~Busy(b)
      BY <1>1, <1>6, BusyIs
    <2>2. FreshOK(b)
      <3>1. b = a => tree[b] # None
        BY <1>1, <1>2, AppSourceAssumption
      <3>2. b # a => code[b] = None /\ \A t \in 1..Tiers, m \in Names : dir[t][m] # b
        BY <1>1, AppSourceAssumption
      <3> QED
        BY <1>1, <1>5, <1>6, <3>1, <3>2 DEF FreshOK
    <2>3. AloneOK(b)
      BY <1>6 DEF AloneOK
    <2>4. ASSUME Exists(b) PROVE OwnedOK(b) /\ RestOK(b)
      <3>1. b = a
        BY <1>5, <2>4
      <3>2. accepted[a] = [perms |-> Declares[Base], maps |-> {FALSE}] /\ grants[a] = {}
            /\ tree[a] = Base /\ code[a] = Base
        BY <1>1
      <3>3. Accepted(a, Base)
        <4>1. accepted[a].perms = Declares[Base] /\ accepted[a].maps = {FALSE}
          BY <3>2
        <4> QED
          BY <1>2, <4>1 DEF Accepted, Manifest, Vetted, Known
      <3>4. OwnedOK(a)
        BY <1>3, <1>4, <3>2, <3>3 DEF OwnedOK, Vetted
      <3>5. Home(a)
        BY <1>1, <1>3, <1>4, AppSourceAssumption DEF Home, Lives
      <3> QED
        BY <1>3, <1>4, <3>1, <3>2, <3>3, <3>5, <3>4 DEF RestOK, Settled, Fits, Known, Vetted, Lost
    <2> QED
      BY <1>1, <1>6, <2>2, <2>3, <2>4 DEF AppOK, SoundOK
  <1> QED
    BY <1>7, <1>8, <1>9 DEF IInv, AppsOK

LEMMA Stutters == ASSUME IInv, UNCHANGED vars PROVE IInv'
  <1>1. UNCHANGED <<rows, dir, tree, up, code, grants, accepted, resume, req, worker, spoiled, ops, faults>>
    BY DEF vars, store, owner, bounds
  <1>2. Types'
    BY <1>1 DEF IInv, Types, RowsType, CodeType, OwnerType, ActorsType, BoundsType, Exists
  <1>3. ClaimsOK'
    BY <1>1 DEF IInv, ClaimsOK, Claims, Wanted, NamesOf, Exists
  <1>4. AppsOK'
    <2> SUFFICES ASSUME NEW a \in Apps PROVE AppOK(a)'
      BY DEF AppsOK
    <2>1. AppOK(a)
      BY DEF IInv, AppsOK
    <2>2. FreshOK(a)' <=> FreshOK(a)
      BY <1>1 DEF FreshOK, Exists, On
    <2>3. (Home(a)' <=> Home(a)) /\ (Busy(a)' <=> Busy(a)) /\ (Exists(a)' <=> Exists(a))
      BY <1>1 DEF Home, Lives, Busy, Exists
    <2>4. SoundOK(a) => SoundOK(a)'
      <3> SUFFICES ASSUME SoundOK(a) PROVE SoundOK(a)'
        OBVIOUS
      <3>1. AloneOK(a)' /\ (Exists(a)' => OwnedOK(a)')
        BY <1>1, <2>3 DEF SoundOK, AloneOK, OwnedOK, Accepted, On, Vetted, Known
      <3>2. ASSUME NEW r \in Reqs, On(r, a)' PROVE ReqOK(a, req[r])'
        BY <1>1, <2>3, <3>2
           DEF SoundOK, ReqOK, UpdateOK, RenameOK, Lives, Fits, Accepted, On, Vetted, Known, Lost
      <3>3. (Exists(a) /\ worker[a] # Idle)' => WorkerOK(a)'
        BY <1>1, <2>3 DEF SoundOK, WorkerOK, Accepted, Vetted, Known, Lost, Path
      <3>4. (Exists(a) /\ ~Busy(a))' => RestOK(a)'
        BY <1>1, <2>3 DEF SoundOK, RestOK, Fits, Accepted, Vetted, Known, Lost
      <3> QED
        BY <3>1, <3>2, <3>3, <3>4 DEF SoundOK
    <2> QED
      BY <1>1, <2>1, <2>2, <2>4 DEF AppOK
  <1> QED
    BY <1>2, <1>3, <1>4 DEF IInv

\* The invariant holds in every state: one lemma for each operation.
THEOREM Inductive == Spec => []IInv
  <1>1. Init => IInv
    BY InitOK
  <1>2. IInv /\ [Next]_vars => IInv'
    <2> SUFFICES ASSUME IInv, [Next]_vars PROVE IInv'
      OBVIOUS
    <2>1. CASE Clone \/ AddApp \/ PickPorts \/ Insert
      BY <2>1, CloneStep, AddAppStep, PickPortsStep, InsertStep
    <2>2. CASE UpstreamMoves \/ NoRepository \/ BeginUpdate \/ Pull \/ Gate \/ RollBack \/ Claim
      BY <2>2, UpstreamStep, NoRepositoryStep, BeginUpdateStep, PullStep, GateStep, RollBackStep, ClaimStep
    <2>3. CASE PlainReload \/ Recopy \/ Sync \/ Build \/ Run
      BY <2>3, PlainReloadStep, RecopyStep, SyncStep, BuildStep, RunStep
    <2>4. CASE BeginRename \/ MoveTier \/ Undo \/ GiveName
      BY <2>4, BeginRenameStep, MoveTierStep, UndoStep, GiveNameStep
    <2>5. CASE Remove \/ Crash
      BY <2>5, RemoveStep, CrashStep
    <2>6. CASE UNCHANGED vars
      BY <2>6, Stutters
    <2> QED
      BY <2>1, <2>2, <2>3, <2>4, <2>5, <2>6 DEF Next
  <1> QED
    BY <1>1, <1>2, PTL DEF Spec

\* The types of the variables, and the unique names of the table of apps.
THEOREM SourceTypeCorrect == Spec => []TypeOK
  <1>1. IInv => TypeOK
    <2> SUFFICES ASSUME IInv PROVE TypeOK
      OBVIOUS
    <2>1. /\ \A a \in Apps : Exists(a) => rows[a] \in AppRow
          /\ \A a, b \in Apps : Exists(a) /\ Exists(b) /\ a # b => rows[a].name # rows[b].name
      BY DEF IInv, Types, RowsType, Exists
    <2>2. \A r \in Reqs : req[r].pc \in {"idle", "cloned", "pick", "insert", "pull", "gate", "roll back",
                                         "claim", "move", "undo", "name"}
      BY ReqShape DEF IInv, Types, Installing, Updating, Renaming
    <2>3. \A a \in Apps : worker[a].pc \in {"idle", "copy", "sync", "build", "run"}
      BY WorkerShape DEF IInv, Types, Worker, Idle
    <2> QED
      BY <2>1, <2>2, <2>3 DEF IInv, Types, CodeType, OwnerType, BoundsType, TypeOK
  <1> QED
    BY <1>1, Inductive, PTL

\* What an invariant of an app at rest says of all of them.
LEMMA RestIs ==
    ASSUME IInv, NEW a \in Apps, Exists(a), ~Busy(a), a \notin spoiled
    PROVE  /\ Home(a) /\ Fits(a, tree[a], rows[a].status) /\ Status(a) = rows[a].status
           /\ Lost(a) \/ (At(a) = tree[a] /\ tree[a] # None)
  <1>1. RestOK(a) /\ OwnedOK(a)
    BY AtRest
  <1>2. tree[a] # None
    BY AtIs, AppSourceAssumption
  <1> QED
    BY <1>1, <1>2, AtIs DEF RestOK, OwnedOK, Status

\* _reload_app_impl: the checkout of an app nobody is at work on is the commit
\* whose manifest its row holds; or the last attempt ended in an error, and the app
\* was copied or its path is lost, or the commit does not parse or was accepted.
THEOREM TreeAlwaysInSync == Spec => []TreeInSync
  <1>1. IInv => TreeInSync
    <2> SUFFICES ASSUME IInv, NEW a \in Apps, Exists(a), ~Busy(a), a \notin spoiled
                 PROVE  \/ At(a) = rows[a].man
                        \/ /\ Status(a) \in {"error", "stopped"}
                           /\ \/ Lost(a) \/ a \in Builtin
                              \/ At(a) # None /\ (At(a) \in Broken \/ Accepted(a, At(a)))
      BY DEF TreeInSync
    <2>1. /\ Fits(a, tree[a], rows[a].status) /\ Status(a) = rows[a].status
          /\ Lost(a) \/ (At(a) = tree[a] /\ tree[a] # None)
      BY RestIs
    <2> QED
      BY <2>1 DEF Fits, Known, Vetted
  <1> QED
    BY <1>1, Inductive, PTL

\* _gate_update_review: the container of an app that is no copy of a built-in one
\* runs only what the owner accepted.
THEOREM OnlyReviewedRuns == Spec => []ReviewedOnly
  <1>1. IInv => ReviewedOnly
    BY DEF IInv, AppsOK, AppOK, SoundOK, OwnedOK, Vetted, ReviewedOnly
  <1> QED
    BY <1>1, Inductive, PTL

\* rename_app: the directories of an app nobody is at work on carry its name in
\* every tier, also after a move that failed half-way.
THEOREM DataAlwaysFollows == Spec => []DataFollows
  <1>1. IInv => DataFollows
    BY RestIs DEF DataFollows, Home, Lives
  <1> QED
    BY <1>1, Inductive, PTL
=============================================================================
