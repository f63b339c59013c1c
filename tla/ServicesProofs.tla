--------------------------- MODULE ServicesProofs ---------------------------
(***************************************************************************)
(* What holds of Services for every set of apps, sessions, services and    *)
(* calls, and every bound: who holds which token, what the provider table  *)
(* says of the containers that run, where calls go, how long sessions      *)
(* last, and when a default moves.                                         *)
(***************************************************************************)
EXTENDS Services, FiniteSetTheorems, WellFoundedInduction, TLAPS

USE DEF Versions

-----------------------------------------------------------------------------
(* The inductive invariant                                                 *)

\* The types of TypeOK, part by part.
BoundsType == clock \in 0..MaxClock /\ ops \in 0..MaxOps /\ crashes \in 0..MaxCrash
OwnerType ==
    /\ sessions \subseteq Sessions /\ loggedOut \subseteq Sessions
    /\ expires \in [Sessions -> Nat \cup {None}]
    /\ key \in Nat \cup {None, Never}
Workers == {"none", "first build", "sync", "synced", "build", "run", "ready"}
AppsType ==
    /\ apps \in [AppIds -> Row \cup {None}] /\ box \in [AppIds -> Container \cup {None}]
    /\ used \subseteq AppIds /\ worker \in [AppIds -> Workers]
    /\ minted \in [AppIds -> Generations] /\ token \in [AppIds -> Generations]
    /\ port \in [AppIds -> {0} \cup Ports]
Entries == ServiceUrls \X AppIds \X (Versions \ {0})
TableType ==
    /\ prov \subseteq Entries
    /\ pick \in [ServiceUrls -> AppIds \cup {None}]
    /\ perms \subseteq Grant
    /\ \A g \in perms : Exists(g.con)
    /\ \A e \in prov : Exists(e[2])
    /\ \A s \in ServiceUrls : pick[s] # None => Exists(pick[s])
Call == [st : {"body", "sent"}, con : AppIds, svc : ServiceUrls,
         to : AppIds \cup {Router}, grants : SUBSET Grant, got : AppIds \cup {Router, None}]
CallsType == calls \in [Calls -> Call \cup {Idle}]

\* Ids are never reused: before an app has its id nothing has.
IdsOK == \A a \in AppIds \ used : apps[a] = None /\ worker[a] = "none" /\ box[a] = None

\* A session ends by its owner, or has expired when it is swept.
SessionsOK ==
    /\ sessions \cap loggedOut = {}
    /\ \A s \in sessions \cup loggedOut : expires[s] # None
    /\ \A s \in Sessions \ (sessions \cup loggedOut) : expires[s] # None => expires[s] < clock

\* What the provider table says of an app, and what its manifest says.
Listed(p, a) == {<<e[1], e[3]>> : e \in {f \in p : f[2] = a}}
Provided(man) == {<<s, man.provides[s]>> : s \in {t \in ServiceUrls : man.provides[t] > 0}}

\* What a container holds fits what the tables say of its app from the moment it
\* runs to the next claim of its row; while it is started, the tables already fit
\* the row it is started from.  A row that is being built knows no container, and
\* its thread starts none.
Fits(a) == box[a] # None => /\ box[a].token = token[a]
                            /\ Listed(prov, a) = Provided(box[a].man)
Deployed(a) ==
    Exists(a) =>
      /\ apps[a].status = "running" => worker[a] = "none" /\ Fits(a)
      /\ apps[a].status = "building" => ~apps[a].cid /\ worker[a] \notin {"run", "ready"}
      /\ worker[a] = "run" => token[a] = minted[a] /\ Listed(prov, a) = Provided(apps[a].man)
      /\ worker[a] = "ready" => Fits(a)
DeployOK == \A a \in AppIds : Deployed(a)

\* Every token made after the first was paid for by an operation or a crash.
Pending(w) == IF w \in {"sync", "synced", "build"} THEN 1 ELSE 0
MintedOK == \A a \in AppIds : minted[a] + Pending(worker[a]) <= ops + crashes

PortsOK == \A a, b \in AppIds : Exists(a) /\ Exists(b) /\ a # b => port[a] # port[b]

\* A call carries grants for nobody but its target; if it went anywhere else,
\* the target or whom it went to has been removed.
CallOK(q) ==
    /\ q.to \in used \cup {Router}
    /\ \A g \in q.grants : g.scope = "app" => g.to = q.to
    /\ q.st = "sent" => /\ q.got \in used \cup {Router}
                        /\ ~Gone(q.to) /\ ~Gone(q.got) => q.got = q.to
CallsOK == \A c \in Calls : calls[c] = Idle \/ CallOK(calls[c])

\* An app is dated when it is installed, and listed once for a service.
MadeOK == \A a \in AppIds : Exists(a) => apps[a].made <= clock \div 2
Once(p) == \A e, f \in p : e[1] = f[1] /\ e[2] = f[2] => e = f

IInv == /\ BoundsType /\ OwnerType /\ AppsType /\ TableType /\ CallsType
        /\ IdsOK /\ SessionsOK /\ DeployOK /\ MintedOK /\ PortsOK /\ CallsOK
        /\ MadeOK /\ Once(prov)

-----------------------------------------------------------------------------
(* Lemmas about the operators                                              *)

LEMMA Sizes ==
  /\ Cardinality(AppIds) \in Nat /\ Ports \subseteq Nat
  /\ Generations \subseteq Nat
  /\ \A m \in Manifests : \A s \in ServiceUrls : m.provides[s] \in Versions /\ m.needs[s] \in Versions
  <1>1. Cardinality(AppIds) \in Nat
    BY FS_CardinalityType, ServicesAssumption
  <1>2. Ports \subseteq Nat
    BY <1>1 DEF Ports
  <1>3. Generations \subseteq Nat
    BY ServicesAssumption DEF Generations
  <1>4. \A m \in Manifests : \A s \in ServiceUrls : m.provides[s] \in Versions /\ m.needs[s] \in Versions
    BY ServicesAssumption
  <1> QED
    BY <1>1, <1>2, <1>3, <1>4

\* A non-empty set of naturals has a least element, and Min is it.
LEMMA MinIsThere ==
    ASSUME NEW S \in SUBSET Nat, S # {}
    PROVE  Min(S) \in S /\ \A y \in S : Min(S) <= y
  <1> DEFINE R == OpToRel(<, Nat)
  <1>1. \A m, n \in Nat : m < n => <<m, n>> \in R
    BY DEF OpToRel
  <1>2. IsWellFoundedOn(R, Nat)
    BY NatLessThanWellFounded
  <1> HIDE DEF R
  <1>3. \E n \in S : \A m \in S : <<m, n>> \notin R
    BY <1>2, WFMin
  <1>4. PICK n \in S : \A m \in S : <<m, n>> \notin R
    BY <1>3
  <1>5. \A y \in S : n <= y
    <2> SUFFICES ASSUME NEW y \in S PROVE n <= y
      OBVIOUS
    <2>1. ~(y < n)
      BY <1>1, <1>4
    <2> QED
      BY <2>1
  <1> QED
    BY <1>5 DEF Min

\* The manifest of an app replaces what the table says of it, and nothing else.
LEMMA RegisteredAll ==
    ASSUME NEW p \in SUBSET Entries, NEW a \in AppIds, NEW m \in Manifests
    PROVE  /\ Registered(p, a, m) \in SUBSET Entries
           /\ Listed(Registered(p, a, m), a) = Provided(m)
           /\ \A b \in AppIds \ {a} : Listed(Registered(p, a, m), b) = Listed(p, b)
           /\ Once(p) => Once(Registered(p, a, m))
           /\ \A e \in Registered(p, a, m) : e[2] = a \/ e \in p
  <1> DEFINE T == {t \in ServiceUrls : m.provides[t] > 0}
  <1> DEFINE new == {<<s, a, m.provides[s]>> : s \in T}
  <1> DEFINE old == {e \in p : e[2] # a}
  <1>1. \A s \in T : s \in ServiceUrls /\ m.provides[s] \in Versions \ {0}
    BY Sizes
  <1>2. Registered(p, a, m) = old \cup new
    BY DEF Registered
  <1>3. \A e \in new : e \in Entries /\ e[2] = a
    <2> SUFFICES ASSUME NEW s \in T PROVE <<s, a, m.provides[s]>> \in Entries
      OBVIOUS
    <2> QED
      BY <1>1 DEF Entries
  <1>4. \A e \in old : e \in Entries /\ e[2] # a /\ e \in p
    OBVIOUS
  <1>5. Listed(old \cup new, a) = Provided(m)
    <2>1. {f \in old \cup new : f[2] = a} = new
      BY <1>3, <1>4
    <2>2. {<<e[1], e[3]>> : e \in new} = {<<s, m.provides[s]>> : s \in T}
      <3> DEFINE L == {<<e[1], e[3]>> : e \in new}
      <3> DEFINE G == {<<s, m.provides[s]>> : s \in T}
      <3>1. ASSUME NEW s \in T PROVE <<s, m.provides[s]>> \in L
        <4>1. <<s, a, m.provides[s]>> \in new
          OBVIOUS
        <4> HIDE DEF new
        <4> QED
          BY <4>1
      <3>2. ASSUME NEW e \in new PROVE <<e[1], e[3]>> \in G
        OBVIOUS
      <3> HIDE DEF new, T
      <3>3. G \subseteq L
        BY <3>1
      <3>4. L \subseteq G
        BY <3>2
      <3> HIDE DEF L, G
      <3> QED
        BY <3>3, <3>4 DEF L, G
    <2> QED
      BY <2>1, <2>2 DEF Listed, Provided
  <1>6. \A b \in AppIds \ {a} : Listed(old \cup new, b) = Listed(p, b)
    <2> SUFFICES ASSUME NEW b \in AppIds \ {a} PROVE {f \in old \cup new : f[2] = b} = {f \in p : f[2] = b}
      BY DEF Listed
    <2> QED
      BY <1>3, <1>4
  <1>7. Once(p) => Once(old \cup new)
    <2>1. \A e, f \in new : e[1] = f[1] => e = f
      OBVIOUS
    <2> HIDE DEF old, new
    <2> QED
      BY <1>3, <1>4, <2>1 DEF Once
  <1> HIDE DEF old, new
  <1> QED
    BY <1>2, <1>3, <1>4, <1>5, <1>6, <1>7

\* What is left of the table when an app goes.
LEMMA UnlistedAll ==
    ASSUME NEW p \in SUBSET Entries, NEW a
    PROVE  /\ {e \in p : e[2] # a} \in SUBSET Entries
           /\ \A b \in AppIds \ {a} : Listed({e \in p : e[2] # a}, b) = Listed(p, b)
           /\ Once(p) => Once({e \in p : e[2] # a})
  <1>1. \A b \in AppIds \ {a} : {f \in {e \in p : e[2] # a} : f[2] = b} = {f \in p : f[2] = b}
    OBVIOUS
  <1> QED
    BY <1>1 DEF Listed, Once

LEMMA SetRowIs ==
    ASSUME AppsType, NEW a \in AppIds, NEW st \in Statuses, NEW cid \in BOOLEAN
    PROVE  /\ SetRow(a, st, cid) \in [AppIds -> Row \cup {None}]
           /\ \A b \in AppIds \ {a} : SetRow(a, st, cid)[b] = apps[b]
           /\ ~Exists(a) => SetRow(a, st, cid) = apps
           /\ Exists(a) => LET r == SetRow(a, st, cid)[a]
                           IN /\ r # None /\ r \in Row /\ r.status = st /\ r.cid = cid
                              /\ r.man = apps[a].man /\ r.made = apps[a].made
  <1>1. CASE ~Exists(a)
    BY <1>1 DEF SetRow, AppsType, Exists
  <1>2. CASE Exists(a)
    <2>1. apps[a] \in Row /\ apps \in [AppIds -> Row \cup {None}]
      BY <1>2 DEF AppsType, Exists
    <2> DEFINE r == [apps[a] EXCEPT !.status = st, !.cid = cid]
    <2>2. r \in Row /\ r.status = st /\ r.cid = cid /\ r.man = apps[a].man /\ r.made = apps[a].made
      BY <2>1 DEF Row
    <2>3. SetRow(a, st, cid) = [apps EXCEPT ![a] = r]
      BY <1>2, <2>1 DEF SetRow
    <2>4. r # None
      BY <2>2, NoneAssumption
    <2> HIDE DEF r
    <2> QED
      BY <1>2, <2>1, <2>2, <2>3, <2>4
  <1> QED
    BY <1>1, <1>2

LEMMA SetStatusIs ==
    ASSUME AppsType, NEW a \in AppIds, NEW st \in Statuses
    PROVE  /\ SetStatus(a, st) \in [AppIds -> Row \cup {None}]
           /\ \A b \in AppIds \ {a} : SetStatus(a, st)[b] = apps[b]
           /\ ~Exists(a) => SetStatus(a, st) = apps
           /\ Exists(a) => LET r == SetStatus(a, st)[a]
                           IN /\ r # None /\ r \in Row /\ r.status = st /\ r.cid = apps[a].cid
                              /\ r.man = apps[a].man /\ r.made = apps[a].made
  <1> DEFINE cid == Exists(a) /\ apps[a].cid
  <1>1. Exists(a) => apps[a] \in Row /\ apps[a].cid \in BOOLEAN
    BY DEF AppsType, Exists, Row
  <1>2. cid \in BOOLEAN /\ (Exists(a) => cid = apps[a].cid)
    BY <1>1
  <1>3. SetStatus(a, st) = SetRow(a, st, cid)
    BY DEF SetStatus
  <1> HIDE DEF cid
  <1> QED
    BY <1>2, <1>3, SetRowIs

-----------------------------------------------------------------------------
(* The initial states                                                      *)

LEMMA InitOK == Init => IInv
  <1> SUFFICES ASSUME Init PROVE IInv
    OBVIOUS
  <1>1. BoundsType /\ OwnerType
    BY ServicesAssumption DEF Init, BoundsType, OwnerType
  <1>2. AppsType
    BY ServicesAssumption DEF Init, AppsType, Workers, Generations
  <1>3. TableType /\ CallsType /\ CallsOK
    BY DEF Init, TableType, CallsType, CallsOK
  <1>4. IdsOK /\ PortsOK /\ MadeOK /\ Once(prov)
    BY DEF Init, IdsOK, PortsOK, MadeOK, Once, Exists
  <1>7. SessionsOK
    <2>1. TTL # None
      BY ServicesAssumption
    <2> QED
      BY <2>1 DEF Init, SessionsOK
  <1>5. DeployOK
    BY DEF Init, DeployOK, Deployed, Exists
  <1>6. MintedOK
    BY ServicesAssumption DEF Init, MintedOK, Pending
  <1> QED
    BY <1>1, <1>2, <1>3, <1>4, <1>5, <1>6, <1>7 DEF IInv

-----------------------------------------------------------------------------
(* What a step leaves alone                                                *)

\* Time and the counters only grow.
Later == clock <= clock' /\ ops + crashes <= ops' + crashes' /\ BoundsType'

\* An app that is gone does not come back.
Lasts == used \subseteq used' /\ \A a \in used : ~Exists(a) => ~Exists(a)'

LEMMA CallsLast ==
    ASSUME CallsOK, Lasts, AppsType, UNCHANGED calls
    PROVE  CallsOK'
  <1> SUFFICES ASSUME NEW c \in Calls, calls[c] # Idle PROVE CallOK(calls[c])'
    BY DEF CallsOK
  <1>1. CallOK(calls[c])
    BY DEF CallsOK
  <1>2. \A x \in used \cup {Router} : Gone(x) => Gone(x)'
    <2> SUFFICES ASSUME NEW x \in used \cup {Router}, Gone(x) PROVE Gone(x)'
      OBVIOUS
    <2>1. x \in AppIds /\ ~Exists(x)
      BY DEF Gone
    <2>2. x \in used
      BY <2>1, ServicesAssumption
    <2> QED
      BY <2>1, <2>2 DEF Lasts, Gone
  <1>3. used \subseteq used'
    BY DEF Lasts
  <1>4. \A q : CallOK(q) => CallOK(q)'
    BY <1>2, <1>3 DEF CallOK
  <1> QED
    BY <1>1, <1>4

LEMMA PendingIs == \A w : Pending(w) \in {0, 1}
  BY DEF Pending

LEMMA MintedLasts ==
    ASSUME MintedOK, AppsType, BoundsType, Later, UNCHANGED <<minted, worker>>
    PROVE  MintedOK'
  <1> SUFFICES ASSUME NEW a \in AppIds
               PROVE  minted[a] + Pending(worker[a]) <= ops' + crashes'
    BY DEF MintedOK
  <1>1. minted[a] + Pending(worker[a]) <= ops + crashes
    BY DEF MintedOK
  <1>2. minted[a] \in Nat
    BY Sizes DEF AppsType
  <1>3. Pending(worker[a]) \in Nat
    BY PendingIs
  <1>4. ops \in Nat /\ crashes \in Nat
    BY DEF BoundsType
  <1>5. ops' \in Nat /\ crashes' \in Nat
    BY DEF BoundsType, Later
  <1>6. ops + crashes <= ops' + crashes'
    BY DEF Later
  <1>7. \A m, p, o, c, o1, c1 \in Nat : m + p <= o + c /\ o + c <= o1 + c1 => m + p <= o1 + c1
    OBVIOUS
  <1> QED
    BY <1>1, <1>2, <1>3, <1>4, <1>5, <1>6, <1>7, Zenon

\* Steps of the owner's sessions and of time.
LEMMA OwnerStep ==
    ASSUME IInv, UNCHANGED <<rows, worker, box, table, calls>>, Later, OwnerType', SessionsOK'
    PROVE  IInv'
  <1>1. AppsType' /\ TableType' /\ CallsType' /\ IdsOK' /\ PortsOK' /\ Once(prov)'
    BY DEF IInv, AppsType, TableType, CallsType, IdsOK, PortsOK, Once, rows, table, Exists
  <1>2. DeployOK' /\ Lasts
    BY DEF IInv, DeployOK, Deployed, Fits, rows, table, Exists, Lasts
  <1>3. CallsOK'
    BY <1>2, CallsLast DEF IInv
  <1>4. MintedOK'
    BY MintedLasts DEF IInv, rows
  <1>5. MadeOK'
    <2> SUFFICES ASSUME NEW a \in AppIds, Exists(a) PROVE apps[a].made <= clock' \div 2
      BY DEF MadeOK, rows, Exists
    <2>1. apps[a].made \in Nat /\ apps[a].made <= clock \div 2
      BY DEF IInv, MadeOK, AppsType, Exists, Row
    <2> QED
      BY <2>1 DEF IInv, BoundsType, Later
  <1> QED
    BY <1>1, <1>2, <1>3, <1>4, <1>5 DEF IInv, Later

\* Steps of the owner's choices and grants.
LEMMA TableStep ==
    ASSUME IInv, UNCHANGED <<clock, owner, rows, worker, box, prov, calls>>, Later, TableType'
    PROVE  IInv'
  <1>1. AppsType' /\ CallsType' /\ IdsOK' /\ PortsOK' /\ Once(prov)' /\ OwnerType' /\ SessionsOK' /\ MadeOK'
    BY DEF IInv, AppsType, CallsType, IdsOK, PortsOK, Once, rows, owner, Exists, OwnerType,
           SessionsOK, MadeOK
  <1>2. DeployOK' /\ Lasts
    BY DEF IInv, DeployOK, Deployed, Fits, rows, Exists, Lasts
  <1>3. CallsOK'
    BY <1>2, CallsLast DEF IInv
  <1>4. MintedOK'
    BY MintedLasts DEF IInv, rows
  <1> QED
    BY <1>1, <1>2, <1>3, <1>4 DEF IInv, Later

\* Steps of the calls.
LEMMA CallStep ==
    ASSUME IInv, UNCHANGED <<clock, owner, rows, worker, box, table, bounds>>, CallsType', CallsOK'
    PROVE  IInv'
  <1>1. AppsType' /\ TableType' /\ IdsOK' /\ PortsOK' /\ Once(prov)' /\ OwnerType' /\ SessionsOK'
    BY DEF IInv, AppsType, TableType, IdsOK, PortsOK, Once, rows, table, owner, Exists, OwnerType,
           SessionsOK
  <1>2. DeployOK' /\ MintedOK' /\ MadeOK' /\ BoundsType'
    BY DEF IInv, DeployOK, Deployed, Fits, rows, table, Exists, MintedOK, MadeOK, BoundsType, bounds
  <1> QED
    BY <1>1, <1>2 DEF IInv

-----------------------------------------------------------------------------
(* Sessions and API tokens                                                 *)

LEMMA OneOperation ==
    ASSUME BoundsType, ops < MaxOps, ops' = ops + 1, UNCHANGED <<clock, crashes>>
    PROVE  Later
  <1>1. ops \in Nat /\ crashes \in Nat /\ clock \in Nat /\ ops <= MaxOps /\ MaxOps \in Nat
    BY ServicesAssumption DEF BoundsType
  <1>2. ops' \in 0..MaxOps
    BY <1>1
  <1>3. BoundsType'
    BY <1>2 DEF BoundsType
  <1>4. clock <= clock'
    BY <1>1
  <1>5. ops + crashes <= ops' + crashes'
    BY <1>1
  <1> QED
    BY <1>3, <1>4, <1>5 DEF Later

LEMMA NothingLater ==
    ASSUME BoundsType, UNCHANGED <<clock, ops, crashes>>
    PROVE  Later
  <1>1. ops \in Nat /\ crashes \in Nat /\ clock \in Nat
    BY DEF BoundsType
  <1>2. clock <= clock' /\ BoundsType'
    BY <1>1 DEF BoundsType
  <1>3. ops + crashes <= ops' + crashes'
    BY <1>1
  <1> QED
    BY <1>2, <1>3 DEF Later

LEMMA LoginStep == IInv /\ Login => IInv'
  <1> SUFFICES ASSUME IInv, Login PROVE IInv'
    OBVIOUS
  <1>1. PICK s \in Sessions :
             /\ expires[s] = None
             /\ expires' = [expires EXCEPT ![s] = clock + TTL]
             /\ sessions' = (sessions \ Swept) \cup {s}
    BY DEF Login
  <1>2. UNCHANGED <<clock, loggedOut, key>> /\ UNCHANGED <<rows, worker, box, table, calls>>
    BY DEF Login
  <1>3. Later
    BY OneOperation DEF Login, IInv
  <1>4. clock \in Nat /\ clock + TTL \in Nat /\ clock + TTL # None
    BY ServicesAssumption DEF IInv, BoundsType
  <1>5. OwnerType'
    BY <1>1, <1>2, <1>4 DEF IInv, OwnerType
  <1>6. \A t \in Swept : expires[t] # None => expires[t] < clock
    <2> SUFFICES ASSUME NEW t \in Swept, expires[t] # None PROVE expires[t] < clock
      OBVIOUS
    <2>1. expires[t] \in Nat /\ expires[t] \div 2 < clock \div 2
      BY DEF Swept, IInv, OwnerType
    <2> QED
      BY <1>4, <2>1
  <1>7. SessionsOK'
    <2>1. s \notin loggedOut /\ sessions \cap loggedOut = {} /\ sessions \subseteq Sessions
          /\ loggedOut \subseteq Sessions
      BY <1>1 DEF IInv, SessionsOK, OwnerType
    <2>2. sessions' \cap loggedOut' = {}
      BY <1>1, <1>2, <2>1
    <2>3. \A t \in Sessions : t # s => expires'[t] = expires[t]
      BY <1>1 DEF IInv, OwnerType
    <2>4. expires'[s] # None
      BY <1>1, <1>4 DEF IInv, OwnerType
    <2>5. \A t \in sessions' \cup loggedOut' : expires'[t] # None
      BY <1>1, <1>2, <2>1, <2>3, <2>4 DEF IInv, SessionsOK
    <2>6. ASSUME NEW t \in Sessions \ (sessions' \cup loggedOut'), expires'[t] # None
          PROVE  expires'[t] < clock'
      <3>1. t # s /\ expires'[t] = expires[t] /\ t \notin loggedOut /\ clock' = clock
        BY <1>1, <1>2, <2>3, <2>6
      <3>2. t \in Swept \/ t \notin sessions
        BY <1>1, <2>6
      <3> QED
        BY <1>6, <2>6, <3>1, <3>2 DEF IInv, SessionsOK
    <2> QED
      BY <2>2, <2>5, <2>6 DEF SessionsOK
  <1> QED
    BY <1>2, <1>3, <1>5, <1>7, OwnerStep

LEMMA LogoutStep == IInv /\ Logout => IInv'
  <1> SUFFICES ASSUME IInv, Logout PROVE IInv'
    OBVIOUS
  <1>1. PICK s \in sessions : /\ sessions' = sessions \ {s} /\ loggedOut' = loggedOut \cup {s}
    BY DEF Logout
  <1>2. UNCHANGED <<clock, expires, key>> /\ UNCHANGED <<rows, worker, box, table, calls>>
    BY DEF Logout
  <1>3. Later
    BY OneOperation DEF Logout, OwnerRequest, IInv
  <1>4. OwnerType'
    BY <1>1, <1>2 DEF IInv, OwnerType
  <1>5. SessionsOK'
    BY <1>1, <1>2 DEF IInv, SessionsOK
  <1> QED
    BY <1>2, <1>3, <1>4, <1>5, OwnerStep

LEMMA KeyStep == IInv /\ (CreateKey \/ DeleteKey) => IInv'
  <1> SUFFICES ASSUME IInv, CreateKey \/ DeleteKey PROVE IInv'
    OBVIOUS
  <1>1. UNCHANGED <<clock, sessions, expires, loggedOut>> /\ UNCHANGED <<rows, worker, box, table, calls>>
    BY DEF CreateKey, DeleteKey
  <1>2. Later
    BY OneOperation DEF CreateKey, DeleteKey, OwnerRequest, IInv
  <1>3. key' \in Nat \cup {None, Never}
    <2>1. CASE CreateKey
      <3>1. PICK life \in KeyLives : key' = IF life = Never THEN Never ELSE clock + life
        BY <2>1 DEF CreateKey
      <3>2. life = Never \/ life \in Nat
        BY ServicesAssumption
      <3>3. clock \in Nat
        BY DEF IInv, BoundsType
      <3> QED
        BY <3>1, <3>2, <3>3
    <2>2. CASE DeleteKey
      BY <2>2 DEF DeleteKey
    <2> QED
      BY <2>1, <2>2
  <1>4. OwnerType' /\ SessionsOK'
    BY <1>1, <1>3 DEF IInv, OwnerType, SessionsOK
  <1> QED
    BY <1>1, <1>2, <1>4, OwnerStep

LEMMA TickStep == IInv /\ Tick => IInv'
  <1> SUFFICES ASSUME IInv, Tick PROVE IInv'
    OBVIOUS
  <1>1. UNCHANGED owner /\ UNCHANGED bounds /\ UNCHANGED <<rows, worker, box, table, calls>>
        /\ clock < MaxClock /\ clock' = clock + 1
    BY DEF Tick
  <1>2. clock \in Nat /\ ops \in Nat /\ crashes \in Nat /\ MaxClock \in Nat
    BY ServicesAssumption DEF IInv, BoundsType
  <1>3. clock' \in 0..MaxClock /\ clock <= clock'
    BY <1>1, <1>2
  <1>4. ops + crashes <= ops' + crashes'
    BY <1>1, <1>2 DEF bounds
  <1>5. Later
    BY <1>1, <1>3, <1>4 DEF Later, IInv, BoundsType, bounds
  <1>6. OwnerType'
    BY <1>1 DEF IInv, OwnerType, owner
  <1>7. SessionsOK'
    <2>1. \A s \in Sessions : expires[s] # None /\ expires[s] < clock => expires[s] < clock'
      BY <1>1, <1>2 DEF IInv, OwnerType
    <2> QED
      BY <1>1, <2>1 DEF IInv, SessionsOK, owner
  <1> QED
    BY <1>1, <1>5, <1>6, <1>7, OwnerStep

-----------------------------------------------------------------------------
(* The owner's choices and grants                                          *)

LEMMA DefaultsStep == IInv /\ (SetDefault \/ ClearDefault) => IInv'
  <1> SUFFICES ASSUME IInv, SetDefault \/ ClearDefault PROVE IInv'
    OBVIOUS
  <1>1. UNCHANGED <<clock, owner, rows, worker, box, prov, calls>> /\ UNCHANGED perms
    BY DEF SetDefault, ClearDefault
  <1>2. Later
    BY OneOperation DEF SetDefault, ClearDefault, OwnerRequest, IInv
  <1>3. \E s \in ServiceUrls, x \in AppIds \cup {None} :
           /\ pick' = [pick EXCEPT ![s] = x]
           /\ x # None => Exists(x)
    <2>1. CASE SetDefault
      <3>1. PICK s \in ServiceUrls, a \in AppIds \cup {Router} :
               \/ a = Router /\ s \in Builtins /\ pick' = [pick EXCEPT ![s] = None]
               \/ \E e \in Live(s) : a = e[2] /\ pick' = [pick EXCEPT ![s] = a]
        BY <2>1 DEF SetDefault
      <3>2. CASE \E e \in Live(s) : a = e[2] /\ pick' = [pick EXCEPT ![s] = a]
        <4>1. Exists(a) /\ a \in AppIds
          BY <3>2 DEF Live, IInv, TableType, Entries
        <4> QED
          BY <3>2, <4>1
      <3> QED
        BY <3>1, <3>2
    <2>2. CASE ClearDefault
      BY <2>2 DEF ClearDefault
    <2> QED
      BY <2>1, <2>2
  <1>4. TableType'
    BY <1>1, <1>3 DEF IInv, TableType, Exists, rows
  <1> QED
    BY <1>1, <1>2, <1>4, TableStep

LEMMA GrantsStep == IInv /\ (GrantGlobal \/ GrantApp \/ Revoke) => IInv'
  <1> SUFFICES ASSUME IInv, GrantGlobal \/ GrantApp \/ Revoke PROVE IInv'
    OBVIOUS
  <1>1. UNCHANGED <<clock, owner, rows, worker, box, prov, calls>> /\ UNCHANGED pick
    BY DEF GrantGlobal, GrantApp, Revoke
  <1>2. Later
    BY OneOperation DEF GrantGlobal, GrantApp, Revoke, OwnerRequest, IInv
  <1>3. perms' \subseteq Grant /\ \A g \in perms' : Exists(g.con)
    <2>1. CASE GrantGlobal
      BY <2>1 DEF GrantGlobal, Grant, Scopes, IInv, TableType
    <2>2. CASE GrantApp
      BY <2>2 DEF GrantApp, Grant, Scopes, IInv, TableType
    <2>3. CASE Revoke
      BY <2>3 DEF Revoke, IInv, TableType
    <2> QED
      BY <2>1, <2>2, <2>3
  <1>4. TableType'
    BY <1>1, <1>3 DEF IInv, TableType, Exists, rows
  <1> QED
    BY <1>1, <1>2, <1>4, TableStep

-----------------------------------------------------------------------------
(* Deploying an app: one app's row, container, token and registration      *)

\* What the tables and threads say of an app stays as it is.
Same(b) == /\ apps'[b] = apps[b] /\ worker'[b] = worker[b] /\ box'[b] = box[b]
           /\ token'[b] = token[b] /\ minted'[b] = minted[b]
           /\ Listed(prov', b) = Listed(prov, b)

\* No row comes or goes, or is dated anew.
RowsStay == \A b \in AppIds : Exists(b) <=> Exists(b)'
DatesStay == \A b \in AppIds : Exists(b) => apps'[b].made = apps[b].made

LEMMA SameDeployed ==
    ASSUME NEW b \in AppIds, Deployed(b), Same(b)
    PROVE  Deployed(b)'
  BY DEF Deployed, Same, Fits, Exists

LEMMA WorkStep ==
    ASSUME IInv, NEW a \in AppIds, Later, UNCHANGED <<clock, owner, used, port, pick, perms, calls>>,
           AppsType', prov' \in SUBSET Entries, Once(prov'),
           \A e \in prov' : e \in prov \/ (e[2] = a /\ Exists(a)),
           RowsStay, DatesStay,
           \A b \in AppIds \ {a} : Same(b),
           Deployed(a)',
           a \notin used => worker'[a] = "none" /\ box'[a] = None,
           minted'[a] + Pending(worker'[a]) <= ops' + crashes'
    PROVE  IInv'
  <1>1. OwnerType' /\ CallsType' /\ SessionsOK'
    BY DEF IInv, OwnerType, CallsType, SessionsOK, owner
  <1>2. TableType'
    <2>1. \A g \in perms : Exists(g.con)'
      BY DEF IInv, TableType, RowsStay, Grant
    <2>2. \A e \in prov' : Exists(e[2])'
      <3> SUFFICES ASSUME NEW e \in prov' PROVE Exists(e[2])'
        OBVIOUS
      <3>1. e[2] \in AppIds
        BY DEF Entries
      <3>2. Exists(e[2])
        BY DEF IInv, TableType
      <3> QED
        BY <3>1, <3>2 DEF RowsStay
    <2>3. \A s \in ServiceUrls : pick[s] # None => Exists(pick[s])'
      <3> SUFFICES ASSUME NEW s \in ServiceUrls, pick[s] # None PROVE Exists(pick[s])'
        OBVIOUS
      <3>1. pick[s] \in AppIds /\ Exists(pick[s])
        BY DEF IInv, TableType
      <3>2. PICK p \in AppIds : p = pick[s]
        BY <3>1
      <3>3. Exists(p)'
        BY <3>1, <3>2 DEF RowsStay
      <3>4. pick' = pick
        OBVIOUS
      <3> QED
        BY <3>2, <3>3, <3>4
    <2> QED
      BY <2>1, <2>2, <2>3 DEF IInv, TableType
  <1>3. IdsOK'
    <2> SUFFICES ASSUME NEW b \in AppIds \ used
                 PROVE  apps'[b] = None /\ worker'[b] = "none" /\ box'[b] = None
      BY DEF IdsOK
    <2>1. apps[b] = None /\ worker[b] = "none" /\ box[b] = None
      BY DEF IInv, IdsOK
    <2>2. apps'[b] = None
      BY <2>1 DEF RowsStay, Exists
    <2> QED
      BY <2>1, <2>2 DEF Same
  <1>4. DeployOK'
    <2> SUFFICES ASSUME NEW b \in AppIds PROVE Deployed(b)'
      BY DEF DeployOK
    <2>1. CASE b = a
      BY <2>1
    <2>2. CASE b # a
      BY <2>2, SameDeployed DEF IInv, DeployOK
    <2> QED
      BY <2>1, <2>2
  <1>5. MintedOK'
    <2> SUFFICES ASSUME NEW b \in AppIds, b # a
                 PROVE  minted'[b] + Pending(worker'[b]) <= ops' + crashes'
      BY DEF MintedOK
    <2>1. minted[b] + Pending(worker[b]) <= ops + crashes
      BY DEF IInv, MintedOK
    <2>2. minted'[b] = minted[b] /\ worker'[b] = worker[b]
      BY DEF Same
    <2>3. minted[b] \in Nat
      BY Sizes DEF IInv, AppsType
    <2>4. Pending(worker[b]) \in Nat
      BY PendingIs
    <2>5. ops \in Nat /\ crashes \in Nat
      BY DEF IInv, BoundsType
    <2>6. ops' \in Nat /\ crashes' \in Nat
      BY DEF Later, BoundsType
    <2>7. ops + crashes <= ops' + crashes'
      BY DEF Later
    <2>8. \A m, p, o, c, o1, c1 \in Nat : m + p <= o + c /\ o + c <= o1 + c1 => m + p <= o1 + c1
      OBVIOUS
    <2> QED
      BY <2>1, <2>2, <2>3, <2>4, <2>5, <2>6, <2>7, <2>8, Zenon
  <1>6. PortsOK'
    BY DEF IInv, PortsOK, RowsStay
  <1>7. Lasts
    BY DEF Lasts, RowsStay, IInv, AppsType
  <1>8. CallsOK'
    BY <1>7, CallsLast DEF IInv
  <1>9. MadeOK'
    BY DEF IInv, MadeOK, RowsStay, DatesStay
  <1> QED
    BY <1>1, <1>2, <1>3, <1>4, <1>5, <1>6, <1>8, <1>9 DEF IInv, Later

\* Most of these steps rewrite the status of the row and move the thread on.
LEMMA StatusStays ==
    ASSUME AppsType, NEW a \in AppIds, NEW st \in Statuses, apps' = SetStatus(a, st)
    PROVE  RowsStay /\ DatesStay
  <1> SUFFICES ASSUME NEW b \in AppIds
               PROVE  (Exists(b) <=> Exists(b)') /\ (Exists(b) => apps'[b].made = apps[b].made)
    BY DEF RowsStay, DatesStay
  <1>1. CASE b = a
    BY <1>1, SetStatusIs DEF Exists
  <1>2. CASE b # a
    BY <1>2, SetStatusIs DEF Exists
  <1> QED
    BY <1>1, <1>2

LEMMA RowStays ==
    ASSUME AppsType, NEW a \in AppIds, NEW st \in Statuses, NEW cid \in BOOLEAN,
           apps' = SetRow(a, st, cid)
    PROVE  RowsStay /\ DatesStay
  <1> SUFFICES ASSUME NEW b \in AppIds
               PROVE  (Exists(b) <=> Exists(b)') /\ (Exists(b) => apps'[b].made = apps[b].made)
    BY DEF RowsStay, DatesStay
  <1>1. CASE b = a
    BY <1>1, SetRowIs DEF Exists
  <1>2. CASE b # a
    BY <1>2, SetRowIs DEF Exists
  <1> QED
    BY <1>1, <1>2

\* A thread's counters when nothing is minted.
LEMMA NotMinted ==
    ASSUME IInv, Later, NEW a \in AppIds, minted'[a] = minted[a],
           Pending(worker'[a]) <= Pending(worker[a])
             \/ (ops' = ops + 1 /\ crashes' = crashes)
    PROVE  minted'[a] + Pending(worker'[a]) <= ops' + crashes'
  <1>1. minted[a] + Pending(worker[a]) <= ops + crashes
    BY DEF IInv, MintedOK
  <1>2. minted[a] \in Nat
    BY Sizes DEF IInv, AppsType
  <1>3. Pending(worker[a]) \in {0, 1} /\ Pending(worker'[a]) \in {0, 1}
    BY PendingIs
  <1>4. ops \in Nat /\ crashes \in Nat
    BY DEF IInv, BoundsType
  <1>5. ops' \in Nat /\ crashes' \in Nat
    BY DEF Later, BoundsType
  <1>6. ops + crashes <= ops' + crashes'
    BY DEF Later
  <1>7. Pending(worker[a]) \in Nat /\ Pending(worker'[a]) \in Nat /\ Pending(worker'[a]) <= 1
    BY <1>3
  <1>8. CASE Pending(worker'[a]) <= Pending(worker[a])
    <2>1. \A m, p, q, t \in Nat : m + p <= t /\ q <= p => m + q <= t
      OBVIOUS
    <2>2. ops + crashes \in Nat /\ ops' + crashes' \in Nat
      <3>1. \A x, y \in Nat : x + y \in Nat
        OBVIOUS
      <3> QED
        BY <1>4, <1>5, <3>1, Zenon
    <2>3. minted[a] + Pending(worker'[a]) <= ops + crashes
      BY <1>1, <1>2, <1>7, <1>8, <2>1, <2>2, Zenon
    <2>4. \A m, q, t, u \in Nat : m + q <= t /\ t <= u => m + q <= u
      OBVIOUS
    <2>5. minted[a] + Pending(worker'[a]) <= ops' + crashes'
      BY <1>2, <1>6, <1>7, <2>2, <2>3, <2>4, Zenon
    <2> QED
      BY <2>5
  <1>9. CASE ops' = ops + 1 /\ crashes' = crashes
    <2>1. \A m, p, q, o, c \in Nat : m + p <= o + c /\ q <= 1 => m + q <= o + 1 + c
      OBVIOUS
    <2>2. minted[a] + Pending(worker'[a]) <= ops + 1 + crashes
      BY <1>1, <1>2, <1>4, <1>7, <2>1, Zenon
    <2> QED
      BY <1>9, <2>2
  <1> QED
    BY <1>8, <1>9

\* A step that gives one row a status, and moves its thread and its container.
LEMMA StatusStep ==
    ASSUME IInv, NEW a \in used, NEW st \in Statuses, NEW w \in Workers, Later,
           UNCHANGED <<clock, owner, used, minted, token, port, table, calls>>,
           apps' = SetStatus(a, st) \/ \E cid \in BOOLEAN : apps' = SetRow(a, st, cid),
           worker' = [worker EXCEPT ![a] = w],
           box' \in [AppIds -> Container \cup {None}],
           \A b \in AppIds \ {a} : box'[b] = box[b],
           Pending(w) <= Pending(worker[a]) \/ (ops' = ops + 1 /\ crashes' = crashes),
           Deployed(a)'
    PROVE  IInv'
  <1>1. a \in AppIds
    BY DEF IInv, AppsType
  <1>2. /\ apps' \in [AppIds -> Row \cup {None}]
        /\ \A b \in AppIds \ {a} : apps'[b] = apps[b]
        /\ RowsStay /\ DatesStay
    <2>1. CASE apps' = SetStatus(a, st)
      BY <1>1, <2>1, SetStatusIs, StatusStays DEF IInv
    <2>2. CASE \E cid \in BOOLEAN : apps' = SetRow(a, st, cid)
      <3>1. PICK cid \in BOOLEAN : apps' = SetRow(a, st, cid)
        BY <2>2
      <3> QED
        BY <1>1, <3>1, SetRowIs, RowStays DEF IInv
    <2> QED
      BY <2>1, <2>2
  <1>3. worker' \in [AppIds -> Workers] /\ worker'[a] = w
        /\ \A b \in AppIds \ {a} : worker'[b] = worker[b]
    BY <1>1 DEF IInv, AppsType
  <1>4. AppsType'
    BY <1>2, <1>3 DEF IInv, AppsType
  <1>5. prov' = prov /\ prov' \in SUBSET Entries /\ Once(prov')
    BY DEF IInv, TableType, table
  <1>6. \A b \in AppIds \ {a} : Same(b)
    BY <1>2, <1>3, <1>5 DEF Same
  <1>7. minted'[a] + Pending(worker'[a]) <= ops' + crashes'
    BY <1>1, <1>3, NotMinted
  <1>8. UNCHANGED <<clock, owner, used, port, pick, perms, calls>>
    BY DEF table
  <1> QED
    BY <1>1, <1>2, <1>4, <1>5, <1>6, <1>7, <1>8, WorkStep

\* What a step with its own settings keeps.
LEMMA UsedIds ==
    ASSUME IInv, NEW a \in AppIds, worker[a] # "none" \/ Exists(a)
    PROVE  a \in used
  BY DEF IInv, IdsOK, Exists

LEMMA ExistsBy ==
    ASSUME NEW a \in AppIds
    PROVE  /\ Status(a) # "none" => Exists(a) /\ apps[a].status = Status(a)
           /\ Exists(a) => Status(a) = apps[a].status
  BY DEF Status

LEMMA ReloadStep == IInv /\ Reload => IInv'
  <1> SUFFICES ASSUME IInv, Reload PROVE IInv'
    OBVIOUS
  <1>1. PICK a \in AppIds :
             /\ OwnerRequest /\ worker[a] = "none"
             /\ Status(a) \in {"running", "stopped", "error"}
             /\ apps' = SetRow(a, "building", FALSE)
             /\ worker' = [worker EXCEPT ![a] = "sync"]
    BY DEF Reload
  <1>2. UNCHANGED <<clock, owner, used, minted, token, port, table, calls>> /\ box' = box /\ crashes' = crashes
    BY DEF Reload
  <1>3. Exists(a) /\ a \in used
    BY <1>1, ExistsBy, UsedIds
  <1>4. Later /\ ops' = ops + 1
    BY <1>1, <1>2, OneOperation DEF OwnerRequest, IInv
  <1>5. "building" \in Statuses /\ "sync" \in Workers
    BY DEF Statuses, Workers
  <1>6. apps'[a].status = "building" /\ apps'[a].cid = FALSE /\ worker'[a] = "sync"
    <2>1. AppsType /\ worker'[a] = "sync"
      BY <1>1 DEF IInv, AppsType
    <2>2. SetRow(a, "building", FALSE)[a].status = "building" /\ SetRow(a, "building", FALSE)[a].cid = FALSE
      BY <1>3, <1>5, <2>1, SetRowIs
    <2> QED
      BY <1>1, <2>1, <2>2
  <1>7. Deployed(a)'
    BY <1>6 DEF Deployed
  <1>8. box' \in [AppIds -> Container \cup {None}]
    BY <1>2 DEF IInv, AppsType
  <1> QED
    BY <1>1, <1>2, <1>3, <1>4, <1>5, <1>7, <1>8, StatusStep

LEMMA MarkStartingStep == IInv /\ MarkStarting => IInv'
  <1> SUFFICES ASSUME IInv, MarkStarting PROVE IInv'
    OBVIOUS
  <1>1. PICK a \in AppIds :
             /\ worker[a] = "synced"
             /\ apps' = SetStatus(a, "starting")
             /\ worker' = [worker EXCEPT ![a] = IF Exists(a) THEN "build" ELSE "none"]
    BY DEF MarkStarting
  <1> DEFINE w == IF Exists(a) THEN "build" ELSE "none"
  <1>2. UNCHANGED <<clock, owner, used, minted, token, port, table, calls>> /\ box' = box /\ UNCHANGED <<ops, crashes>>
    BY DEF MarkStarting, bounds
  <1>3. a \in used /\ Later
    BY <1>1, <1>2, UsedIds, NothingLater DEF IInv
  <1>5. "starting" \in Statuses /\ w \in Workers /\ Pending(w) <= Pending(worker[a])
    BY <1>1 DEF Statuses, Workers, Pending
  <1>6. worker'[a] \notin {"run", "ready"} /\ (Exists(a) => apps'[a].status = "starting")
        /\ (~Exists(a) => apps'[a] = apps[a])
    BY <1>1, <1>5, SetStatusIs DEF IInv, AppsType
  <1>7. Deployed(a)'
    BY <1>6 DEF Deployed, Exists
  <1>8. box' \in [AppIds -> Container \cup {None}]
    BY <1>2 DEF IInv, AppsType
  <1> HIDE DEF w
  <1>9. worker' = [worker EXCEPT ![a] = w]
    BY <1>1 DEF w
  <1> QED
    BY <1>1, <1>2, <1>3, <1>5, <1>7, <1>8, <1>9, StatusStep

LEMMA BuildFailsStep == IInv /\ BuildFails => IInv'
  <1> SUFFICES ASSUME IInv, BuildFails PROVE IInv'
    OBVIOUS
  <1>1. PICK a \in AppIds :
             /\ worker[a] \in {"first build", "build"}
             /\ apps' = SetStatus(a, "error")
             /\ worker' = [worker EXCEPT ![a] = "none"]
    BY DEF BuildFails
  <1>2. UNCHANGED <<clock, owner, used, minted, token, port, table, calls>> /\ box' = box /\ UNCHANGED <<ops, crashes>>
    BY DEF BuildFails, bounds
  <1>3. a \in used /\ Later
    BY <1>1, <1>2, UsedIds, NothingLater DEF IInv
  <1>4. Pending("none") = 0 /\ Pending(worker[a]) \in {0, 1}
    BY PendingIs DEF Pending
  <1>5. "error" \in Statuses /\ "none" \in Workers /\ Pending("none") <= Pending(worker[a])
    BY <1>4 DEF Statuses, Workers
  <1>6. worker'[a] = "none" /\ (Exists(a) => apps'[a].status = "error")
        /\ (~Exists(a) => apps'[a] = apps[a])
    BY <1>1, <1>5, SetStatusIs DEF IInv, AppsType
  <1>7. Deployed(a)'
    BY <1>6 DEF Deployed, Exists
  <1>8. box' \in [AppIds -> Container \cup {None}]
    BY <1>2 DEF IInv, AppsType
  <1> QED
    BY <1>1, <1>2, <1>3, <1>5, <1>7, <1>8, StatusStep

LEMMA SettleStep == IInv /\ Settle => IInv'
  <1> SUFFICES ASSUME IInv, Settle PROVE IInv'
    OBVIOUS
  <1>1. PICK a \in AppIds, st \in {"running", "error"} :
             /\ worker[a] = "ready"
             /\ worker' = [worker EXCEPT ![a] = "none"]
             /\ apps' = SetStatus(a, st)
    BY DEF Settle
  <1>2. UNCHANGED <<clock, owner, used, minted, token, port, table, calls>> /\ box' = box /\ UNCHANGED <<ops, crashes>>
    BY DEF Settle, bounds
  <1>3. a \in used /\ Later
    BY <1>1, <1>2, UsedIds, NothingLater DEF IInv
  <1>5. st \in Statuses /\ "none" \in Workers /\ Pending("none") <= Pending(worker[a])
    BY <1>1 DEF Statuses, Workers, Pending
  <1>6. worker'[a] = "none" /\ (Exists(a) => apps'[a].status = st)
        /\ (~Exists(a) => apps'[a] = apps[a])
    BY <1>1, <1>5, SetStatusIs DEF IInv, AppsType
  <1>7. Exists(a) => Fits(a)'
    BY <1>1, <1>2 DEF IInv, DeployOK, Deployed, Fits, table
  <1>8. Deployed(a)'
    BY <1>6, <1>7 DEF Deployed, Exists
  <1>9. box' \in [AppIds -> Container \cup {None}]
    BY <1>2 DEF IInv, AppsType
  <1> QED
    BY <1>1, <1>2, <1>3, <1>5, <1>8, <1>9, StatusStep

LEMMA StopStep == IInv /\ Stop => IInv'
  <1> SUFFICES ASSUME IInv, Stop PROVE IInv'
    OBVIOUS
  <1>1. PICK a \in AppIds :
             /\ OwnerRequest /\ Status(a) \notin {"none", "removing"}
             /\ box' = [box EXCEPT ![a] = None]
             /\ apps' = SetRow(a, "stopped", FALSE)
    BY DEF Stop
  <1>2. UNCHANGED <<clock, owner, used, minted, token, port, table, calls>> /\ worker' = worker /\ crashes' = crashes
    BY DEF Stop
  <1>3. Exists(a) /\ a \in used
    BY <1>1, ExistsBy, UsedIds
  <1>4. Later /\ ops' = ops + 1
    BY <1>1, <1>2, OneOperation DEF OwnerRequest, IInv
  <1>5. "stopped" \in Statuses /\ worker[a] \in Workers /\ worker' = [worker EXCEPT ![a] = worker[a]]
    BY <1>2 DEF Statuses, IInv, AppsType
  <1>6. /\ box' \in [AppIds -> Container \cup {None}] /\ box'[a] = None
        /\ \A b \in AppIds \ {a} : box'[b] = box[b]
    BY <1>1 DEF IInv, AppsType
  <1>7. apps'[a].status = "stopped" /\ apps'[a].man = apps[a].man
    BY <1>1, <1>3, <1>5, SetRowIs DEF IInv
  <1>8. Deployed(a)'
    BY <1>2, <1>3, <1>6, <1>7 DEF Deployed, Fits, IInv, DeployOK, table, Exists
  <1> QED
    BY <1>1, <1>2, <1>3, <1>4, <1>5, <1>6, <1>8, StatusStep

LEMMA RemoveClaimStep == IInv /\ RemoveClaim => IInv'
  <1> SUFFICES ASSUME IInv, RemoveClaim PROVE IInv'
    OBVIOUS
  <1>1. PICK a \in AppIds :
             /\ OwnerRequest /\ Status(a) \notin {"none", "removing"}
             /\ apps' = SetStatus(a, "removing")
    BY DEF RemoveClaim
  <1>2. UNCHANGED <<clock, owner, used, minted, token, port, table, calls>> /\ UNCHANGED <<worker, box>> /\ crashes' = crashes
    BY DEF RemoveClaim
  <1>3. Exists(a) /\ a \in used
    BY <1>1, ExistsBy, UsedIds
  <1>4. Later /\ ops' = ops + 1
    BY <1>1, <1>2, OneOperation DEF OwnerRequest, IInv
  <1>5. "removing" \in Statuses /\ worker[a] \in Workers /\ worker' = [worker EXCEPT ![a] = worker[a]]
    BY <1>2 DEF Statuses, IInv, AppsType
  <1>6. box' \in [AppIds -> Container \cup {None}]
    BY <1>2 DEF IInv, AppsType
  <1>7. apps'[a].status = "removing" /\ apps'[a].man = apps[a].man
    BY <1>1, <1>3, <1>5, SetStatusIs DEF IInv
  <1>8. Deployed(a)'
    BY <1>2, <1>3, <1>7 DEF Deployed, Fits, IInv, DeployOK, table, Exists
  <1> QED
    BY <1>1, <1>2, <1>3, <1>4, <1>5, <1>6, <1>8, StatusStep

LEMMA RunStep == IInv /\ RunContainer => IInv'
  <1> SUFFICES ASSUME IInv, RunContainer PROVE IInv'
    OBVIOUS
  <1>1. PICK a \in AppIds, started \in BOOLEAN :
             /\ worker[a] = "run"
             /\ worker' = [worker EXCEPT ![a] = IF started THEN "ready" ELSE "none"]
             /\ box' = [box EXCEPT ![a] =
                          IF started THEN [token |-> minted[a],
                                           man |-> IF Exists(a) THEN apps[a].man ELSE None]
                          ELSE None]
             /\ apps' = IF started THEN SetRow(a, Status(a), TRUE) ELSE SetRow(a, "error", FALSE)
    BY DEF RunContainer
  <1> DEFINE w == IF started THEN "ready" ELSE "none"
  <1> DEFINE st == IF started /\ Exists(a) THEN apps[a].status ELSE "error"
  <1> DEFINE man == IF Exists(a) THEN apps[a].man ELSE None
  <1> DEFINE new == IF started THEN [token |-> minted[a], man |-> man] ELSE None
  <1>2. UNCHANGED <<clock, owner, used, minted, token, port, table, calls>> /\ UNCHANGED <<ops, crashes>>
    BY DEF RunContainer, bounds
  <1>3. a \in used /\ Later
    BY <1>1, <1>2, UsedIds, NothingLater DEF IInv
  <1>4. Exists(a) => apps[a] \in Row
    BY DEF Exists, IInv, AppsType
  <1>5. st \in Statuses /\ w \in Workers /\ man \in Manifests \cup {None}
    BY <1>4 DEF Statuses, Workers, Row
  <1>6. Pending("ready") = 0 /\ Pending("none") = 0 /\ Pending(worker[a]) \in {0, 1}
    BY PendingIs DEF Pending
  <1>7. Pending(w) <= Pending(worker[a])
    BY <1>6
  <1>8. \E cid \in BOOLEAN : apps' = SetRow(a, st, cid)
    BY <1>1, ExistsBy DEF SetRow
  <1>9. new \in Container \cup {None}
    BY <1>5 DEF Container, IInv, AppsType
  <1>10. /\ box' \in [AppIds -> Container \cup {None}] /\ box'[a] = new
         /\ \A b \in AppIds \ {a} : box'[b] = box[b]
    BY <1>1, <1>9 DEF IInv, AppsType
  <1>11. worker' = [worker EXCEPT ![a] = w] /\ worker'[a] = w
    BY <1>1 DEF IInv, AppsType
  <1>12. Exists(a) => apps'[a].status = st /\ apps'[a].man = apps[a].man
    BY <1>5, <1>8, SetRowIs DEF IInv
  <1>13. ~Exists(a) => ~Exists(a)'
    BY <1>5, <1>8, SetRowIs DEF IInv, Exists
  <1>14. Exists(a) => /\ apps[a].status \notin {"running"}
                      /\ token[a] = minted[a] /\ Listed(prov, a) = Provided(apps[a].man)
    BY <1>1 DEF IInv, DeployOK, Deployed
  <1>15. Exists(a) => Fits(a)'
    <2> SUFFICES ASSUME Exists(a), new # None
                 PROVE  new.token = token[a] /\ Listed(prov, a) = Provided(new.man)
      BY <1>2, <1>10 DEF Fits, table
    <2> QED
      BY <1>14
  <1>16. st # "building" \/ ~Exists(a)
    <2> SUFFICES ASSUME Exists(a), started, apps[a].status = "building" PROVE FALSE
      OBVIOUS
    <2> QED
      BY <1>1 DEF IInv, DeployOK, Deployed
  <1>17. Deployed(a)'
    BY <1>11, <1>12, <1>13, <1>14, <1>15, <1>16 DEF Deployed
  <1> HIDE DEF w, st, man, new
  <1> QED
    BY <1>2, <1>3, <1>5, <1>7, <1>8, <1>10, <1>11, <1>17, StatusStep

LEMMA ReloadSyncStep == IInv /\ ReloadSync => IInv'
  <1> SUFFICES ASSUME IInv, ReloadSync PROVE IInv'
    OBVIOUS
  <1>1. PICK a \in AppIds, m \in Manifests, stopped \in BOOLEAN :
             /\ worker[a] = "sync"
             /\ box' = IF stopped THEN [box EXCEPT ![a] = None] ELSE box
             /\ IF Exists(a)
                THEN /\ apps' = [apps EXCEPT ![a].man = m]
                     /\ prov' = Registered(prov, a, m)
                     /\ worker' = [worker EXCEPT ![a] = "synced"]
                ELSE worker' = [worker EXCEPT ![a] = "none"] /\ UNCHANGED <<apps, prov>>
    BY DEF ReloadSync
  <1>2. /\ UNCHANGED <<clock, owner, used, port, pick, perms, calls>>
        /\ UNCHANGED <<minted, token, ops, crashes>>
    BY DEF ReloadSync, bounds
  <1>3. a \in used /\ Later
    BY <1>1, <1>2, UsedIds, NothingLater DEF IInv
  <1> DEFINE w == IF Exists(a) THEN "synced" ELSE "none"
  <1>4. worker' = [worker EXCEPT ![a] = w] /\ w \in Workers /\ w \notin {"run", "ready"}
    BY <1>1 DEF Workers
  <1> HIDE DEF w
  <1>5. /\ worker' \in [AppIds -> Workers] /\ worker'[a] = w
        /\ \A b \in AppIds \ {a} : worker'[b] = worker[b]
    BY <1>4 DEF IInv, AppsType
  <1>6. /\ box' \in [AppIds -> Container \cup {None}]
        /\ \A b \in AppIds \ {a} : box'[b] = box[b]
    BY <1>1 DEF IInv, AppsType
  <1>7. /\ apps' \in [AppIds -> Row \cup {None}]
        /\ \A b \in AppIds \ {a} : apps'[b] = apps[b]
        /\ Exists(a) <=> Exists(a)'
        /\ Exists(a) => /\ apps'[a].made = apps[a].made /\ apps'[a].status = apps[a].status
                        /\ apps'[a].cid = apps[a].cid
    <2>1. CASE ~Exists(a)
      BY <1>1, <2>1 DEF IInv, AppsType, Exists
    <2>2. CASE Exists(a)
      <3>1. apps[a] \in Row /\ apps \in [AppIds -> Row \cup {None}]
        BY <2>2 DEF IInv, AppsType, Exists
      <3> DEFINE r == [apps[a] EXCEPT !.man = m]
      <3>2. r \in Row /\ r.made = apps[a].made /\ r.status = apps[a].status /\ r.cid = apps[a].cid
        BY <3>1 DEF Row
      <3>3. apps' = [apps EXCEPT ![a] = r] /\ r # None
        BY <1>1, <2>2, <3>1, <3>2, NoneAssumption
      <3> HIDE DEF r
      <3> QED
        BY <2>2, <3>1, <3>2, <3>3 DEF Exists
    <2> QED
      BY <2>1, <2>2
  <1>8. /\ prov' \in SUBSET Entries /\ Once(prov')
        /\ \A e \in prov' : e \in prov \/ (e[2] = a /\ Exists(a))
        /\ \A b \in AppIds \ {a} : Listed(prov', b) = Listed(prov, b)
    <2>1. CASE ~Exists(a)
      BY <1>1, <2>1 DEF IInv, TableType
    <2>2. CASE Exists(a)
      BY <1>1, <2>2, RegisteredAll DEF IInv, TableType
    <2> QED
      BY <2>1, <2>2
  <1>9. AppsType'
    BY <1>2, <1>5, <1>6, <1>7 DEF IInv, AppsType
  <1>10. RowsStay /\ DatesStay
    BY <1>7 DEF RowsStay, DatesStay, Exists
  <1>11. \A b \in AppIds \ {a} : Same(b)
    BY <1>2, <1>5, <1>6, <1>7, <1>8 DEF Same
  <1>12. Deployed(a)'
    <2>1. Exists(a) => apps[a].status # "running" /\ (apps[a].status = "building" => ~apps[a].cid)
      BY <1>1 DEF IInv, DeployOK, Deployed
    <2> QED
      BY <1>4, <1>5, <1>7, <2>1 DEF Deployed
  <1>13. Pending(worker'[a]) <= Pending(worker[a])
    <2>1. Pending(worker[a]) = 1 /\ Pending(worker'[a]) \in {0, 1}
      BY <1>1, PendingIs DEF Pending
    <2> QED
      BY <2>1
  <1>14. minted'[a] + Pending(worker'[a]) <= ops' + crashes'
    BY <1>2, <1>3, <1>13, NotMinted
  <1> QED
    BY <1>2, <1>3, <1>8, <1>9, <1>10, <1>11, <1>12, <1>14, WorkStep

LEMMA LaunchStep == IInv /\ Launch => IInv'
  <1> SUFFICES ASSUME IInv, Launch PROVE IInv'
    OBVIOUS
  <1>1. PICK a \in AppIds :
             /\ worker[a] \in {"first build", "build"}
             /\ worker' = [worker EXCEPT ![a] = IF Exists(a) THEN "run" ELSE "none"]
             /\ IF Exists(a)
                THEN /\ minted' = [minted EXCEPT ![a] = IF worker[a] = "build" THEN @ + 1 ELSE @]
                     /\ token' = [token EXCEPT ![a] = minted'[a]]
                     /\ prov' = Registered(prov, a, apps[a].man)
                ELSE UNCHANGED <<minted, token, prov>>
             /\ apps' = SetStatus(a, "starting")
    BY DEF Launch
  <1>2. /\ UNCHANGED <<clock, owner, used, port, pick, perms, calls>>
        /\ UNCHANGED <<box, ops, crashes>>
    BY DEF Launch, bounds
  <1>3. a \in used /\ Later /\ "starting" \in Statuses
    BY <1>1, <1>2, UsedIds, NothingLater DEF IInv, Statuses
  <1> DEFINE w == IF Exists(a) THEN "run" ELSE "none"
  <1>4. worker' = [worker EXCEPT ![a] = w] /\ w \in Workers /\ w # "ready" /\ Pending(w) = 0
        /\ (w = "run" => Exists(a))
    BY <1>1 DEF Workers, Pending
  <1> HIDE DEF w
  <1>5. /\ worker' \in [AppIds -> Workers] /\ worker'[a] = w
        /\ \A b \in AppIds \ {a} : worker'[b] = worker[b]
    BY <1>4 DEF IInv, AppsType
  <1>6. /\ apps' \in [AppIds -> Row \cup {None}]
        /\ \A b \in AppIds \ {a} : apps'[b] = apps[b]
        /\ Exists(a) <=> Exists(a)'
        /\ Exists(a) => apps'[a].man = apps[a].man /\ apps'[a].status = "starting"
    BY <1>1, <1>3, SetStatusIs DEF IInv, Exists
  <1>7. Exists(a) => apps[a].man \in Manifests
    BY DEF IInv, AppsType, Exists, Row
  <1>8. /\ prov' \in SUBSET Entries /\ Once(prov')
        /\ \A e \in prov' : e \in prov \/ (e[2] = a /\ Exists(a))
        /\ \A b \in AppIds \ {a} : Listed(prov', b) = Listed(prov, b)
        /\ Exists(a) => Listed(prov', a) = Provided(apps[a].man)
    <2>1. CASE ~Exists(a)
      BY <1>1, <2>1 DEF IInv, TableType
    <2>2. CASE Exists(a)
      <3>1. PICK m \in Manifests : m = apps[a].man
        BY <1>7, <2>2
      <3>2. prov' = Registered(prov, a, m) /\ prov \in SUBSET Entries /\ Once(prov)
        BY <1>1, <2>2, <3>1 DEF IInv, TableType
      <3>3. /\ prov' \in SUBSET Entries /\ Once(prov') /\ Listed(prov', a) = Provided(m)
            /\ \A e \in prov' : e[2] = a \/ e \in prov
            /\ \A b \in AppIds \ {a} : Listed(prov', b) = Listed(prov, b)
        BY <3>2, RegisteredAll
      <3> QED
        BY <2>2, <3>1, <3>3
    <2> QED
      BY <2>1, <2>2
  <1>9. minted[a] + Pending(worker[a]) <= ops + crashes /\ minted[a] \in Nat
        /\ ops \in Nat /\ crashes \in Nat /\ ops <= MaxOps /\ crashes <= MaxCrash
        /\ MaxOps \in Nat /\ MaxCrash \in Nat
    <2>1. minted[a] + Pending(worker[a]) <= ops + crashes
      BY DEF IInv, MintedOK
    <2>2. minted[a] \in Nat
      BY Sizes DEF IInv, AppsType
    <2>3. MaxOps \in Nat /\ MaxCrash \in Nat
      BY ServicesAssumption
    <2>4. ops \in Nat /\ crashes \in Nat /\ ops <= MaxOps /\ crashes <= MaxCrash
      BY <2>3 DEF IInv, BoundsType
    <2> QED
      BY <2>1, <2>2, <2>3, <2>4
  <1>10. minted' \in [AppIds -> Generations] /\ minted'[a] <= ops + crashes /\ minted'[a] \in Nat
         /\ \A b \in AppIds \ {a} : minted'[b] = minted[b]
    <2>1. CASE Exists(a) /\ worker[a] = "build"
      <3>1. minted' = [minted EXCEPT ![a] = minted[a] + 1]
        BY <1>1, <2>1
      <3>2. minted[a] + 1 <= ops + crashes
        BY <1>9, <2>1 DEF Pending
      <3>3. minted[a] + 1 \in Generations
        BY <1>9, <3>2 DEF Generations
      <3> QED
        BY <1>9, <3>1, <3>2, <3>3 DEF IInv, AppsType
    <2>2. CASE ~(Exists(a) /\ worker[a] = "build")
      <3>1. minted' = minted
        BY <1>1, <2>2 DEF IInv, AppsType
      <3>2. minted[a] <= ops + crashes
        <4>1. Pending(worker[a]) \in {0, 1}
          BY PendingIs
        <4> QED
          BY <1>9, <4>1
      <3> QED
        BY <1>9, <3>1, <3>2 DEF IInv, AppsType
    <2> QED
      BY <2>1, <2>2
  <1>11. /\ token' \in [AppIds -> Generations] /\ (Exists(a) => token'[a] = minted'[a])
         /\ \A b \in AppIds \ {a} : token'[b] = token[b]
    BY <1>1, <1>10 DEF IInv, AppsType
  <1>12. AppsType'
    BY <1>2, <1>5, <1>6, <1>10, <1>11 DEF IInv, AppsType
  <1>13. RowsStay /\ DatesStay
    BY <1>1, <1>3, StatusStays DEF IInv
  <1>14. \A b \in AppIds \ {a} : Same(b)
    BY <1>2, <1>5, <1>6, <1>8, <1>10, <1>11 DEF Same
  <1>15. Deployed(a)'
    BY <1>4, <1>5, <1>6, <1>8, <1>11 DEF Deployed
  <1>16. minted'[a] + Pending(worker'[a]) <= ops' + crashes'
    <2>1. Pending(worker'[a]) = 0
      BY <1>4, <1>5
    <2> QED
      BY <1>2, <1>9, <1>10, <2>1
  <1> QED
    BY <1>2, <1>3, <1>8, <1>12, <1>13, <1>14, <1>15, <1>16, WorkStep

-----------------------------------------------------------------------------
(* Installing, removing and crashing                                       *)

LEMMA PortIsFree ==
    ASSUME FreePorts # {}
    PROVE  /\ Min(FreePorts) \in Ports
           /\ \A b \in AppIds : Exists(b) => port[b] # Min(FreePorts)
  <1>1. FreePorts \in SUBSET Nat
    BY Sizes DEF FreePorts
  <1>2. Min(FreePorts) \in FreePorts
    BY <1>1, MinIsThere
  <1> QED
    BY <1>2 DEF FreePorts

LEMMA InstallStep == IInv /\ Install => IInv'
  <1> SUFFICES ASSUME IInv, Install PROVE IInv'
    OBVIOUS
  <1>1. PICK a \in AppIds \ used, n \in Names, m \in Manifests, ticked \in SUBSET ServiceUrls :
             /\ FreePorts # {} /\ ops < MaxOps /\ ops' = ops + 1
             /\ used' = used \cup {a}
             /\ port' = [port EXCEPT ![a] = Min(FreePorts)]
             /\ apps' = [apps EXCEPT ![a] = [name |-> n, made |-> clock \div 2, man |-> m,
                                             status |-> "building", cid |-> FALSE]]
             /\ minted' = [minted EXCEPT ![a] = 1] /\ token' = [token EXCEPT ![a] = 1]
             /\ prov' = Registered(prov, a, m)
             /\ perms' = perms \cup {[con |-> a, svc |-> s, scope |-> "global", to |-> None] :
                                     s \in ticked}
             /\ worker' = [worker EXCEPT ![a] = "first build"]
    BY ZenonT(60) DEF Install, OwnerRequest
  <1>2. UNCHANGED <<clock, owner, box, pick, calls, crashes>>
    BY DEF Install
  <1>3. Later
    BY <1>1, <1>2, OneOperation DEF IInv
  <1> DEFINE r == [name |-> n, made |-> clock \div 2, man |-> m, status |-> "building", cid |-> FALSE]
  <1>4. clock \in Nat /\ clock \div 2 \in Nat
    BY DEF IInv, BoundsType
  <1>5. r \in Row /\ r.made = clock \div 2 /\ r.status = "building" /\ ~r.cid
    BY <1>4 DEF Row, Statuses
  <1>6. r # None
    BY <1>5, NoneAssumption
  <1>7. apps[a] = None /\ worker[a] = "none" /\ box[a] = None
    BY DEF IInv, IdsOK
  <1>8. apps' = [apps EXCEPT ![a] = r]
    BY <1>1
  <1> HIDE DEF r
  <1>9. /\ apps' \in [AppIds -> Row \cup {None}] /\ apps'[a] = r
        /\ \A b \in AppIds \ {a} : apps'[b] = apps[b]
    BY <1>5, <1>8 DEF IInv, AppsType
  <1>10. /\ worker' \in [AppIds -> Workers] /\ worker'[a] = "first build"
         /\ \A b \in AppIds \ {a} : worker'[b] = worker[b]
    BY <1>1 DEF IInv, AppsType, Workers
  <1>11. 1 \in Generations
    BY ServicesAssumption DEF Generations
  <1>12. /\ minted' \in [AppIds -> Generations] /\ minted'[a] = 1
         /\ token' \in [AppIds -> Generations]
         /\ \A b \in AppIds \ {a} : minted'[b] = minted[b] /\ token'[b] = token[b]
    BY <1>1, <1>11 DEF IInv, AppsType
  <1>13. /\ port' \in [AppIds -> {0} \cup Ports] /\ port'[a] = Min(FreePorts)
         /\ \A b \in AppIds \ {a} : port'[b] = port[b]
    BY <1>1, PortIsFree DEF IInv, AppsType
  <1>14. AppsType'
    BY <1>1, <1>2, <1>9, <1>10, <1>12, <1>13 DEF IInv, AppsType
  <1>15. /\ prov' \in SUBSET Entries /\ Once(prov') /\ \A e \in prov' : e[2] = a \/ e \in prov
         /\ \A b \in AppIds \ {a} : Listed(prov', b) = Listed(prov, b)
    <2>1. prov \in SUBSET Entries /\ Once(prov)
      BY DEF IInv, TableType
    <2>2. /\ Registered(prov, a, m) \in SUBSET Entries /\ Once(Registered(prov, a, m))
          /\ \A e \in Registered(prov, a, m) : e[2] = a \/ e \in prov
          /\ \A b \in AppIds \ {a} : Listed(Registered(prov, a, m), b) = Listed(prov, b)
      BY <2>1, RegisteredAll
    <2>3. prov' = Registered(prov, a, m)
      BY <1>1
    <2> QED
      BY <2>2, <2>3
  <1>16. /\ \A b \in AppIds : Exists(b) => Exists(b)'
         /\ Exists(a)'
    BY <1>6, <1>7, <1>9 DEF Exists
  <1>17. TableType'
    <2>1. \A e \in prov' : Exists(e[2])'
      <3> SUFFICES ASSUME NEW e \in prov' PROVE Exists(e[2])'
        OBVIOUS
      <3>1. e[2] \in AppIds
        BY <1>15 DEF Entries
      <3>2. e[2] = a \/ Exists(e[2])
        BY <1>15 DEF IInv, TableType
      <3> QED
        BY <1>16, <3>1, <3>2
    <2>2. perms' \subseteq Grant /\ \A g \in perms' : Exists(g.con)'
      <3>1. \A g \in perms : g \in Grant /\ g.con \in AppIds /\ Exists(g.con)
        BY DEF IInv, TableType, Grant
      <3>2. \A g \in perms : Exists(g.con)'
        BY <1>16, <3>1
      <3>3. \A s \in ServiceUrls :
               [con |-> a, svc |-> s, scope |-> "global", to |-> None] \in Grant
        BY DEF Grant, Scopes
      <3>4. ASSUME NEW g \in perms', g \notin perms PROVE g \in Grant /\ g.con = a
        <4>1. PICK s \in ticked : g = [con |-> a, svc |-> s, scope |-> "global", to |-> None]
          BY <1>1, <3>4
        <4>2. s \in ServiceUrls /\ g.con = a
          BY <4>1
        <4> QED
          BY <3>3, <4>1, <4>2
      <3> QED
        BY <1>16, <3>1, <3>2, <3>4
    <2>3. \A s \in ServiceUrls : pick'[s] # None => apps'[pick'[s]] # None
      <3> SUFFICES ASSUME NEW s \in ServiceUrls, pick[s] # None PROVE apps'[pick[s]] # None
        BY <1>2
      <3>1. pick[s] \in AppIds /\ Exists(pick[s])
        BY DEF IInv, TableType
      <3> QED
        BY <1>16, <3>1 DEF Exists
    <2>4. pick' \in [ServiceUrls -> AppIds \cup {None}]
      BY <1>2 DEF IInv, TableType
    <2> QED
      BY <1>15, <2>1, <2>2, <2>3, <2>4 DEF TableType, Exists
  <1>18. OwnerType' /\ SessionsOK' /\ CallsType'
    BY <1>2 DEF IInv, OwnerType, SessionsOK, CallsType, owner
  <1>19. IdsOK'
    BY <1>1, <1>2, <1>9, <1>10 DEF IInv, IdsOK
  <1>20. DeployOK'
    <2> SUFFICES ASSUME NEW b \in AppIds PROVE Deployed(b)'
      BY DEF DeployOK
    <2>1. CASE b = a
      BY <1>5, <1>9, <1>10, <2>1 DEF Deployed
    <2>2. CASE b # a
      BY <1>2, <1>9, <1>10, <1>12, <1>15, <2>2, SameDeployed DEF IInv, DeployOK, Same
    <2> QED
      BY <2>1, <2>2
  <1>21. MintedOK'
    <2> SUFFICES ASSUME NEW b \in AppIds
                 PROVE  minted'[b] + Pending(worker'[b]) <= ops' + crashes'
      BY DEF MintedOK
    <2>1. CASE b = a
      <3>1. minted'[b] = 1 /\ Pending(worker'[b]) = 0
        BY <1>10, <1>12, <2>1 DEF Pending
      <3>2. ops \in Nat /\ crashes \in Nat
        BY DEF IInv, BoundsType
      <3>3. 1 + 0 <= ops + 1 + crashes
        BY <3>2
      <3>4. ops' = ops + 1 /\ crashes' = crashes
        BY <1>1, <1>2
      <3> QED
        BY <3>1, <3>3, <3>4
    <2>2. CASE b # a
      <3>1. minted'[b] = minted[b] /\ worker'[b] = worker[b]
        BY <1>10, <1>12, <2>2
      <3>2. ops' = ops + 1 /\ crashes' = crashes
        BY <1>1, <1>2
      <3> QED
        BY <1>3, <3>1, <3>2, NotMinted
    <2> QED
      BY <2>1, <2>2
  <1>22. PortsOK'
    <2> SUFFICES ASSUME NEW b \in AppIds, NEW c \in AppIds, Exists(b)', Exists(c)', b # c
                 PROVE  port'[b] # port'[c]
      BY DEF PortsOK
    <2>1. \A d \in AppIds \ {a} : Exists(d)' => Exists(d) /\ port'[d] = port[d]
      BY <1>9, <1>13 DEF Exists
    <2>2. \A d \in AppIds \ {a} : Exists(d)' => port'[d] # port'[a]
      BY <1>1, <1>13, <2>1, PortIsFree
    <2> QED
      BY <2>1, <2>2 DEF IInv, PortsOK
  <1>23. Lasts
    BY <1>1, <1>9 DEF Lasts, Exists, IInv, AppsType
  <1>24. CallsOK'
    BY <1>2, <1>23, CallsLast DEF IInv
  <1>25. MadeOK'
    <2> SUFFICES ASSUME NEW b \in AppIds, Exists(b)' PROVE apps'[b].made <= clock \div 2
      BY <1>2 DEF MadeOK
    <2>1. CASE b = a
      BY <1>4, <1>5, <1>9, <2>1
    <2>2. CASE b # a
      BY <1>9, <2>2 DEF IInv, MadeOK, Exists
    <2> QED
      BY <2>1, <2>2
  <1> QED
    BY <1>3, <1>14, <1>15, <1>17, <1>18, <1>19, <1>20, <1>21, <1>22, <1>24, <1>25 DEF IInv, Later

LEMMA RemoveDeleteStep == IInv /\ RemoveDelete => IInv'
  <1> SUFFICES ASSUME IInv, RemoveDelete PROVE IInv'
    OBVIOUS
  <1>1. PICK a \in AppIds :
             /\ Status(a) = "removing"
             /\ box' = IF apps[a].cid THEN [box EXCEPT ![a] = None] ELSE box
             /\ apps' = [apps EXCEPT ![a] = None]
             /\ token' = [token EXCEPT ![a] = 0]
             /\ prov' = {e \in prov : e[2] # a}
             /\ perms' = {g \in perms : g.con # a}
             /\ pick' = [s \in ServiceUrls |-> IF pick[s] = a THEN None ELSE pick[s]]
    BY DEF RemoveDelete
  <1>2. UNCHANGED <<clock, owner, used, minted, port, worker, calls>> /\ UNCHANGED <<ops, crashes>>
    BY DEF RemoveDelete, bounds
  <1>3. Later
    BY <1>2, NothingLater DEF IInv
  <1>4. Exists(a) /\ a \in used
    BY <1>1, ExistsBy, UsedIds
  <1>5. /\ apps' \in [AppIds -> Row \cup {None}] /\ apps'[a] = None
        /\ \A b \in AppIds \ {a} : apps'[b] = apps[b]
    BY <1>1 DEF IInv, AppsType
  <1>6. /\ box' \in [AppIds -> Container \cup {None}]
        /\ \A b \in AppIds \ {a} : box'[b] = box[b]
    BY <1>1 DEF IInv, AppsType
  <1>7. 0 \in Generations
    BY ServicesAssumption DEF Generations
  <1>8. token' \in [AppIds -> Generations] /\ \A b \in AppIds \ {a} : token'[b] = token[b]
    BY <1>1, <1>7 DEF IInv, AppsType
  <1>9. AppsType'
    BY <1>2, <1>5, <1>6, <1>8 DEF IInv, AppsType
  <1>10. /\ prov' \in SUBSET Entries /\ Once(prov')
         /\ \A b \in AppIds \ {a} : Listed(prov', b) = Listed(prov, b)
    <2>1. prov \in SUBSET Entries /\ Once(prov)
      BY DEF IInv, TableType
    <2> DEFINE left == {e \in prov : e[2] # a}
    <2>2. left \in SUBSET Entries /\ Once(left) /\ \A b \in AppIds \ {a} : Listed(left, b) = Listed(prov, b)
      BY <2>1, UnlistedAll
    <2>3. prov' = left
      BY <1>1
    <2> HIDE DEF left
    <2> QED
      BY <2>2, <2>3
  <1>11. \A b \in AppIds \ {a} : Exists(b) => Exists(b)'
    BY <1>5 DEF Exists
  <1>12. TableType'
    <2>1. \A e \in prov' : Exists(e[2])'
      <3> SUFFICES ASSUME NEW e \in prov' PROVE Exists(e[2])'
        OBVIOUS
      <3>1. e[2] \in AppIds \ {a} /\ Exists(e[2])
        BY <1>1, <1>10 DEF IInv, TableType, Entries
      <3> QED
        BY <1>11, <3>1
    <2>2. perms' \subseteq Grant /\ \A g \in perms' : Exists(g.con)'
      <3>1. \A g \in perms' : g \in Grant /\ g.con \in AppIds \ {a} /\ Exists(g.con)
        BY <1>1 DEF IInv, TableType, Grant
      <3> QED
        BY <1>11, <3>1
    <2>3. pick' \in [ServiceUrls -> AppIds \cup {None}]
      BY <1>1 DEF IInv, TableType
    <2>4. \A s \in ServiceUrls : pick'[s] # None => apps'[pick'[s]] # None
      <3> SUFFICES ASSUME NEW s \in ServiceUrls, pick'[s] # None PROVE apps'[pick'[s]] # None
        OBVIOUS
      <3>1. pick[s] # a /\ pick'[s] = pick[s]
        BY <1>1
      <3>2. pick[s] \in AppIds \ {a} /\ Exists(pick[s])
        BY <3>1 DEF IInv, TableType
      <3> QED
        BY <1>11, <3>1, <3>2 DEF Exists
    <2> QED
      BY <1>10, <2>1, <2>2, <2>3, <2>4 DEF TableType, Exists
  <1>13. OwnerType' /\ SessionsOK' /\ CallsType'
    BY <1>2 DEF IInv, OwnerType, SessionsOK, CallsType, owner
  <1>14. IdsOK'
    BY <1>2, <1>4, <1>5, <1>6 DEF IInv, IdsOK
  <1>15. DeployOK'
    <2> SUFFICES ASSUME NEW b \in AppIds PROVE Deployed(b)'
      BY DEF DeployOK
    <2>1. CASE b = a
      BY <1>5, <2>1 DEF Deployed, Exists
    <2>2. CASE b # a
      BY <1>2, <1>5, <1>6, <1>8, <1>10, <2>2, SameDeployed DEF IInv, DeployOK, Same
    <2> QED
      BY <2>1, <2>2
  <1>16. MintedOK'
    BY <1>2, <1>3, MintedLasts DEF IInv
  <1>17. PortsOK' /\ MadeOK'
    BY <1>2, <1>5 DEF IInv, PortsOK, MadeOK, Exists
  <1>18. Lasts
    BY <1>2, <1>5 DEF Lasts, Exists, IInv, AppsType
  <1>19. CallsOK'
    BY <1>2, <1>18, CallsLast DEF IInv
  <1> QED
    BY <1>3, <1>9, <1>10, <1>12, <1>13, <1>14, <1>15, <1>16, <1>17, <1>19 DEF IInv, Later

\* What check_app_status makes of a row, given whether its container is alive.
LEMMA RecoveredIs ==
    ASSUME IInv, NEW b \in AppIds, NEW alive \in BOOLEAN, Exists(b)
    PROVE  LET r == Recovered(b, alive)
           IN /\ r.st \in Statuses /\ r.w \in {"none", "build"} /\ r.st # "building"
              /\ r.st = "running" => r.w = "none" /\ apps[b].status = "running"
  <1>1. Status(b) = apps[b].status /\ apps[b].status \in Statuses
    BY ExistsBy DEF Exists, IInv, AppsType, Row
  <1>2. apps[b].status = "building" => ~apps[b].cid
    BY DEF IInv, DeployOK, Deployed
  <1> QED
    BY <1>1, <1>2 DEF Recovered, Statuses

LEMMA CrashStep == IInv /\ Crash => IInv'
  <1> SUFFICES ASSUME IInv, Crash PROVE IInv'
    OBVIOUS
  <1>1. PICK reboot \in BOOLEAN :
             /\ crashes < MaxCrash /\ crashes' = crashes + 1
             /\ calls' = [c \in Calls |-> Idle]
             /\ box' = [a \in AppIds |-> IF reboot THEN None ELSE box[a]]
             /\ apps' = [a \in AppIds |->
                           IF Exists(a) THEN [apps[a] EXCEPT !.status = Recovered(a, box'[a] # None).st]
                           ELSE None]
             /\ worker' = [a \in AppIds |-> Recovered(a, box'[a] # None).w]
    BY DEF Crash
  <1>2. UNCHANGED <<clock, owner, used, minted, token, port, table, ops>>
    BY DEF Crash
  <1>3. Later
    <2>1. ops \in Nat /\ crashes \in Nat /\ clock \in Nat /\ MaxCrash \in Nat
      BY ServicesAssumption DEF IInv, BoundsType
    <2>2. crashes' \in 0..MaxCrash
      BY <1>1, <2>1
    <2>3. BoundsType'
      BY <1>2, <2>2 DEF IInv, BoundsType
    <2>4. clock <= clock'
      BY <1>2, <2>1
    <2>5. ops + crashes <= ops' + crashes'
      BY <1>1, <1>2, <2>1
    <2> QED
      BY <2>3, <2>4, <2>5 DEF Later
  <1>4. \A b \in AppIds : /\ box'[b] \in Container \cup {None} /\ (box'[b] # None => box'[b] = box[b])
    BY <1>1 DEF IInv, AppsType
  <1>5. ASSUME NEW b \in AppIds, Exists(b)
        PROVE  /\ apps'[b] \in Row /\ apps'[b].made = apps[b].made
               /\ apps'[b].status # "building" /\ worker'[b] \in {"none", "build"}
               /\ apps'[b].status = "running" => worker'[b] = "none" /\ apps[b].status = "running"
    <2> DEFINE r == Recovered(b, box'[b] # None)
    <2>1. /\ r.st \in Statuses /\ r.w \in {"none", "build"} /\ r.st # "building"
          /\ r.st = "running" => r.w = "none" /\ apps[b].status = "running"
      <3>1. (box'[b] # None) \in BOOLEAN
        OBVIOUS
      <3> QED
        BY <1>5, <3>1, RecoveredIs
    <2>2. apps'[b] = [apps[b] EXCEPT !.status = r.st] /\ worker'[b] = r.w
      BY <1>1, <1>5
    <2>3. apps[b] \in Row
      BY <1>5 DEF Exists, IInv, AppsType
    <2> HIDE DEF r
    <2>4. apps'[b] \in Row /\ apps'[b].made = apps[b].made /\ apps'[b].status = r.st
      BY <2>1, <2>2, <2>3 DEF Row
    <2> QED
      BY <2>1, <2>2, <2>4
  <1>6. ASSUME NEW b \in AppIds, ~Exists(b)
        PROVE  apps'[b] = None /\ worker'[b] = "none"
    <2>1. Status(b) = "none"
      BY <1>6 DEF Status
    <2>2. Recovered(b, box'[b] # None).w = "none"
      BY <2>1 DEF Recovered
    <2> QED
      BY <1>1, <1>6, <2>2
  <1>7. RowsStay /\ DatesStay
    BY <1>5, <1>6, NoneAssumption DEF RowsStay, DatesStay, Exists
  <1>8. AppsType'
    <2>1. apps' \in [AppIds -> Row \cup {None}]
      <3>1. \A b \in AppIds : apps'[b] \in Row \cup {None}
        BY <1>5, <1>6
      <3>2. apps' = [b \in AppIds |-> apps'[b]]
        BY <1>1
      <3> QED
        BY <3>1, <3>2
    <2>2. worker' \in [AppIds -> Workers]
      <3>1. \A b \in AppIds : worker'[b] \in Workers
        BY <1>5, <1>6 DEF Workers
      <3>2. worker' = [b \in AppIds |-> worker'[b]]
        BY <1>1
      <3> QED
        BY <3>1, <3>2
    <2>3. box' \in [AppIds -> Container \cup {None}]
      BY <1>1 DEF IInv, AppsType
    <2> QED
      BY <1>2, <2>1, <2>2, <2>3 DEF IInv, AppsType
  <1>9. OwnerType' /\ SessionsOK' /\ Once(prov)'
    BY <1>2 DEF IInv, OwnerType, SessionsOK, owner, table, Once
  <1>10. CallsType' /\ CallsOK'
    BY <1>1 DEF CallsType, CallsOK
  <1>11. TableType'
    <2>1. prov' = prov /\ perms' = perms /\ pick' = pick
      BY <1>2 DEF table
    <2>2. \A g \in perms : g.con \in AppIds /\ Exists(g.con)
      BY DEF IInv, TableType, Grant
    <2>3. \A e \in prov : e[2] \in AppIds /\ Exists(e[2])
      BY DEF IInv, TableType, Entries
    <2>4. \A s \in ServiceUrls : pick[s] # None => pick[s] \in AppIds /\ Exists(pick[s])
      BY DEF IInv, TableType
    <2>5. \A b \in AppIds : Exists(b) => apps'[b] # None
      BY <1>7 DEF RowsStay, Exists
    <2>6. /\ \A g \in perms : apps'[g.con] # None
          /\ \A e \in prov : apps'[e[2]] # None
          /\ \A s \in ServiceUrls : pick[s] # None => apps'[pick[s]] # None
      BY <2>2, <2>3, <2>4, <2>5
    <2> QED
      BY <2>1, <2>6 DEF IInv, TableType, Exists
  <1>12. IdsOK'
    BY <1>1, <1>2, <1>6 DEF IInv, IdsOK, Exists
  <1>13. DeployOK'
    <2> SUFFICES ASSUME NEW b \in AppIds, Exists(b)' PROVE Deployed(b)'
      BY DEF DeployOK, Deployed
    <2>1. Exists(b)
      BY <1>7 DEF RowsStay
    <2>2. apps'[b].status = "running" => worker'[b] = "none" /\ Fits(b)'
      <3> SUFFICES ASSUME apps'[b].status = "running" PROVE Fits(b)'
        BY <1>5, <2>1
      <3>1. Fits(b)
        BY <1>5, <2>1 DEF IInv, DeployOK, Deployed
      <3> QED
        BY <1>2, <1>4, <3>1 DEF Fits, table
    <2> QED
      BY <1>5, <2>1, <2>2 DEF Deployed
  <1>14. MintedOK'
    <2> SUFFICES ASSUME NEW b \in AppIds
                 PROVE  minted'[b] + Pending(worker'[b]) <= ops' + crashes'
      BY DEF MintedOK
    <2>1. minted[b] + Pending(worker[b]) <= ops + crashes
      BY DEF IInv, MintedOK
    <2>2. minted[b] \in Nat
      BY Sizes DEF IInv, AppsType
    <2>3. Pending(worker[b]) \in Nat /\ Pending(worker'[b]) \in Nat /\ Pending(worker'[b]) <= 1
      <3>1. Pending(worker[b]) \in {0, 1} /\ Pending(worker'[b]) \in {0, 1}
        BY PendingIs
      <3> QED
        BY <3>1
    <2>4. ops \in Nat /\ crashes \in Nat
      BY DEF IInv, BoundsType
    <2>5. \A m, p, q, o, c \in Nat : m + p <= o + c /\ q <= 1 => m + q <= o + (c + 1)
      OBVIOUS
    <2>6. minted[b] + Pending(worker'[b]) <= ops + (crashes + 1)
      BY <2>1, <2>2, <2>3, <2>4, <2>5, Zenon
    <2> QED
      BY <1>1, <1>2, <2>6
  <1>15. PortsOK' /\ MadeOK'
    BY <1>2, <1>7 DEF IInv, PortsOK, MadeOK, RowsStay, DatesStay
  <1> QED
    BY <1>3, <1>8, <1>9, <1>10, <1>11, <1>12, <1>13, <1>14, <1>15 DEF IInv, Later

-----------------------------------------------------------------------------
(* Service calls                                                           *)

LEMMA ConsumersAreApps == ASSUME NEW con \in Consumers \ {None} PROVE con \in AppIds
  <1>1. CASE \E a \in AppIds : con = AppAuth(FALSE, FALSE, None, AppOfToken(a), None)
    BY <1>1 DEF AppAuth, AppOfToken
  <1>2. CASE \E n \in Names : con = AppAuth(\E s \in sessions : ValidSession(s), FALSE, PageApp(n), None, None)
    <2>1. PICK n \in Names : con = AppAuth(\E s \in sessions : ValidSession(s), FALSE, PageApp(n), None, None)
      BY <1>2
    <2>2. con = PageApp(n)
      BY <2>1 DEF AppAuth
    <2>3. \E a \in AppIds : Exists(a) /\ apps[a].name = n
      BY <2>2 DEF PageApp
    <2> QED
      BY <2>2, <2>3 DEF PageApp
  <1> QED
    BY <1>1, <1>2 DEF Consumers

LEMMA ArriveStep == IInv /\ Arrive => IInv'
  <1> SUFFICES ASSUME IInv, Arrive PROVE IInv'
    OBVIOUS
  <1>1. PICK c \in Calls, con \in Consumers \ {None}, s \in ServiceUrls,
             target \in AppIds \cup {Router} :
             calls' = [calls EXCEPT ![c] =
                [st |-> "body", con |-> con, svc |-> s, to |-> target,
                 grants |-> GrantsFor(con, s, target), got |-> None]]
             /\ (target # Router => Exists(target))
    <2>1. PICK c \in Calls, con \in Consumers \ {None}, s \in ServiceUrls,
               pinned \in AppIds \cup {Router, None} :
             LET target == IF pinned = None THEN Default(s) ELSE pinned
             IN /\ Resolves(s, target, apps[con].man.needs[s])
                /\ calls' = [calls EXCEPT ![c] =
                     [st |-> "body", con |-> con, svc |-> s, to |-> target,
                      grants |-> GrantsFor(con, s, target), got |-> None]]
      BY ZenonT(60) DEF Arrive
    <2> DEFINE target == IF pinned = None THEN Default(s) ELSE pinned
    <2>2. target = Router \/ (target \in AppIds /\ Exists(target))
      <3>1. Resolves(s, target, apps[con].man.needs[s])
        BY <2>1
      <3> HIDE DEF target
      <3>2. \A e \in Live(s) : e[2] \in AppIds /\ Exists(e[2])
        BY DEF Live, IInv, TableType, Entries
      <3> QED
        BY <3>1, <3>2 DEF Resolves
    <2> HIDE DEF target
    <2>3. calls' = [calls EXCEPT ![c] =
                     [st |-> "body", con |-> con, svc |-> s, to |-> target,
                      grants |-> GrantsFor(con, s, target), got |-> None]]
      BY <2>1 DEF target
    <2> QED
      BY <2>2, <2>3
  <1>2. UNCHANGED <<clock, owner, rows, worker, box, table, bounds>>
    BY DEF Arrive
  <1> DEFINE q == [st |-> "body", con |-> con, svc |-> s, to |-> target,
                   grants |-> GrantsFor(con, s, target), got |-> None]
  <1>3. GrantsFor(con, s, target) \subseteq Grant
        /\ \A g \in GrantsFor(con, s, target) : g.scope = "app" => g.to = target
    BY DEF GrantsFor, IInv, TableType
  <1>4. con \in AppIds
    BY ConsumersAreApps
  <1>5. q \in Call
    BY <1>3, <1>4 DEF Call
  <1>6. CallOK(q)
    <2>1. target \in used \cup {Router}
      BY <1>1, UsedIds
    <2> QED
      BY <1>3, <2>1 DEF CallOK
  <1>7. calls' = [calls EXCEPT ![c] = q]
    BY <1>1
  <1> HIDE DEF q
  <1>8. \A d \in Calls : calls'[d] = calls[d] \/ calls'[d] = q
    BY <1>7 DEF IInv, CallsType
  <1>9. CallsType'
    BY <1>5, <1>7 DEF IInv, CallsType
  <1>10. CallsOK'
    <2>1. \A x : CallOK(x) => CallOK(x)'
      BY <1>2 DEF CallOK, Gone, Exists, rows
    <2>2. \A d \in Calls : calls'[d] = Idle \/ CallOK(calls'[d])
      BY <1>6, <1>8 DEF IInv, CallsOK
    <2> QED
      BY <2>1, <2>2 DEF CallsOK
  <1> QED
    BY <1>2, <1>9, <1>10, CallStep

LEMMA SendStep == IInv /\ Send => IInv'
  <1> SUFFICES ASSUME IInv, Send PROVE IInv'
    OBVIOUS
  <1>1. PICK c \in Calls :
             /\ calls[c].st = "body"
             /\ LET got == IF calls[c].to = Router THEN Router ELSE Listener(port[calls[c].to])
                IN calls' = [calls EXCEPT ![c] =
                     IF got = None THEN Idle ELSE [@ EXCEPT !.st = "sent", !.got = got]]
    BY DEF Send
  <1>2. UNCHANGED <<clock, owner, rows, worker, box, table, bounds>>
    BY DEF Send
  <1> DEFINE q == calls[c]
  <1> DEFINE got == IF q.to = Router THEN Router ELSE Listener(port[q.to])
  <1> DEFINE n == IF got = None THEN Idle ELSE [q EXCEPT !.st = "sent", !.got = got]
  <1>3. q \in Call /\ CallOK(q)
    <2>1. q # Idle
      BY <1>1 DEF Idle
    <2> QED
      BY <2>1 DEF IInv, CallsType, CallsOK
  <1>4. calls' = [calls EXCEPT ![c] = n]
    BY <1>1
  <1> HIDE DEF q
  <1>5. got # None /\ q.to # Router =>
          got \in AppIds /\ box[got] # None /\ port[got] = port[q.to] /\ got \in used
    <2> SUFFICES ASSUME got # None, q.to # Router
                 PROVE  got \in AppIds /\ box[got] # None /\ port[got] = port[q.to] /\ got \in used
      OBVIOUS
    <2>1. got = Listener(port[q.to]) /\ Bound(port[q.to])
      BY DEF Listener
    <2>2. got \in AppIds /\ box[got] # None /\ port[got] = port[q.to]
      BY <2>1 DEF Listener, Bound
    <2> HIDE DEF got
    <2>3. got \in used
      BY <2>2 DEF IInv, IdsOK
    <2> QED
      BY <2>2, <2>3
  <1>6. q.to = Router => got = Router
    OBVIOUS
  <1>7. n = Idle \/ (n \in Call /\ n.st = "sent" /\ n.to = q.to /\ n.grants = q.grants /\ n.got = got
                     /\ got # None)
    BY <1>3, <1>5 DEF Call
  <1> HIDE DEF got, n
  <1>8. n = Idle \/ CallOK(n)
    <2> SUFFICES ASSUME n # Idle PROVE CallOK(n)
      OBVIOUS
    <2>1. n.st = "sent" /\ n.to = q.to /\ n.grants = q.grants /\ n.got = got /\ got # None
      BY <1>7
    <2>2. q.to \in used \cup {Router} /\ \A g \in q.grants : g.scope = "app" => g.to = q.to
      BY <1>3 DEF CallOK
    <2>3. got \in used \cup {Router}
      BY <1>5, <1>6, <2>1
    <2>4. ~Gone(q.to) /\ ~Gone(got) => got = q.to
      <3> SUFFICES ASSUME ~Gone(q.to), ~Gone(got), q.to # Router PROVE got = q.to
        BY <1>6
      <3>1. got \in AppIds /\ port[got] = port[q.to] /\ Exists(got)
        BY <1>5, <2>1 DEF Gone
      <3>2. q.to \in AppIds /\ Exists(q.to)
        BY <2>2 DEF Gone, IInv, AppsType
      <3> QED
        BY <3>1, <3>2 DEF IInv, PortsOK
    <2> QED
      BY <2>1, <2>2, <2>3, <2>4 DEF CallOK
  <1>9. \A d \in Calls : calls'[d] = calls[d] \/ calls'[d] = n
    BY <1>4 DEF IInv, CallsType
  <1>10. CallsType'
    BY <1>4, <1>7 DEF IInv, CallsType
  <1>11. CallsOK'
    <2>1. \A x : CallOK(x) => CallOK(x)'
      BY <1>2 DEF CallOK, Gone, Exists, rows
    <2>2. \A d \in Calls : calls'[d] = Idle \/ CallOK(calls'[d])
      BY <1>8, <1>9 DEF IInv, CallsOK
    <2> QED
      BY <2>1, <2>2 DEF CallsOK
  <1> QED
    BY <1>2, <1>10, <1>11, CallStep

LEMMA AnswerStep == IInv /\ Answer => IInv'
  <1> SUFFICES ASSUME IInv, Answer PROVE IInv'
    OBVIOUS
  <1>1. PICK c \in Calls : calls' = [calls EXCEPT ![c] = Idle]
    BY DEF Answer
  <1>2. UNCHANGED <<clock, owner, rows, worker, box, table, bounds>>
    BY DEF Answer
  <1>3. \A d \in Calls : calls'[d] = calls[d] \/ calls'[d] = Idle
    BY <1>1 DEF IInv, CallsType
  <1>4. CallsType'
    BY <1>1 DEF IInv, CallsType
  <1>5. CallsOK'
    <2>1. \A x : CallOK(x) => CallOK(x)'
      BY <1>2 DEF CallOK, Gone, Exists, rows
    <2>2. \A d \in Calls : calls'[d] = Idle \/ CallOK(calls'[d])
      BY <1>3 DEF IInv, CallsOK
    <2> QED
      BY <2>1, <2>2 DEF CallsOK
  <1> QED
    BY <1>2, <1>4, <1>5, CallStep

-----------------------------------------------------------------------------
(* The theorems                                                            *)

LEMMA StepOK == IInv /\ [Next]_vars => IInv'
  <1> SUFFICES ASSUME IInv, [Next]_vars PROVE IInv'
    OBVIOUS
  <1>1. CASE UNCHANGED vars
    <2>1. UNCHANGED <<clock, owner, rows, worker, box, table, bounds>> /\ calls' = calls
      BY <1>1 DEF vars
    <2>2. CallsType'
      BY <2>1 DEF IInv, CallsType
    <2>3. \A x : CallOK(x) => CallOK(x)'
      BY <2>1 DEF CallOK, Gone, Exists, rows
    <2>4. CallsOK'
      BY <2>1, <2>3 DEF IInv, CallsOK
    <2> QED
      BY <2>1, <2>2, <2>4, CallStep
  <1>2. CASE Next
    BY <1>2, LoginStep, LogoutStep, KeyStep, TickStep, DefaultsStep, InstallStep, ReloadStep,
       ReloadSyncStep, MarkStartingStep, BuildFailsStep, LaunchStep, RunStep, SettleStep, StopStep,
       RemoveClaimStep, RemoveDeleteStep, CrashStep, GrantsStep, ArriveStep, SendStep, AnswerStep
    DEF Next
  <1> QED
    BY <1>1, <1>2

LEMMA Inductive == Spec => []IInv
  BY InitOK, StepOK, PTL DEF Spec

(* Services.tla's variables have their types, and every row that refers to *)
(* an app - provider, choice, grant - names one that is installed.         *)
THEOREM ServicesTypeCorrect == Spec => []TypeOK
  <1>1. IInv => TypeOK
    BY DEF IInv, TypeOK, BoundsType, OwnerType, AppsType, TableType, CallsType, Workers, Entries, Call
  <1> QED
    BY <1>1, Inductive, PTL

(* validate_session_token, create_session: a session lasts exactly until   *)
(* its expiry or its logout, whatever is swept meanwhile.                  *)
THEOREM SessionsLastAlways == Spec => []SessionsLast
  <1>1. IInv => SessionsLast
    <2> SUFFICES ASSUME IInv, NEW s \in Sessions, expires[s] # None
                 PROVE  ValidSession(s) <=> s \notin loggedOut /\ expires[s] >= clock
      BY DEF SessionsLast
    <2>1. expires[s] \in Nat /\ clock \in Nat
      BY DEF IInv, OwnerType, BoundsType
    <2>2. s \in sessions => s \notin loggedOut
      BY DEF IInv, SessionsOK
    <2>3. s \notin sessions /\ s \notin loggedOut => expires[s] < clock
      BY DEF IInv, SessionsOK
    <2> QED
      BY <2>1, <2>2, <2>3 DEF ValidSession
  <1> QED
    BY <1>1, Inductive, PTL

(* run_app_image: the container of a running app holds the token the       *)
(* router accepts.                                                         *)
THEOREM TokenWorksAlways == Spec => []TokenWorks
  <1>1. IInv => TokenWorks
    <2> SUFFICES ASSUME IInv, NEW a \in AppIds, Status(a) = "running", box[a] # None
                 PROVE  AppOfToken(a) = a
      BY DEF TokenWorks
    <2>1. Exists(a) /\ apps[a].status = "running"
      BY ExistsBy
    <2>2. box[a].token = token[a]
      BY <2>1 DEF IInv, DeployOK, Deployed, Fits
    <2> QED
      BY <2>1, <2>2 DEF AppOfToken
  <1> QED
    BY <1>1, Inductive, PTL

(* register_services_provided_by_app: a running app is registered for what *)
(* its container was built from.                                           *)
THEOREM RegisteredAlways == Spec => []RegisteredAsRun
  <1>1. IInv => RegisteredAsRun
    <2> SUFFICES ASSUME IInv, NEW a \in AppIds, Status(a) = "running", box[a] # None
                 PROVE  Listed(prov, a) = Provided(box[a].man)
      BY DEF RegisteredAsRun, Listed, Provided
    <2>1. Exists(a) /\ apps[a].status = "running"
      BY ExistsBy
    <2> QED
      BY <2>1 DEF IInv, DeployOK, Deployed, Fits
  <1> QED
    BY <1>1, Inductive, PTL

(* service_call: of the installed apps a request reaches only the provider *)
(* it was resolved for, with grants aimed at nobody else.                  *)
THEOREM DeliveredAlways == Spec => []DeliveredAsResolved
  <1>1. IInv => DeliveredAsResolved
    <2> SUFFICES ASSUME IInv, NEW c \in Calls, calls[c].st = "sent",
                        ~Gone(calls[c].to), ~Gone(calls[c].got)
                 PROVE  /\ calls[c].got = calls[c].to
                        /\ \A g \in calls[c].grants : g.scope = "app" => g.to = calls[c].got
      BY DEF DeliveredAsResolved
    <2>1. calls[c] # Idle
      BY DEF Idle
    <2>2. CallOK(calls[c])
      BY <2>1 DEF IInv, CallsOK
    <2> QED
      BY <2>2 DEF CallOK
  <1> QED
    BY <1>1, Inductive, PTL

-----------------------------------------------------------------------------
(* What a session cookie is good for                                       *)

LEMMA SocketsOfOwnPages ==
    ASSUME NEW r \in BrowserRequests, r.kind = "socket", SafeSocket(r) = "yes"
    PROVE  r.by = "self"
  <1>1. OriginHost(r) = "self"
    BY DEF SafeSocket
  <1>2. Origin(r) = "self"
    BY <1>1 DEF OriginHost
  <1> QED
    BY <1>2 DEF Origin, Absent

LEMMA PlainHttpOfOwnPages ==
    ASSUME NEW r \in BrowserRequests, SafePlainHttp(r) = "yes"
    PROVE  r.by = "self"
  <1>1. CASE Origin(r) # Absent
    <2>1. OriginHost(r) = "self"
      BY <1>1 DEF SafePlainHttp
    <2>2. Origin(r) = "self"
      BY <2>1 DEF OriginHost
    <2> QED
      BY <2>2 DEF Origin, Absent
  <1>2. CASE Origin(r) = Absent
    <2>1. Referer(r) = "self"
      BY <1>2 DEF SafePlainHttp
    <2> QED
      BY <2>1 DEF Referer, Absent
  <1> QED
    BY <1>1, <1>2

LEMMA MetadataOfOwnPages ==
    ASSUME NEW r \in BrowserRequests, NEW crossSite \in BOOLEAN,
           r.kind # "socket", Site(r) # Absent, SafeHttp(r, crossSite) = "yes"
    PROVE  \/ r.by \in {"self", "nobody"}
           \/ /\ r.kind = "navigate" /\ r.tls
              /\ r.by = "foreign" \/ r.sandboxed => crossSite
  <1>1. r.by \in Pages /\ r.kind \in Kinds
    BY DEF BrowserRequests
  <1>2. r.tls
    BY DEF Site
  <1>3. CASE r.by \in {"self", "nobody"}
    BY <1>3
  <1>4. CASE r.by \in {"sibling", "foreign"}
    <2>1. Site(r) \in {"same-site", "cross-site"}
      BY <1>2, <1>4 DEF Site, Absent
    <2>2. /\ Site(r) = "same-site" \/ (Site(r) = "cross-site" /\ crossSite)
          /\ Method(r) \in {"GET", "HEAD"} /\ Dest(r) = "document"
      BY <2>1 DEF SafeHttp
    <2>3. r.kind = "navigate"
      <3>1. r.kind # "form"
        BY <2>2 DEF Method
      <3> QED
        BY <1>1, <2>2, <3>1 DEF Dest, Kinds
    <2>4. r.by = "foreign" \/ r.sandboxed => Site(r) = "cross-site"
      BY <1>2, <1>4, <2>3 DEF Site, Absent
    <2> QED
      BY <1>2, <2>2, <2>3, <2>4
  <1> QED
    BY <1>1, <1>3, <1>4 DEF Pages

(* is_safe_for_cookie_auth: the cookie a login hands out makes the owner   *)
(* of the target's own pages, of the owner's own navigations, and of the   *)
(* full-page navigations of other pages that the route allows, only.       *)
THEOREM CookieOfOwnPages == Spec => OwnPagesOnly
  <1> DEFINE Fine(q) == LET r == q[1]
                        IN \/ r.by \in {"self", "nobody"}
                           \/ /\ r.kind = "navigate" /\ r.tls
                              /\ r.by = "foreign" \/ r.sandboxed => q[2]
  <1>1. \A q \in Honoured : Fine(q)
    <2> SUFFICES ASSUME NEW q \in Honoured PROVE Fine(q)
      OBVIOUS
    <2>1. PICK r \in BrowserRequests, crossSite \in BOOLEAN :
               q[1] = r /\ q[2] = crossSite /\ OwnerAuth(r, crossSite, TRUE, FALSE) = "owner"
      BY DEF Honoured
    <2>2. SafeForCookieAuth(r, crossSite) = "yes"
      BY <2>1 DEF OwnerAuth
    <2>3. CASE r.kind = "socket"
      BY <2>1, <2>2, <2>3, SocketsOfOwnPages DEF SafeForCookieAuth
    <2>4. CASE r.kind # "socket" /\ Site(r) = Absent
      BY <2>1, <2>2, <2>4, PlainHttpOfOwnPages DEF SafeForCookieAuth, SafeHttp
    <2>5. CASE r.kind # "socket" /\ Site(r) # Absent
      <3>1. SafeHttp(r, crossSite) = "yes"
        BY <2>2, <2>5 DEF SafeForCookieAuth
      <3> QED
        BY <2>1, <2>5, <3>1, MetadataOfOwnPages
    <2> QED
      BY <2>3, <2>4, <2>5
  <1> QED
    BY <1>1, PTL DEF OwnPagesOnly

-----------------------------------------------------------------------------
(* When a default moves                                                    *)

LEMMA FiniteIsBounded ==
    ASSUME NEW S \in SUBSET Nat, IsFiniteSet(S)
    PROVE  \E K \in Nat : \A y \in S : y <= K
  <1>1. PICK n \in Nat : ExistsSurjection(1..n, S)
    BY FS_NatSurjection
  <1>2. PICK f \in Surjection(1..n, S) : TRUE
    BY <1>1 DEF ExistsSurjection
  <1>3. f \in [1..n -> S] /\ \A y \in S : \E i \in 1..n : f[i] = y
    BY <1>2 DEF Surjection
  <1>7. \A i \in 1..n : f[i] \in Nat
    BY <1>3
  <1> DEFINE Above(k) == \E K \in Nat : \A i \in 1..k : f[i] <= K
  <1> DEFINE bad == {k \in 0..n : ~Above(k)}
  <1>4. bad = {}
    <2> SUFFICES ASSUME bad # {} PROVE FALSE
      OBVIOUS
    <2>1. bad \in SUBSET Nat
      OBVIOUS
    <2> HIDE DEF bad
    <2>2. Min(bad) \in bad /\ \A y \in bad : Min(bad) <= y
      BY <2>1, MinIsThere
    <2>3. PICK k \in bad : \A y \in bad : k <= y
      BY <2>2
    <2> USE DEF bad
    <2>4. k \in 0..n /\ ~Above(k)
      OBVIOUS
    <2>5. k # 0
      BY <2>4
    <2>6. Above(k - 1)
      <3> SUFFICES ASSUME ~Above(k - 1) PROVE FALSE
        OBVIOUS
      <3> HIDE DEF Above
      <3>1. k - 1 \in 0..n
        BY <2>4, <2>5
      <3>2. k <= k - 1
        BY <2>3, <3>1
      <3> QED
        BY <2>4, <3>2
    <2>7. PICK K \in Nat : \A i \in 1..(k - 1) : f[i] <= K
      BY <2>6
    <2>8. f[k] \in Nat
      BY <1>7, <2>4, <2>5
    <2>9. PICK M \in Nat : K <= M /\ f[k] <= M
      <3>1. \A x, y \in Nat : \E m \in Nat : x <= m /\ y <= m
        <4>1. \A x, y \in Nat : x + y \in Nat /\ x <= x + y /\ y <= x + y
          OBVIOUS
        <4> QED
          BY <4>1
      <3> QED
        BY <2>8, <3>1
    <2>10. \A i \in 1..k : f[i] <= M
      <3> SUFFICES ASSUME NEW i \in 1..k, i # k PROVE f[i] <= M
        BY <2>9
      <3>1. i \in 1..(k - 1) /\ i \in 1..n
        BY <2>4
      <3>2. f[i] \in Nat /\ f[i] <= K
        BY <1>7, <2>7, <3>1
      <3>3. \A x, y, z \in Nat : x <= y /\ y <= z => x <= z
        OBVIOUS
      <3> QED
        BY <2>9, <3>2, <3>3, Zenon
    <2> QED
      BY <2>4, <2>9, <2>10
  <1>5. Above(n)
    <2> HIDE DEF Above
    <2>1. n \notin bad
      BY <1>4
    <2> QED
      BY <2>1
  <1>6. PICK K \in Nat : \A i \in 1..n : f[i] <= K
    BY <1>5
  <1> QED
    BY <1>3, <1>6

\* A non-empty bounded set of naturals has a greatest element, and Max is it.
LEMMA MaxIsThere ==
    ASSUME NEW S \in SUBSET Nat, S # {}, NEW n \in Nat, \A y \in S : y <= n
    PROVE  Max(S) \in S
  <1> DEFINE T == {n - y : y \in S}
  <1>1. T \in SUBSET Nat /\ T # {}
    <2>1. \A y \in S : n - y \in Nat
      OBVIOUS
    <2> QED
      BY <2>1
  <1>2. PICK m \in T : \A y \in T : m <= y
    <2> HIDE DEF T
    <2>1. Min(T) \in T /\ \A y \in T : Min(T) <= y
      BY <1>1, MinIsThere
    <2> QED
      BY <2>1
  <1>3. PICK x \in S : m = n - x
    OBVIOUS
  <1>4. \A y \in S : x >= y
    <2> SUFFICES ASSUME NEW y \in S PROVE x >= y
      OBVIOUS
    <2>1. n - y \in T
      OBVIOUS
    <2>2. n - x <= n - y
      BY <1>2, <1>3, <2>1
    <2> QED
      BY <2>2
  <1> QED
    BY <1>4 DEF Max

LEMMA MaxOfOne == ASSUME NEW x \in Nat PROVE Max({x}) = x
  <1>1. \A y \in {x} : x >= y
    OBVIOUS
  <1> QED
    BY <1>1 DEF Max

\* The incumbent is among the oldest of the apps that provide the service.
LEMMA IncumbentIsOldest ==
    ASSUME AppsType, TableType, NEW s \in ServiceUrls, NEW d \in AppIds, Incumbent(s) = d, Live(s) # {}
    PROVE  \A e \in Live(s) : apps[d].made <= apps[e[2]].made
  <1>1. \A e \in Live(s) : /\ e[2] \in AppIds /\ e[3] \in {1, 2}
                           /\ apps[e[2]].made \in Nat
    BY DEF Live, TableType, Entries, AppsType, Exists, Row
  <1> DEFINE ages == {apps[e[2]].made : e \in Live(s)}
  <1> DEFINE tied == {e \in Live(s) : apps[e[2]].made = Min(ages)}
  <1> DEFINE levels == {e[3] : e \in tied}
  <1> DEFINE best == {e \in tied : e[3] = Max(levels)}
  <1> DEFINE ids == {e[2] : e \in best}
  <1>2. Incumbent(s) = Max(ids)
    BY DEF Incumbent
  <1>3. Min(ages) \in ages /\ \A y \in ages : Min(ages) <= y
    <2>1. ages \in SUBSET Nat /\ ages # {}
      BY <1>1
    <2> HIDE DEF ages
    <2> QED
      BY <2>1, MinIsThere
  <1>4. tied # {}
    <2>1. PICK e \in Live(s) : apps[e[2]].made = Min(ages)
      BY <1>3
    <2> HIDE DEF ages
    <2> QED
      BY <2>1
  <1> HIDE DEF ages
  <1>5. Max(levels) \in levels
    <2>1. levels \in SUBSET Nat /\ levels # {} /\ \A y \in levels : y <= 2
      BY <1>1, <1>4
    <2> HIDE DEF levels
    <2> QED
      BY <2>1, MaxIsThere
  <1>6. best # {}
    <2>1. PICK e \in tied : e[3] = Max(levels)
      BY <1>5
    <2> HIDE DEF levels, tied
    <2> QED
      BY <2>1
  <1> HIDE DEF levels
  <1>7. Max(ids) \in ids
    <2>1. \A y \in ids : y \in AppIds
      BY <1>1
    <2>2. AppIds \in SUBSET Nat /\ IsFiniteSet(AppIds)
      BY ServicesAssumption
    <2>3. PICK K \in Nat : \A y \in AppIds : y <= K
      BY <2>2, FiniteIsBounded
    <2>4. ids # {}
      BY <1>6
    <2> HIDE DEF ids
    <2>5. ids \in SUBSET Nat /\ \A y \in ids : y <= K
      BY <2>1, <2>2, <2>3
    <2> QED
      BY <2>4, <2>5, MaxIsThere
  <1>8. PICK e \in best : d = e[2]
    BY <1>2, <1>7
  <1>9. apps[d].made = Min(ages)
    BY <1>8
  <1> QED
    BY <1>3, <1>9 DEF ages

\* An app that is older than all others that provide the service is its incumbent.
LEMMA OldestIsIncumbent ==
    ASSUME AppsType, TableType, Once(prov), NEW s \in ServiceUrls, NEW d \in AppIds, Provides(s, d),
           \A e \in Live(s) : e[2] = d \/ apps[d].made < apps[e[2]].made
    PROVE  Incumbent(s) = d
  <1>1. \A e \in Live(s) : /\ e[1] = s /\ e[2] \in AppIds /\ e[3] \in {1, 2} /\ e \in prov
                           /\ apps[e[2]].made \in Nat
    BY DEF Live, TableType, Entries, AppsType, Exists, Row
  <1>2. PICK mine \in Live(s) : mine[2] = d
    BY DEF Provides
  <1>3. \A e \in Live(s) : e[2] = d => e = mine
    BY <1>1, <1>2 DEF Once
  <1> DEFINE ages == {apps[e[2]].made : e \in Live(s)}
  <1> DEFINE tied == {e \in Live(s) : apps[e[2]].made = Min(ages)}
  <1>4. ages \in SUBSET Nat /\ ages # {} /\ apps[d].made \in ages
    BY <1>1, <1>2
  <1>5. \A y \in ages : apps[d].made <= y
    <2> SUFFICES ASSUME NEW e \in Live(s) PROVE apps[d].made <= apps[e[2]].made
      OBVIOUS
    <2>1. apps[d].made \in Nat /\ apps[e[2]].made \in Nat
      BY <1>1, <1>2
    <2>2. e[2] = d \/ apps[d].made < apps[e[2]].made
      OBVIOUS
    <2> QED
      BY <2>1, <2>2
  <1>6. Min(ages) = apps[d].made
    <2> HIDE DEF ages
    <2>1. Min(ages) \in ages /\ \A y \in ages : Min(ages) <= y
      BY <1>4, MinIsThere
    <2>2. Min(ages) <= apps[d].made /\ apps[d].made <= Min(ages)
      BY <1>4, <1>5, <2>1
    <2>3. Min(ages) \in Nat /\ apps[d].made \in Nat
      BY <1>4, <2>1
    <2> QED
      BY <2>2, <2>3
  <1> HIDE DEF ages
  <1>7. \A e \in tied : e = mine
    <2> SUFFICES ASSUME NEW e \in Live(s), apps[e[2]].made = apps[d].made PROVE e = mine
      BY <1>6
    <2>1. ~(apps[d].made < apps[e[2]].made)
      BY <1>1
    <2> QED
      BY <1>3, <2>1
  <1>8. tied = {mine}
    BY <1>2, <1>6, <1>7
  <1> HIDE DEF tied
  <1>9. {e[3] : e \in tied} = {mine[3]}
    BY <1>8
  <1>10. Max({e[3] : e \in tied}) = mine[3]
    BY <1>1, <1>9, MaxOfOne
  <1>11. {e \in tied : e[3] = Max({f[3] : f \in tied})} = {mine}
    BY <1>8, <1>10
  <1>12. {e[2] : e \in {f \in tied : f[3] = Max({g[3] : g \in tied})}} = {d}
    BY <1>2, <1>11
  <1>13. Incumbent(s) = Max({e[2] : e \in {f \in tied : f[3] = Max({g[3] : g \in tied})}})
    BY <1>2 DEF Incumbent, tied, ages
  <1>14. d \in Nat
    BY ServicesAssumption
  <1> QED
    BY <1>12, <1>13, <1>14, MaxOfOne

\* The steps that touch the provider table keep the dates of the rows that stay,
\* and date the row they insert.
LEMMA DatesKept ==
    ASSUME IInv, Next, prov' # prov
    PROVE  \A b \in AppIds : Exists(b)' =>
             IF Exists(b) THEN apps'[b].made = apps[b].made ELSE apps'[b].made = clock \div 2
  <1> DEFINE Dated(b) ==
        Exists(b)' => IF Exists(b) THEN apps'[b].made = apps[b].made ELSE apps'[b].made = clock \div 2
  <1>1. CASE Install
    <2>1. PICK a \in AppIds \ used, n \in Names, m \in Manifests :
               apps' = [apps EXCEPT ![a] = [name |-> n, made |-> clock \div 2, man |-> m,
                                            status |-> "building", cid |-> FALSE]]
      BY <1>1 DEF Install
    <2>2. apps \in [AppIds -> Row \cup {None}] /\ ~Exists(a)
      BY DEF IInv, AppsType, IdsOK, Exists
    <2> QED
      BY <2>1, <2>2 DEF Exists
  <1>2. CASE ReloadSync
    <2>1. PICK a \in AppIds, m \in Manifests :
               (Exists(a) /\ apps' = [apps EXCEPT ![a].man = m]) \/ apps' = apps
      BY <1>2 DEF ReloadSync
    <2>2. CASE Exists(a) /\ apps' = [apps EXCEPT ![a].man = m]
      <3>1. apps \in [AppIds -> Row \cup {None}] /\ apps[a] \in Row
        BY <2>2 DEF IInv, AppsType, Exists
      <3> DEFINE r == [apps[a] EXCEPT !.man = m]
      <3>2. apps' = [apps EXCEPT ![a] = r] /\ r.made = apps[a].made
        BY <2>2, <3>1 DEF Row
      <3> HIDE DEF r
      <3> SUFFICES ASSUME NEW b \in AppIds, Exists(b)' PROVE Exists(b) /\ apps'[b].made = apps[b].made
        OBVIOUS
      <3>3. CASE b = a
        BY <2>2, <3>1, <3>2, <3>3
      <3>4. CASE b # a
        BY <3>1, <3>2, <3>4 DEF Exists
      <3> QED
        BY <3>3, <3>4
    <2>3. CASE apps' = apps
      BY <2>3 DEF Exists
    <2> QED
      BY <2>1, <2>2, <2>3
  <1>3. CASE Launch
    <2>1. PICK a \in AppIds : apps' = SetStatus(a, "starting")
      BY <1>3 DEF Launch
    <2>2. RowsStay /\ DatesStay
      BY <2>1, StatusStays DEF IInv, Statuses
    <2> QED
      BY <2>2 DEF RowsStay, DatesStay
  <1>4. CASE RemoveDelete
    <2>1. PICK a \in AppIds : apps' = [apps EXCEPT ![a] = None]
      BY <1>4 DEF RemoveDelete
    <2>2. apps \in [AppIds -> Row \cup {None}]
      BY DEF IInv, AppsType
    <2> QED
      BY <2>1, <2>2 DEF Exists
  <1>5. ~(Login \/ Logout \/ CreateKey \/ DeleteKey \/ Tick)
    BY DEF Login, Logout, CreateKey, DeleteKey, Tick, table
  <1>6. ~(SetDefault \/ ClearDefault \/ GrantGlobal \/ GrantApp \/ Revoke)
    BY DEF SetDefault, ClearDefault, GrantGlobal, GrantApp, Revoke
  <1>7. ~(Reload \/ MarkStarting \/ BuildFails \/ RunContainer \/ Settle)
    BY DEF Reload, MarkStarting, BuildFails, RunContainer, Settle, table
  <1>8. ~(Stop \/ RemoveClaim \/ Crash)
    BY DEF Stop, RemoveClaim, Crash, table
  <1>9. ~(Arrive \/ Send \/ Answer)
    BY DEF Arrive, Send, Answer, table
  <1> QED
    BY <1>1, <1>2, <1>3, <1>4, <1>5, <1>6, <1>7, <1>8, <1>9 DEF Next

OldestServes ==
    \A s \in ServiceUrls : \A d \in AppIds :
      IInv /\ Provides(s, d) /\ (\A e \in Live(s) : e[2] = d \/ apps[d].made < apps[e[2]].made)
      => Incumbent(s) = d

LEMMA IncumbentByDate == OldestServes
  BY OldestIsIncumbent DEF IInv, OldestServes

(* default_provider_id_for_service: no step but the owner's own choice     *)
(* moves a service off an app that still provides it, unless another       *)
(* provider is as old, or an older app starts to provide the service.      *)
THEOREM DefaultStaysAlways == Spec => DefaultStays
  <1> DEFINE Stays ==
        prov' # prov =>
          \A s \in ServiceUrls, d \in AppIds :
            /\ Default(s) = d /\ Provides(s, d)
            /\ pick'[s] = pick[s] /\ Provides(s, d)'
            => \/ Default(s)' = d
               \/ \E a \in AppIds \ {d} :
                    /\ Provides(s, a)'
                    /\ \/ apps'[a].made = apps'[d].made
                       \/ Exists(a) /\ apps[a].made < apps[d].made /\ ~Provides(s, a)
  <1>1. IInv /\ IInv' /\ [Next]_vars => Stays
    <2> SUFFICES ASSUME IInv, IInv', [Next]_vars, prov' # prov,
                        NEW s \in ServiceUrls, NEW d \in AppIds,
                        Default(s) = d, Provides(s, d), pick'[s] = pick[s], Provides(s, d)',
                        \A a \in AppIds \ {d} : Provides(s, a)' =>
                           /\ apps'[a].made # apps'[d].made
                           /\ ~(Exists(a) /\ apps[a].made < apps[d].made /\ ~Provides(s, a))
                 PROVE  Default(s)' = d
      OBVIOUS
    <2>1. Next
      BY DEF vars, table
    <2>2. CASE pick[s] # None
      BY <2>2 DEF Default
    <2>3. CASE pick[s] = None
      <3>1. s \notin Builtins /\ Incumbent(s) = d
        BY <2>3, ServicesAssumption DEF Default
      <3>2. Live(s) # {} /\ Exists(d) /\ Exists(d)'
        BY DEF Provides, Live
      <3>3. \A e \in Live(s) : apps[d].made <= apps[e[2]].made
        BY <3>1, <3>2, IncumbentIsOldest DEF IInv
      <3>4. apps'[d].made = apps[d].made
        BY <2>1, <3>2, DatesKept
      <3>5. \A a \in AppIds \ {d} : Provides(s, a)' => apps'[d].made < apps'[a].made
        <4> SUFFICES ASSUME NEW a \in AppIds \ {d}, Provides(s, a)'
                     PROVE  apps'[d].made < apps'[a].made
          OBVIOUS
        <4>1. Exists(a)'
          BY DEF Provides, Live
        <4>2. apps'[a].made \in Nat /\ apps'[d].made \in Nat /\ apps[d].made \in Nat
          BY <3>2, <4>1 DEF IInv, AppsType, Exists, Row
        <4>3. apps[d].made <= apps'[a].made
          <5>1. CASE ~Exists(a)
            <6>1. apps'[a].made = clock \div 2
              BY <2>1, <4>1, <5>1, DatesKept
            <6> QED
              BY <3>2, <6>1 DEF IInv, MadeOK
          <5>2. CASE Exists(a)
            <6>1. apps'[a].made = apps[a].made
              BY <2>1, <4>1, <5>2, DatesKept
            <6>2. CASE Provides(s, a)
              BY <3>3, <6>1, <6>2 DEF Provides
            <6>3. CASE ~Provides(s, a)
              <7>1. ~(apps[a].made < apps[d].made)
                BY <5>2, <6>3
              <7> QED
                BY <4>2, <6>1, <7>1
            <6> QED
              BY <6>2, <6>3
          <5> QED
            BY <5>1, <5>2
        <4>4. apps'[a].made # apps'[d].made
          OBVIOUS
        <4> QED
          BY <3>4, <4>2, <4>3, <4>4
      <3>6. \A e \in Live(s)' : e[2] = d \/ apps'[d].made < apps'[e[2]].made
        <4> SUFFICES ASSUME NEW e \in Live(s)', e[2] # d PROVE apps'[d].made < apps'[e[2]].made
          OBVIOUS
        <4>1. e \in prov' /\ e \in Entries
          BY DEF Live, IInv, TableType
        <4>2. e[2] \in AppIds \ {d}
          BY <4>1 DEF Entries
        <4>3. PICK a \in AppIds \ {d} : a = e[2]
          BY <4>2
        <4>4. Provides(s, a)'
          BY <4>3 DEF Provides
        <4> QED
          BY <3>5, <4>3, <4>4
      <3>7. OldestServes'
        BY IncumbentByDate, PTL
      <3>8. Incumbent(s)' = d
        BY <3>6, <3>7 DEF OldestServes
      <3> QED
        BY <2>3, <3>1, <3>8 DEF Default
    <2> QED
      BY <2>2, <2>3
  <1> QED
    BY <1>1, Inductive, PTL DEF Spec, DefaultStays

=============================================================================
