------------------------------ MODULE Services ------------------------------
(***************************************************************************)
(* Owners, apps and the services apps call through the router: sessions    *)
(* and API tokens, the token of each app, the providers of each service,   *)
(* the default among them, the owner's grants, and the calls in flight.    *)
(*                                                                         *)
(* A step is what a handler or a worker thread does between two points     *)
(* where another one can run: an await, a podman command, or a commit.  A  *)
(* call is resolved in one piece and sent in another, because the router   *)
(* reads the whole body before it connects to the provider's port.         *)
(*                                                                         *)
(* Time is counted in half seconds, because sessions are compared with     *)
(* microseconds, swept by whole seconds, and apps are dated by the second. *)
(***************************************************************************)
EXTENDS BrowserAuth, Integers, FiniteSets, FiniteSetsExt

CONSTANTS
  AppIds,     \* the ids an installed app may get, never reused (a set of naturals)
  Names,      \* subdomains
  Sessions,   \* session tokens that may be issued
  ServiceUrls,
  Builtins,   \* the services the router provides itself
  Manifests,  \* records [provides, needs] of functions from services to versions
  Calls,      \* requests the router forwards at a time
  TTL,        \* life of a session, in half seconds
  KeyLives,   \* lives the owner gives an API token: half seconds, or Never
  MaxClock, MaxOps, MaxCrash,   \* bounds
  None, Router, Never

Versions == 0..2   \* 0: not provided, or not needed
ASSUME ServicesAssumption ==
  /\ IsFiniteSet(AppIds) /\ AppIds \subseteq Nat \ {0}
  /\ Builtins \subseteq ServiceUrls
  /\ Manifests \subseteq [provides : [ServiceUrls -> Versions],
                          needs : [ServiceUrls -> Versions]]
  /\ KeyLives \subseteq Nat \cup {Never} /\ Never \notin Nat
  /\ TTL \in Nat /\ MaxClock \in Nat /\ MaxOps \in Nat /\ MaxCrash \in Nat
  /\ None \notin Nat \cup {Router, Never} /\ Router \notin AppIds

VARIABLES
  clock,
  sessions,   \* rows of the sessions table
  expires,    \* expiry of every session ever issued
  loggedOut,  \* history: sessions ended by their owner
  key,        \* the API token: None, Never or its expiry
  apps,       \* rows of the apps table, None when absent
  used,       \* ids that were ever minted
  worker,     \* the thread that deploys each app
  minted,     \* the last token made for an app, counted from 1
  token,      \* app_tokens: the token stored for an app, 0 when there is none
  box,        \* the container of each app: [token, man], or None
  port,       \* the local port of each id, kept after its row is gone
  prov,       \* service_providers_v2, as <<service, app, version>>
  pick,       \* service_defaults
  perms,      \* permissions_v2
  calls,
  ops, crashes

owner == <<sessions, expires, loggedOut, key>>
rows == <<apps, used, minted, token, port>>
table == <<prov, pick, perms>>
bounds == <<ops, crashes>>
vars == <<clock, owner, rows, worker, box, table, calls, bounds>>

Statuses == {"building", "starting", "running", "stopped", "error", "removing"}
Ports == 1..Cardinality(AppIds)
Scopes == {"global", "app"}
Row == [name : Names, made : Nat, man : Manifests, status : Statuses, cid : BOOLEAN]
Generations == 0..(MaxOps + MaxCrash + 1)
Container == [token : Generations, man : Manifests \cup {None}]
ASSUME NoneAssumption == None \notin Row \cup Container
Grant == [con : AppIds, svc : ServiceUrls, scope : Scopes, to : AppIds \cup {None}]
Idle == [st |-> "idle"]
Exists(a) == apps[a] # None
Status(a) == IF Exists(a) THEN apps[a].status ELSE "none"

---------------------------------------------------------------------------
(* Sessions and API tokens                                                 *)

ValidSession(s) == s \in sessions /\ expires[s] >= clock
ValidKey == key = Never \/ (key \in Nat /\ key >= clock)
SignedIn == (\E s \in sessions : ValidSession(s)) \/ ValidKey

(* Every owner request is guarded by require_owner_auth and counted.       *)
OwnerRequest == SignedIn /\ ops < MaxOps /\ ops' = ops + 1

SweptEarly == {s \in sessions : expires[s] \div 2 <= clock \div 2}

(* create_session sweeps with the resolution of SQLite's datetime().       *)
Swept == {s \in sessions : expires[s] \div 2 < clock \div 2}

Login == \E s \in Sessions :
  /\ ops < MaxOps /\ ops' = ops + 1
  /\ expires[s] = None
  /\ expires' = [expires EXCEPT ![s] = clock + TTL]
  /\ sessions' = (sessions \ Swept) \cup {s}
  /\ UNCHANGED <<clock, loggedOut, key, rows, worker, box, table, calls, crashes>>

Logout == \E s \in sessions :
  /\ OwnerRequest /\ ValidSession(s)
  /\ sessions' = sessions \ {s}
  /\ loggedOut' = loggedOut \cup {s}
  /\ UNCHANGED <<clock, expires, key, rows, worker, box, table, calls, crashes>>

CreateKey == \E life \in KeyLives :
  /\ OwnerRequest /\ key = None
  /\ key' = IF life = Never THEN Never ELSE clock + life
  /\ UNCHANGED <<clock, sessions, expires, loggedOut, rows, worker, box, table, calls,
                 crashes>>

DeleteKey ==
  /\ OwnerRequest /\ key # None /\ key' = None
  /\ UNCHANGED <<clock, sessions, expires, loggedOut, rows, worker, box, table, calls,
                 crashes>>

Tick ==
  /\ clock < MaxClock /\ clock' = clock + 1
  /\ UNCHANGED <<owner, rows, worker, box, table, calls, bounds>>

---------------------------------------------------------------------------
(* Providers and defaults                                                  *)

Registered(p, a, man) ==
  {e \in p : e[2] # a}
    \cup {<<s, a, man.provides[s]>> : s \in {t \in ServiceUrls : man.provides[t] > 0}}

(* The rows of the table whose app exists.  (A worker's connection does    *)
(* not enforce foreign keys, so it may write rows for an app that was      *)
(* removed meanwhile; every reader joins them with apps, and ids are never *)
(* reused, so they are left out.)                                          *)
Live(s) == {e \in prov : e[1] = s /\ Exists(e[2])}

IncumbentByVersion(s) ==
  IF Live(s) = {} THEN None
  ELSE LET top == Max({e[3] : e \in Live(s)})
       IN Max({e[2] : e \in {f \in Live(s) : f[3] = top}})

(* The app installed longest ago; the version, then the id, decide only    *)
(* between apps of the same second.                                        *)
Incumbent(s) ==
  IF Live(s) = {} THEN None
  ELSE LET oldest == Min({apps[e[2]].made : e \in Live(s)})
           tied == {e \in Live(s) : apps[e[2]].made = oldest}
           top == Max({e[3] : e \in tied})
       IN Max({e[2] : e \in {f \in tied : f[3] = top}})

Default(s) ==
  IF pick[s] # None THEN pick[s]
  ELSE IF s \in Builtins THEN Router ELSE Incumbent(s)

SetDefault == \E s \in ServiceUrls, a \in AppIds \cup {Router} :
  /\ OwnerRequest
  /\ \/ a = Router /\ s \in Builtins /\ pick' = [pick EXCEPT ![s] = None]
     \/ \E e \in Live(s) : a = e[2] /\ pick' = [pick EXCEPT ![s] = a]
  /\ UNCHANGED <<clock, owner, rows, worker, box, prov, perms, calls, crashes>>

ClearDefault == \E s \in ServiceUrls :
  /\ OwnerRequest /\ pick' = [pick EXCEPT ![s] = None]
  /\ UNCHANGED <<clock, owner, rows, worker, box, prov, perms, calls, crashes>>

---------------------------------------------------------------------------
(* Apps come, are deployed, and go                                         *)

Bound(p) == \E a \in AppIds : box[a] # None /\ port[a] = p
FreePorts == {p \in Ports : ~Bound(p) /\ \A a \in AppIds : Exists(a) => port[a] # p}
Fresh(n) == \A a \in AppIds : Exists(a) => apps[a].name # n

(* insert_and_deploy: the row, its token, its providers, then the grants   *)
(* the owner ticked on the deploy page; the thread starts building.        *)
(* Ids are random; taking them in order loses only which of two apps of    *)
(* the same second the id prefers.                                         *)
Install == \E a \in AppIds \ used, n \in Names, m \in Manifests,
              ticked \in SUBSET ServiceUrls :
  /\ OwnerRequest /\ Fresh(n) /\ FreePorts # {}
  /\ a = Min(AppIds \ used)
  /\ ticked \subseteq {s \in ServiceUrls : m.needs[s] > 0}
  /\ used' = used \cup {a}
  /\ port' = [port EXCEPT ![a] = Min(FreePorts)]
  /\ apps' = [apps EXCEPT ![a] = [name |-> n, made |-> clock \div 2, man |-> m,
                                  status |-> "building", cid |-> FALSE]]
  /\ minted' = [minted EXCEPT ![a] = 1] /\ token' = [token EXCEPT ![a] = 1]
  /\ prov' = Registered(prov, a, m)
  /\ perms' = perms \cup {[con |-> a, svc |-> s, scope |-> "global", to |-> None] :
                          s \in ticked}
  /\ worker' = [worker EXCEPT ![a] = "first build"]
  /\ UNCHANGED <<clock, owner, box, pick, calls, crashes>>

SetRow(a, st, cid) ==
  IF Exists(a) THEN [apps EXCEPT ![a].status = st, ![a].cid = cid] ELSE apps
SetStatus(a, st) == SetRow(a, st, Exists(a) /\ apps[a].cid)

ReloadKeepsId == \E a \in AppIds :
  /\ OwnerRequest /\ worker[a] = "none"
  /\ Status(a) \in {"running", "stopped", "error"}
  /\ apps' = SetStatus(a, "building")
  /\ worker' = [worker EXCEPT ![a] = "sync"]
  /\ UNCHANGED <<clock, owner, used, minted, token, port, box, table, calls, crashes>>

(* A reload claims a settled row and forgets its container's id ...        *)
(* One thread deploys an app at a time here: what two of them do to the    *)
(* row and its container is the subject of AppLifecycle.                   *)
Reload == \E a \in AppIds :
  /\ OwnerRequest /\ worker[a] = "none"
  /\ Status(a) \in {"running", "stopped", "error"}
  /\ apps' = SetRow(a, "building", FALSE)
  /\ worker' = [worker EXCEPT ![a] = "sync"]
  /\ UNCHANGED <<clock, owner, used, minted, token, port, box, table, calls, crashes>>

(* ... stops the container, which may fail unnoticed; its thread reads the *)
(* manifest again and writes what it says ...                              *)
ReloadSync == \E a \in AppIds, m \in Manifests, stopped \in BOOLEAN :
  /\ worker[a] = "sync"
  /\ box' = IF stopped THEN [box EXCEPT ![a] = None] ELSE box
  /\ IF Exists(a)
     THEN /\ apps' = [apps EXCEPT ![a].man = m]
          /\ prov' = Registered(prov, a, m)
          /\ worker' = [worker EXCEPT ![a] = "synced"]
     ELSE worker' = [worker EXCEPT ![a] = "none"] /\ UNCHANGED <<apps, prov>>
  /\ UNCHANGED <<clock, owner, used, minted, token, port, pick, perms, calls, bounds>>

(* ... and marks the row as starting before it builds.                     *)
MarkStarting == \E a \in AppIds :
  /\ worker[a] = "synced"
  /\ apps' = SetStatus(a, "starting")
  /\ worker' = [worker EXCEPT ![a] = IF Exists(a) THEN "build" ELSE "none"]
  /\ UNCHANGED <<clock, owner, used, minted, token, port, box, table, calls, bounds>>

BuildFails == \E a \in AppIds :
  /\ worker[a] \in {"first build", "build"}
  /\ apps' = SetStatus(a, "error")
  /\ worker' = [worker EXCEPT ![a] = "none"]
  /\ UNCHANGED <<clock, owner, used, minted, token, port, box, table, calls, bounds>>

LaunchKeepsHash == \E a \in AppIds :
  /\ worker[a] \in {"first build", "build"}
  /\ worker' = [worker EXCEPT ![a] = IF Exists(a) THEN "run" ELSE "none"]
  /\ IF Exists(a)
     THEN /\ minted' = [minted EXCEPT ![a] = IF worker[a] = "build" THEN @ + 1 ELSE @]
          /\ token' = [token EXCEPT ![a] = IF @ = 0 THEN minted'[a] ELSE @]
          /\ prov' = Registered(prov, a, apps[a].man)
     ELSE UNCHANGED <<minted, token, prov>>
  /\ apps' = SetStatus(a, "starting")
  /\ UNCHANGED <<clock, owner, used, port, box, pick, perms, calls, bounds>>

(* run_app_image reads the row, which must still be there, stores a fresh  *)
(* token (the first launch keeps the one of the install) and the           *)
(* providers, and commits as it marks the row.                             *)
Launch == \E a \in AppIds :
  /\ worker[a] \in {"first build", "build"}
  /\ worker' = [worker EXCEPT ![a] = IF Exists(a) THEN "run" ELSE "none"]
  /\ IF Exists(a)
     THEN /\ minted' = [minted EXCEPT ![a] = IF worker[a] = "build" THEN @ + 1 ELSE @]
          /\ token' = [token EXCEPT ![a] = minted'[a]]
          /\ prov' = Registered(prov, a, apps[a].man)
     ELSE UNCHANGED <<minted, token, prov>>
  /\ apps' = SetStatus(a, "starting")
  /\ UNCHANGED <<clock, owner, used, port, box, pick, perms, calls, bounds>>

(* podman rm -f of a container of that name, then podman run, which needs  *)
(* the port; a failure is an error with no container.                      *)
RunContainer == \E a \in AppIds, started \in BOOLEAN :
  /\ worker[a] = "run"
  /\ started => \A b \in AppIds \ {a} : box[b] = None \/ port[b] # port[a]
  /\ worker' = [worker EXCEPT ![a] = IF started THEN "ready" ELSE "none"]
  /\ box' = [box EXCEPT ![a] =
               IF started THEN [token |-> minted[a],
                                man |-> IF Exists(a) THEN apps[a].man ELSE None]
               ELSE None]
  /\ apps' = IF started THEN SetRow(a, Status(a), TRUE) ELSE SetRow(a, "error", FALSE)
  /\ UNCHANGED <<clock, owner, used, minted, token, port, table, calls, bounds>>

(* wait_for_ready: an app that does not answer in time is left to run.     *)
Settle == \E a \in AppIds, st \in {"running", "error"} :
  /\ worker[a] = "ready"
  /\ worker' = [worker EXCEPT ![a] = "none"]
  /\ apps' = SetStatus(a, st)
  /\ UNCHANGED <<clock, owner, used, minted, token, port, box, table, calls, bounds>>

(* stop_app stops by id and by name.                                       *)
Stop == \E a \in AppIds :
  /\ OwnerRequest /\ Status(a) \notin {"none", "removing"}
  /\ box' = [box EXCEPT ![a] = None]
  /\ apps' = SetRow(a, "stopped", FALSE)
  /\ UNCHANGED <<clock, owner, used, minted, token, port, worker, table, calls, crashes>>

RemoveClaim == \E a \in AppIds :
  /\ OwnerRequest /\ Status(a) \notin {"none", "removing"}
  /\ apps' = SetStatus(a, "removing")
  /\ UNCHANGED <<clock, owner, used, minted, token, port, worker, box, table, calls, crashes>>

(* remove_app_background: the container whose id the row holds goes, then  *)
(* the row with everything that references it.                             *)
RemoveDelete == \E a \in AppIds :
  /\ Status(a) = "removing"
  /\ box' = IF apps[a].cid THEN [box EXCEPT ![a] = None] ELSE box
  /\ apps' = [apps EXCEPT ![a] = None]
  /\ token' = [token EXCEPT ![a] = 0]
  /\ prov' = {e \in prov : e[2] # a}
  /\ perms' = {g \in perms : g.con # a}
  /\ pick' = [s \in ServiceUrls |-> IF pick[s] = a THEN None ELSE pick[s]]
  /\ UNCHANGED <<clock, owner, used, minted, port, worker, calls, bounds>>

(* check_app_status: a row whose container the router knows and finds      *)
(* alive is running, unless it is marked as starting; the other running,   *)
(* starting and building rows are launched again.                          *)
Recovered(a, alive) ==
  IF Status(a) \notin {"running", "building", "starting"}
  THEN [st |-> Status(a), w |-> "none"]
  ELSE IF apps[a].cid /\ alive /\ Status(a) # "starting"
       THEN [st |-> "running", w |-> "none"]
       ELSE [st |-> "starting", w |-> "build"]

(* The router dies, alone or with the host, and starts again: requests and *)
(* threads are gone, containers only with the host.                        *)
Crash == \E reboot \in BOOLEAN :
  /\ crashes < MaxCrash /\ crashes' = crashes + 1
  /\ calls' = [c \in Calls |-> Idle]
  /\ box' = [a \in AppIds |-> IF reboot THEN None ELSE box[a]]
  /\ LET after(a) == Recovered(a, box'[a] # None)
     IN /\ apps' = [a \in AppIds |->
                      IF Exists(a) THEN [apps[a] EXCEPT !.status = after(a).st] ELSE None]
        /\ worker' = [a \in AppIds |-> after(a).w]
  /\ UNCHANGED <<clock, owner, used, minted, token, port, table, ops>>

---------------------------------------------------------------------------
(* Grants                                                                  *)

GrantGlobal == \E a \in AppIds, s \in ServiceUrls :
  /\ OwnerRequest /\ Exists(a)
  /\ perms' = perms \cup {[con |-> a, svc |-> s, scope |-> "global", to |-> None]}
  /\ UNCHANGED <<clock, owner, rows, worker, box, prov, pick, calls, crashes>>

(* An app's token is accepted while its row and the stored hash agree.     *)
AppOfToken(a) == IF box[a] # None /\ Exists(a) /\ token[a] = box[a].token THEN a ELSE None

(* A provider reports the owner's consent for a consumer it names.         *)
GrantApp == \E p \in AppIds, con \in AppIds, s \in ServiceUrls :
  /\ ops < MaxOps /\ ops' = ops + 1
  /\ AppOfToken(p) = p /\ Exists(con)
  /\ \E e \in prov : e[1] = s /\ e[2] = p
  /\ perms' = perms \cup {[con |-> con, svc |-> s, scope |-> "app", to |-> p]}
  /\ UNCHANGED <<clock, owner, rows, worker, box, prov, pick, calls, crashes>>

Revoke == \E g \in perms :
  /\ OwnerRequest /\ perms' = perms \ {g}
  /\ UNCHANGED <<clock, owner, rows, worker, box, prov, pick, calls, crashes>>

---------------------------------------------------------------------------
(* Service calls                                                           *)

(* The consumer a call speaks for: the app whose container sent its token, *)
(* or the app whose page, under its name, the signed-in owner has open.    *)
PageApp(n) == IF \E a \in AppIds : Exists(a) /\ apps[a].name = n
              THEN CHOOSE a \in AppIds : Exists(a) /\ apps[a].name = n ELSE None
Consumers ==
  {AppAuth(FALSE, FALSE, None, AppOfToken(a), None) : a \in AppIds}
    \cup {AppAuth(\E s \in sessions : ValidSession(s), FALSE, PageApp(n), None, None) :
          n \in Names}

(* resolve_provider for a pinned provider, or for the default.             *)
Resolves(s, target, need) ==
  \/ target = Router /\ s \in Builtins /\ need <= 1
  \/ \E e \in Live(s) : e[2] = target /\ Status(target) = "running" /\ e[3] >= need

GrantsAll(con, s, target) == {g \in perms : g.con = con /\ g.svc = s}

GrantsFor(con, s, target) ==
  {g \in perms : g.con = con /\ g.svc = s /\ (g.scope = "global" \/ g.to = target)}

(* Authentication, the shortname, the provider and the headers, up to the  *)
(* first await; whatever fails answers with an error and changes nothing.  *)
Arrive == \E c \in Calls, con \in Consumers \ {None}, s \in ServiceUrls,
             pinned \in AppIds \cup {Router, None} :
  LET need == apps[con].man.needs[s]
      target == IF pinned = None THEN Default(s) ELSE pinned
  IN /\ calls[c] = Idle /\ need > 0
     /\ target # None /\ Resolves(s, target, need)
     /\ calls' = [calls EXCEPT ![c] =
          [st |-> "body", con |-> con, svc |-> s, to |-> target,
           grants |-> GrantsFor(con, s, target), got |-> None]]
     /\ UNCHANGED <<clock, owner, rows, worker, box, table, bounds>>

Listener(p) == IF Bound(p) THEN CHOOSE a \in AppIds : box[a] # None /\ port[a] = p ELSE None

(* The body is there: the request goes to the port, whoever listens on it. *)
Send == \E c \in Calls :
  /\ calls[c].st = "body"
  /\ LET got == IF calls[c].to = Router THEN Router ELSE Listener(port[calls[c].to])
     IN calls' = [calls EXCEPT ![c] =
          IF got = None THEN Idle ELSE [@ EXCEPT !.st = "sent", !.got = got]]
  /\ UNCHANGED <<clock, owner, rows, worker, box, table, bounds>>

(* The answer, or the end of the connection, comes back.                   *)
Answer == \E c \in Calls :
  /\ calls[c].st = "sent"
  /\ calls' = [calls EXCEPT ![c] = Idle]
  /\ UNCHANGED <<clock, owner, rows, worker, box, table, bounds>>

Init ==
  /\ clock = 0
  /\ \E s \in Sessions : /\ sessions = {s}
                         /\ expires = [t \in Sessions |-> IF t = s THEN TTL ELSE None]
  /\ loggedOut = {} /\ key = None
  /\ apps = [a \in AppIds |-> None] /\ used = {}
  /\ worker = [a \in AppIds |-> "none"]
  /\ minted = [a \in AppIds |-> 0] /\ token = minted
  /\ box = [a \in AppIds |-> None]
  /\ port = [a \in AppIds |-> 0]
  /\ prov = {} /\ pick = [s \in ServiceUrls |-> None] /\ perms = {}
  /\ calls = [c \in Calls |-> Idle]
  /\ ops = 0 /\ crashes = 0

Next ==
  \/ Login \/ Logout \/ CreateKey \/ DeleteKey \/ Tick
  \/ SetDefault \/ ClearDefault
  \/ Install \/ Reload \/ ReloadSync \/ MarkStarting \/ BuildFails
  \/ Launch \/ RunContainer \/ Settle \/ Stop \/ RemoveClaim \/ RemoveDelete \/ Crash
  \/ GrantGlobal \/ GrantApp \/ Revoke
  \/ Arrive \/ Send \/ Answer

Spec == Init /\ [][Next]_vars

---------------------------------------------------------------------------
(* Properties                                                              *)

(* Types, and: every row of the tables that reference apps and that the    *)
(* owner's requests wrote names an app that is installed.                  *)
TypeOK ==
  /\ clock \in 0..MaxClock /\ ops \in 0..MaxOps /\ crashes \in 0..MaxCrash
  /\ sessions \subseteq Sessions /\ loggedOut \subseteq Sessions
  /\ expires \in [Sessions -> Nat \cup {None}]
  /\ key \in Nat \cup {None, Never}
  /\ apps \in [AppIds -> Row \cup {None}] /\ box \in [AppIds -> Container \cup {None}]
  /\ used \subseteq AppIds
  /\ worker \in [AppIds -> {"none", "first build", "sync", "synced", "build", "run",
                            "ready"}]
  /\ minted \in [AppIds -> Generations] /\ token \in [AppIds -> Generations]
  /\ port \in [AppIds -> {0} \cup Ports]
  /\ prov \subseteq ServiceUrls \X AppIds \X (Versions \ {0})
  /\ pick \in [ServiceUrls -> AppIds \cup {None}]
  /\ perms \subseteq Grant
  /\ \A g \in perms : Exists(g.con)
  /\ \A e \in prov : Exists(e[2])
  /\ \A s \in ServiceUrls : pick[s] # None => Exists(pick[s])
  /\ calls \in [Calls -> {Idle} \cup
                 [st : {"body", "sent"}, con : AppIds, svc : ServiceUrls,
                  to : AppIds \cup {Router}, grants : SUBSET Grant,
                  got : AppIds \cup {Router, None}]]

(* validate_session_token and the sweep of create_session: a session lasts *)
(* exactly until its expiry or its logout, whatever logins happen          *)
(* meanwhile and however their second is rounded.                          *)
SessionsLast ==
  \A s \in Sessions : expires[s] # None =>
    (ValidSession(s) <=> s \notin loggedOut /\ expires[s] >= clock)

(* run_app_image: the container of a running app holds the token the       *)
(* router accepts, after every reload, failed launch, removal and crash.   *)
TokenWorks ==
  \A a \in AppIds : Status(a) = "running" /\ box[a] # None => AppOfToken(a) = a

(* register_services_provided_by_app: a running app is registered for what *)
(* its container was built from, so that resolve_provider's version check  *)
(* is about the code that answers, also when a reload failed to stop the   *)
(* old container and a crash cut it at any point.                          *)
RegisteredAsRun ==
  \A a \in AppIds : Status(a) = "running" /\ box[a] # None =>
    {<<e[1], e[3]>> : e \in {f \in prov : f[2] = a}} =
      {<<s, box[a].man.provides[s]>> : s \in {t \in ServiceUrls : box[a].man.provides[t] > 0}}

(* service_call: of the apps that are still installed, a request reaches   *)
(* none but the provider it was resolved for, with no grant aimed at       *)
(* anybody else, also when the table changed while its body was read.      *)
(* (A removed app may be there in two ways: the provider was removed and   *)
(* its port given away, or the thread of an app removed before the         *)
(* provider was installed starts its container late, on the port they      *)
(* share.)                                                                 *)
Gone(a) == a \in AppIds /\ ~Exists(a)
DeliveredAsResolved ==
  \A c \in Calls : calls[c].st = "sent" /\ ~Gone(calls[c].to) /\ ~Gone(calls[c].got) =>
    /\ calls[c].got = calls[c].to
    /\ \A g \in calls[c].grants : g.scope = "app" => g.to = calls[c].got

(* default_provider_id_for_service: no step but the owner's own choice     *)
(* moves a service off an app that still provides it, unless another       *)
(* provider was installed in the very same second, or an app installed     *)
(* before it starts to provide the service.                                *)
Provides(s, a) == \E e \in Live(s) : e[2] = a
DefaultStays ==
  [][prov' # prov =>
       \A s \in ServiceUrls, d \in AppIds :
         /\ Default(s) = d /\ Provides(s, d)
         /\ pick'[s] = pick[s] /\ Provides(s, d)'
         => \/ Default(s)' = d
            \/ \E a \in AppIds \ {d} :
                 /\ Provides(s, a)'
                 /\ \/ apps'[a].made = apps'[d].made
                    \/ Exists(a) /\ apps[a].made < apps[d].made /\ ~Provides(s, a)]_vars

(* The requests that the session cookie alone makes the owner's, with the  *)
(* policy of the route they go to.                                         *)
Honoured == {q \in BrowserRequests \X BOOLEAN : OwnerAuth(q[1], q[2], TRUE, FALSE) = "owner"}

(* is_safe_for_cookie_auth: the cookie a login hands out makes the owner   *)
(* of nobody but the target's own pages, the owner's own navigations, and  *)
(* full-page navigations that another page starts (another site's only     *)
(* where the route allows it).  On a plain-HTTP domain the last kind is    *)
(* confirmed.                                                              *)
OwnPagesOnly ==
  [][sessions = {} /\ sessions' # {} => \A q \in Honoured :
       LET r == q[1]
       IN \/ r.by \in {"self", "nobody"}
          \/ /\ r.kind = "navigate" /\ r.tls
             /\ r.by = "foreign" \/ r.sandboxed => q[2]]_vars
============================================================================
