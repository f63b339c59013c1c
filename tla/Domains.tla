------------------------------- MODULE Domains -------------------------------
(***************************************************************************)
(* The names an instance answers under, and everything that has to follow   *)
(* the table of them: the zones of CoreDNS, the names of the mDNS responder, *)
(* the certificates and the Caddyfile.                                      *)
(*                                                                          *)
(* The handlers of /api/domains and the renewal loop are coroutines of one   *)
(* event loop: a step of the model is what runs between two awaits.  The    *)
(* promotion's transaction runs in a thread, so it may come between any two *)
(* statements of a handler.  A step marked by an asyncio.Lock is the step   *)
(* of whoever is first in its queue.                                        *)
(***************************************************************************)
EXTENDS Naturals, Sequences, FiniteSets

CONSTANTS
    Names,         \* host names without their port
    Mdns,          \* the names that end in .local
    First,         \* the primary that the first boot seeded
    Reqs,          \* slots for requests in flight
    Renewal,       \* the renewal task
    None,
    MaxReq,        \* bound: requests to change the table
    MaxAttempts,   \* bound: orders per acquisition (3 in the code)
    MaxCrash,      \* bound: crashes and signals
    MaxAge         \* bound: certificates that get older

ASSUME NamesAssumption == Mdns \subseteq Names /\ First \in Names
ASSUME ActorsAssumption ==
    Renewal \notin Reqs /\ None \notin Reqs \cup {Renewal, "archive"} /\ "archive" \notin Reqs
ASSUME DomainBoundsAssumption ==
    {MaxReq, MaxCrash, MaxAge} \subseteq Nat /\ MaxAttempts \in Nat \ {0}

VARIABLES
    proc,      \* the router: down, its boot, up
    dnsOn,     \* coredns_enabled
    table,     \* names in the domains table
    tls,       \* those of them with tls = 1
    primary,   \* the one with is_primary = 1
    status,    \* cert_status
    cert,      \* the pair of files of a name
    act,       \* where each request and the renewal is
    zones,     \* InternalDnsProvider._zones
    served,    \* the zones of the running CoreDNS
    zq,        \* _zone_lock: its owner, then those who wait
    mdns,      \* MdnsResponder: _domains and _sock
    txt,       \* whose challenge values are at _acme-challenge
    iq,        \* _issuance_lock: its owner, then those who wait
    caddyfile, \* the Caddyfile: names, and those with a certificate file
    caddy,     \* what the running Caddy serves
    renewal,   \* the cycle of the renewal loop
    owner,     \* who holds the operation lock
    pending,   \* is_shutdown_pending
    zone,      \* the primary that this process booted with
    spent,     \* the bounds used up
    broken     \* history: what a failed child or an overlap left behind

vars == <<proc, dnsOn, table, tls, primary, status, cert, act, zones, served, zq, mdns,
          txt, iq, caddyfile, caddy, renewal, owner, pending, zone, spent, broken>>

rows == <<table, tls, primary, status>>
dns == <<zones, served, zq>>
front == <<caddyfile, caddy>>
issuing == <<txt, iq, cert>>
life == <<proc, dnsOn, pending, zone>>

Actors == Reqs \cup {Renewal}
Idle == [pc |-> "idle", d |-> First, kind |-> "none", n |-> 0]
Kinds == {"none", "addtls", "addplain", "remove", "promote", "primary", "alias"}
Steps == {"idle", "zone", "restart", "mdnsstop", "write", "apply", "ensure", "issue",
          "answer", "poll", "mark", "delete", "aliases", "begin", "thread", "trigger"}

TypeOK ==
    /\ proc \in {"down", "cert", "caddy", "up", "drain"} /\ dnsOn \in BOOLEAN
    /\ table \subseteq Names /\ tls \subseteq Names /\ primary \in Names
    /\ status \in [Names -> {"none", "acquiring", "active", "error"}]
    /\ cert \in [Names -> {"missing", "half", "torn", "ok", "soon", "expired"}]
    /\ act \in [Actors -> [pc : Steps, d : Names, kind : Kinds, n : 0..MaxAttempts]]
    /\ zones \subseteq Names \ Mdns /\ served \subseteq Names \ Mdns
    /\ zq \in Seq(Reqs) /\ iq \in Seq(Actors)
    /\ mdns \in [names : SUBSET Mdns, sock : {"off", "on", "stopping"}]
    /\ txt \in Actors \cup {None}
    /\ caddyfile \in [names : SUBSET Names, files : SUBSET Names]
    /\ caddy \in [names : SUBSET Names, files : SUBSET Names]
    /\ renewal \in [on : BOOLEAN, todo : SUBSET Names, renewed : BOOLEAN]
    /\ owner \in Reqs \cup {"archive", None} /\ pending \in BOOLEAN
    /\ zone \in Names \cup {None}
    /\ spent \in [req : 0..MaxReq, crash : 0..MaxCrash, age : 0..MaxAge]
    /\ broken \subseteq {"dns", "mdns", "caddy", "promote"}

\* A row may be seeded for plain HTTP or for TLS; the certificate of a TLS seed
\* may be there already.
Init ==
    /\ proc = "down" /\ dnsOn \in BOOLEAN
    /\ table = {First} /\ primary = First
    /\ tls \in {{}, {First} \ Mdns} /\ status = [d \in Names |-> "none"]
    /\ cert \in [Names -> {"missing", "ok"}]
    /\ \A d \in Names : cert[d] = "ok" => d \in tls
    /\ act = [x \in Actors |-> Idle]
    /\ zones = {} /\ served = {} /\ zq = <<>>
    /\ mdns = [names |-> {}, sock |-> "off"]
    /\ txt = None /\ iq = <<>>
    /\ caddyfile = [names |-> {}, files |-> {}] /\ caddy = caddyfile
    /\ renewal = [on |-> FALSE, todo |-> {}, renewed |-> FALSE]
    /\ owner = None /\ pending = FALSE /\ zone = None
    /\ spent = [req |-> 0, crash |-> 0, age |-> 0]
    /\ broken = {}

-----------------------------------------------------------------------------
(* Certificates on disk *)

\* get_cert_status looks at the certificate's dates and at the key's presence: a
\* pair whose halves do not belong together passes.
CertStatus(d) ==
    CASE cert[d] \in {"missing", "half"} -> "missing"
      [] cert[d] \in {"ok", "torn"}      -> "ok"
      [] OTHER                           -> cert[d]

Usable(d) == CertStatus(d) \in {"ok", "soon"}

\* set_record_status is an UPDATE by name: nothing happens to a row that is gone.
SetStatus(d, s) == status' = IF d \in table THEN [status EXCEPT ![d] = s] ELSE status

\* generate_caddyfile for the table as it is now: a name with both files gets
\* them, any other TLS name the internal CA.
Generated == [names |-> table, files |-> {d \in table \cap tls : CertStatus(d) # "missing"}]

Goto(x, pc) == act' = [act EXCEPT ![x].pc = pc]
Done(x) == act' = [act EXCEPT ![x] = Idle]
Up == proc = "up"

-----------------------------------------------------------------------------
(* Adding and removing a name *)

requestElse == <<cert, txt, iq, zones, served, front, renewal, owner, life>>

\* The responder takes the names, and starts or stops to listen; failing to
\* listen is only logged.
MdnsUpdate(names) ==
    \/ /\ mdns' = [names |-> names,
                   sock |-> IF names # {} /\ mdns.sock = "off" THEN "on"
                            ELSE IF names = {} /\ mdns.sock = "on" THEN "stopping" ELSE mdns.sock]
       /\ UNCHANGED broken
    \/ /\ names # {} /\ mdns.sock = "off"
       /\ mdns' = [mdns EXCEPT !.names = names]
       /\ broken' = broken \cup {"mdns"}

\* The row is written and the responder told or the zone lock asked for without
\* an await between them.
AddDomain(x, d, withTls) ==
    /\ Up /\ act[x].pc = "idle" /\ spent.req < MaxReq
    /\ d \notin table /\ ~(d \in Mdns /\ withTls)
    /\ table' = table \cup {d}
    /\ tls' = IF withTls THEN tls \cup {d} ELSE tls \ {d}
    /\ status' = [status EXCEPT ![d] = IF withTls THEN "acquiring" ELSE "active"]
    /\ act' = [act EXCEPT ![x] = [Idle EXCEPT !.d = d,
                 !.kind = IF withTls THEN "addtls" ELSE "addplain",
                 !.pc = IF d \in Mdns \/ ~dnsOn THEN "write" ELSE "zone"]]
    /\ IF d \in Mdns
       THEN MdnsUpdate(table' \cap Mdns) /\ UNCHANGED zq
       ELSE /\ zq' = (IF dnsOn THEN Append(zq, x) ELSE zq) /\ UNCHANGED mdns
            /\ broken' = IF \E y \in Reqs : act[y].kind = "promote" /\ act[y].d = d
                         THEN broken \cup {"promote"} ELSE broken
    /\ spent' = [spent EXCEPT !.req = @ + 1]
    /\ UNCHANGED <<primary, requestElse>>

\* remove_domain reads the row ...
RemoveDomain(x, d) ==
    /\ Up /\ act[x].pc = "idle" /\ spent.req < MaxReq
    /\ d \in table
    /\ act' = [act EXCEPT ![x] = [Idle EXCEPT !.pc = "delete", !.d = d, !.kind = "remove"]]
    /\ spent' = [spent EXCEPT !.req = @ + 1]
    /\ UNCHANGED <<rows, mdns, zq, broken, requestElse>>

\* ... and deletes it only while it is not the primary, which a promotion may
\* have made it since.
DeleteRow(x) ==
    LET d == act[x].d IN
    /\ act[x].pc = "delete"
    /\ \/ /\ d \in table \ {primary}
          /\ table' = table \ {d}
          /\ IF d \in Mdns
             THEN /\ MdnsUpdate(table' \cap Mdns) /\ UNCHANGED zq
                  /\ Goto(x, IF mdns'.sock = "stopping" THEN "mdnsstop" ELSE "write")
             ELSE /\ zq' = (IF dnsOn THEN Append(zq, x) ELSE zq) /\ UNCHANGED <<mdns, broken>>
                  /\ Goto(x, IF dnsOn THEN "zone" ELSE "write")
       \/ /\ d \notin table \/ d = primary
          /\ Done(x) /\ UNCHANGED <<table, mdns, zq, broken>>
    /\ UNCHANGED <<tls, primary, status, spent, requestElse>>

\* The responder awaits its cancelled task, then closes whatever socket it has:
\* a .local name added in between has found it open and is not heard.
MdnsStop(x) ==
    /\ act[x].pc = "mdnsstop"
    /\ mdns' = [mdns EXCEPT !.sock = "off"]
    /\ broken' = IF mdns.names # {} THEN broken \cup {"mdns"} ELSE broken
    /\ Goto(x, "write")
    /\ UNCHANGED <<rows, dns, issuing, front, renewal, owner, life, spent>>

-----------------------------------------------------------------------------
(* CoreDNS *)

zoneElse == <<rows, mdns, issuing, front, renewal, owner, life, spent>>
First1(q, x) == q # <<>> /\ Head(q) = x

\* Mutant: the zone lock is not taken, so changes land in any order.
ApplyUnlocked(x) ==
    /\ act[x].pc = "zone"
    /\ zones' = IF act[x].kind = "remove" THEN zones \ {act[x].d} ELSE zones \cup {act[x].d}
    /\ Goto(x, "restart")
    /\ UNCHANGED <<served, zq, broken, zoneElse>>

\* _apply_zones: the set is read and replaced, and the files rewritten, by the
\* owner of the lock; a zone that is there already needs nothing.
ApplyZones(x) ==
    LET add == act[x].kind # "remove"
        d   == act[x].d
    IN
    /\ act[x].pc = "zone" /\ First1(zq, x)
    /\ IF add /\ d \in zones
       THEN Goto(x, "write") /\ zq' = Tail(zq) /\ UNCHANGED zones
       ELSE /\ zones' = IF add THEN zones \cup {d} ELSE zones \ {d}
            /\ Goto(x, "restart") /\ UNCHANGED zq
    /\ UNCHANGED <<served, broken, zoneElse>>

\* CoreDNS is restarted on the files it finds.  When it cannot be, the handler
\* ends with an exception: no reload and no certificate follow.
RestartDns(x) ==
    /\ act[x].pc = "restart"
    /\ zq' = Tail(zq)
    /\ \/ served' = zones /\ Goto(x, "write") /\ UNCHANGED broken
       \/ served' = {} /\ Done(x) /\ broken' = broken \cup {"dns"}
    /\ UNCHANGED <<zones, zoneElse>>

-----------------------------------------------------------------------------
(* Caddy *)

\* _reload_caddy_after_response writes the Caddyfile from the live table ...
WriteCaddyfile(x) ==
    /\ act[x].pc = "write"
    /\ caddyfile' = Generated
    /\ Goto(x, "apply")
    /\ UNCHANGED <<rows, mdns, dns, issuing, caddy, renewal, owner, life, spent, broken>>

\* ... and reload() has Caddy read it, by the admin API or by a cold restart.
\* A certificate whose key belongs to another one makes Caddy refuse the file.
ApplyCaddyfile(x) ==
    /\ act[x].pc = "apply"
    /\ IF \E d \in caddyfile.files : cert[d] = "torn"
       THEN caddy' = [names |-> {}, files |-> {}] /\ broken' = broken \cup {"caddy"}
       ELSE caddy' = caddyfile /\ UNCHANGED broken
    /\ IF act[x].kind = "addtls" THEN Goto(x, "ensure") ELSE Done(x)
    /\ UNCHANGED <<rows, mdns, dns, issuing, caddyfile, renewal, owner, life, spent>>

-----------------------------------------------------------------------------
(* Acquiring a certificate *)

acquireElse == <<mdns, dns, caddy, owner, life, spent, broken>>

\* Mutant: a failed acquisition is logged and no more.
FailUnseen(x) ==
    \/ x \in Reqs /\ Done(x) /\ UNCHANGED status
    \/ x = Renewal /\ act[x].kind = "primary" /\ Done(x) /\ UNCHANGED status
    \/ x = Renewal /\ act[x].kind = "alias" /\ Goto(x, "aliases") /\ UNCHANGED status

\* _acquire_cert records the error in the row; a renewal of the primary ends the
\* cycle, and one of an alias goes on with the next.
Failed(x) ==
    \/ x \in Reqs /\ SetStatus(act[x].d, "error") /\ Done(x)
    \/ x = Renewal /\ act[x].kind = "primary" /\ Done(x) /\ UNCHANGED status
    \/ x = Renewal /\ act[x].kind = "alias" /\ Goto(x, "aliases") /\ UNCHANGED status

\* acquire_cert_for_domain waits for the issuance lock.
Queue(x) == iq' = Append(iq, x)

\* Challenge values replace whatever is at their one name, in every zone, and
\* clearing takes away whatever is there.
Publish(x) == txt' = x
ClearIfPublished(x) == txt' = IF act[x].pc = "answer" THEN None ELSE txt

\* ensure_cert_for: nothing to do for a good certificate, and an error at once
\* without DNS; otherwise wait for the issuance lock.
EnsureCert(x) ==
    /\ act[x].pc = "ensure"
    /\ \/ CertStatus(act[x].d) = "ok" /\ Goto(x, "mark") /\ UNCHANGED <<status, iq>>
       \/ CertStatus(act[x].d) # "ok" /\ ~dnsOn /\ Failed(x) /\ UNCHANGED iq
       \/ /\ CertStatus(act[x].d) # "ok" /\ dnsOn
          /\ Queue(x) /\ UNCHANGED status
          /\ act' = [act EXCEPT ![x].pc = "issue", ![x].n = 1]
    /\ UNCHANGED <<table, tls, primary, txt, cert, caddyfile, renewal, acquireElse>>

\* An order, whose challenges are published in every zone; none are when the
\* authority still holds every authorisation valid.
Order(x) ==
    /\ act[x].pc = "issue" /\ First1(iq, x)
    /\ \/ Publish(x) /\ Goto(x, "answer")
       \/ Goto(x, "poll") /\ UNCHANGED txt
    /\ UNCHANGED <<rows, iq, cert, caddyfile, renewal, acquireElse>>

\* No account, no credentials, no answer, or a challenge for another name.
OrderFails(x) ==
    /\ act[x].pc = "issue" /\ First1(iq, x)
    /\ Failed(x) /\ iq' = Tail(iq)
    /\ UNCHANGED <<table, tls, primary, txt, cert, caddyfile, renewal, acquireElse>>

\* The authority finds the values it asked for: the challenge is cleared and the
\* pair written.
Issued(x) ==
    /\ \/ act[x].pc = "poll"
       \/ act[x].pc = "answer" /\ txt = x /\ act[x].d \in served
    /\ ClearIfPublished(x)
    /\ cert' = [cert EXCEPT ![act[x].d] = "ok"]
    /\ Goto(x, "mark")
    /\ UNCHANGED <<rows, iq, caddyfile, renewal, acquireElse>>

\* It does not: the challenge is cleared, and another order made or the error
\* raised.
Refused(x) ==
    /\ act[x].pc \in {"answer", "poll"}
    /\ ClearIfPublished(x)
    /\ \/ /\ act[x].n < MaxAttempts
          /\ act' = [act EXCEPT ![x].pc = "issue", ![x].n = @ + 1] /\ UNCHANGED <<status, iq>>
       \/ Failed(x) /\ iq' = Tail(iq)
    /\ UNCHANGED <<table, tls, primary, cert, caddyfile, renewal, acquireElse>>

\* The lock is released and the row marked active.  A request goes on to reload
\* Caddy, a renewal with its other names.
Mark(x) ==
    /\ act[x].pc = "mark"
    /\ iq' = IF First1(iq, x) THEN Tail(iq) ELSE iq
    /\ SetStatus(act[x].d, "active")
    /\ \/ /\ x \in Reqs
          /\ act' = [act EXCEPT ![x].pc = "write", ![x].kind = "none"]
          /\ UNCHANGED renewal
       \/ /\ x = Renewal
          /\ act' = [act EXCEPT ![x].pc = "aliases", ![x].n = 0]
          /\ renewal' = [renewal EXCEPT !.renewed = TRUE,
                 !.todo = IF act[x].kind = "primary" THEN (table \cap tls) \ {act[x].d} ELSE @]
    /\ UNCHANGED <<table, tls, primary, txt, cert, caddyfile, acquireElse>>

-----------------------------------------------------------------------------
(* The renewal loop *)

\* A cycle brings the rows in step with the files, and takes the primary first.
RenewCycle ==
    LET stale == {d \in table \cap tls : CertStatus(d) = "ok"} IN
    /\ Up /\ renewal.on /\ act[Renewal].pc = "idle"
    /\ status' = [d \in Names |-> IF d \in stale THEN "active" ELSE status[d]]
    /\ IF primary \in tls /\ CertStatus(primary) # "ok"
       THEN /\ act' = [act EXCEPT ![Renewal] = [pc |-> "issue", d |-> primary, kind |-> "primary", n |-> 1]]
            /\ Queue(Renewal)
            /\ renewal' = [renewal EXCEPT !.todo = {}, !.renewed = FALSE]
       ELSE /\ act' = [act EXCEPT ![Renewal] = [Idle EXCEPT !.pc = "aliases", !.kind = "alias"]]
            /\ renewal' = [renewal EXCEPT !.todo = (table \cap tls) \ {primary}, !.renewed = FALSE]
            /\ UNCHANGED iq
    /\ UNCHANGED <<table, tls, primary, txt, cert, caddyfile, acquireElse>>

\* The names of the snapshot one after the other, then Caddy if any was renewed.
NextAlias ==
    LET rest == {d \in renewal.todo : CertStatus(d) # "ok"} IN
    /\ act[Renewal].pc = "aliases"
    /\ \/ \E d \in rest :
          /\ act' = [act EXCEPT ![Renewal] = [pc |-> "issue", d |-> d, kind |-> "alias", n |-> 1]]
          /\ Queue(Renewal)
          /\ renewal' = [renewal EXCEPT !.todo = rest \ {d}]
       \/ /\ rest = {}
          /\ IF renewal.renewed
             THEN act' = [act EXCEPT ![Renewal] = [Idle EXCEPT !.pc = "write"]]
             ELSE Done(Renewal)
          /\ renewal' = [renewal EXCEPT !.todo = {}, !.renewed = FALSE]
          /\ UNCHANGED iq
    /\ UNCHANGED <<rows, txt, cert, caddyfile, acquireElse>>

-----------------------------------------------------------------------------
(* The operation lock and promotion *)

lockElse == <<table, tls, status, dns, mdns, issuing, front, renewal, proc, dnsOn, zone, broken>>

\* start_exclusive_operation never waits: it takes a free lock or refuses.  The
\* task that owns the lock releases it, whatever became of the request.
TakeLock(x) == owner = None /\ owner' = x
ReleaseLock == owner' = None

\* Mutant: a domain may be promoted before its certificate is there.
PromoteUnready(x, d) ==
    /\ Up /\ act[x].pc = "idle" /\ spent.req < MaxReq
    /\ d \in table \ {primary} /\ ~pending
    /\ act' = [act EXCEPT ![x] = [Idle EXCEPT !.pc = "begin", !.d = d, !.kind = "promote"]]
    /\ TakeLock(x) /\ spent' = [spent EXCEPT !.req = @ + 1]
    /\ UNCHANGED <<primary, pending, lockElse>>

\* make_primary_domain refuses a missing name, a restart under way, a domain
\* without a usable certificate and a lock that is taken; the task it starts
\* owns the lock from here on, also when the request is cancelled.
MakePrimary(x, d) ==
    /\ Up /\ act[x].pc = "idle" /\ spent.req < MaxReq
    /\ d \in table \ {primary} /\ ~pending
    /\ d \in tls => Usable(d)
    /\ act' = [act EXCEPT ![x] = [Idle EXCEPT !.pc = "begin", !.d = d, !.kind = "promote"]]
    /\ TakeLock(x) /\ spent' = [spent EXCEPT !.req = @ + 1]
    /\ UNCHANGED <<primary, pending, lockElse>>

\* The task looks for a restart once more before it goes to a thread.
PromoteBegin(x) ==
    /\ act[x].pc = "begin"
    /\ IF pending THEN Done(x) /\ ReleaseLock ELSE Goto(x, "thread") /\ UNCHANGED owner
    /\ UNCHANGED <<primary, pending, spent, lockElse>>

\* Mutant: the name is promoted as it was looked up.
PromoteBlindly(x) ==
    /\ act[x].pc = "thread"
    /\ primary' = act[x].d /\ Goto(x, "trigger")
    /\ UNCHANGED <<owner, pending, spent, lockElse>>

\* The transaction of set_primary_domain reads the row again.  It refuses a name
\* that is gone and apps that are busy; the agent may refuse before it.
PromoteThread(x) ==
    /\ act[x].pc = "thread"
    /\ \/ /\ act[x].d \in table \ {primary}
          /\ primary' = act[x].d /\ Goto(x, "trigger") /\ UNCHANGED owner
       \/ Done(x) /\ ReleaseLock /\ UNCHANGED primary
    /\ UNCHANGED <<pending, spent, lockElse>>

\* Mutant: the new primary waits for the next restart.
PromoteOnly(x) ==
    /\ act[x].pc = "trigger"
    /\ ReleaseLock /\ Done(x)
    /\ UNCHANGED <<primary, pending, spent, lockElse>>

\* trigger_restart, and the lock is released.
PromoteTrigger(x) ==
    /\ act[x].pc = "trigger"
    /\ pending' = TRUE /\ ReleaseLock /\ Done(x)
    /\ UNCHANGED <<primary, spent, lockElse>>

\* Configuring the archive takes the same lock.
ArchiveOperation ==
    /\ \/ Up /\ ~pending /\ TakeLock("archive")
       \/ owner = "archive" /\ ReleaseLock
    /\ UNCHANGED <<act, primary, pending, spent, lockElse>>

-----------------------------------------------------------------------------
(* The process *)

\* What lives in the process, or dies with it.
Fresh ==
    /\ proc' = "down" /\ pending' = FALSE /\ owner' = None
    /\ act' = [x \in Actors |-> Idle]
    /\ zq' = <<>> /\ iq' = <<>> /\ txt' = None
    /\ zones' = {} /\ served' = {}
    /\ mdns' = [names |-> {}, sock |-> "off"]
    /\ caddyfile' = [names |-> {}, files |-> {}] /\ caddy' = caddyfile'
    /\ renewal' = [on |-> FALSE, todo |-> {}, renewed |-> FALSE]
    /\ broken' = broken \cap {"promote"}
    /\ UNCHANGED <<rows, dnsOn, zone>>

\* SIGTERM sets the same event as trigger_restart.
Signal ==
    /\ Up /\ ~pending /\ spent.crash < MaxCrash
    /\ pending' = TRUE
    /\ spent' = [spent EXCEPT !.crash = @ + 1]
    /\ UNCHANGED <<act, primary, owner, lockElse>>

\* The server stops: requests are cancelled, which takes their challenges down,
\* but an exclusive operation goes on.
Drain ==
    /\ Up /\ pending
    /\ proc' = "drain"
    /\ act' = [x \in Actors |-> IF x \in Reqs /\ act[x].kind # "promote" THEN Idle ELSE act[x]]
    /\ zq' = <<>> /\ iq' = IF \E i \in DOMAIN iq : iq[i] = Renewal THEN <<Renewal>> ELSE <<>>
    /\ txt' = IF txt \in Reqs THEN None ELSE txt
    /\ UNCHANGED <<rows, cert, zones, served, mdns, front, renewal, owner, dnsOn, pending, zone, spent, broken>>

\* _shutdown: wait for the operations, then stop the tasks and the children.
Exit ==
    /\ proc = "drain" /\ owner = None
    /\ Fresh /\ UNCHANGED <<cert, spent>>

\* A crash may come between the writes of a certificate and of its key.
Crash ==
    /\ proc # "down" /\ spent.crash < MaxCrash
    /\ spent' = [spent EXCEPT !.crash = @ + 1]
    /\ Fresh
    /\ \/ UNCHANGED cert
       \/ \E x \in Actors :
          /\ act[x].pc \in {"answer", "poll"}
          /\ cert' = [cert EXCEPT ![act[x].d] =
                       IF CertStatus(act[x].d) = "missing" THEN "half" ELSE "torn"]

bootElse == <<table, tls, primary, status, act, zq, txt, iq, owner, pending, dnsOn, spent>>

\* The zones of the table, with the router's addresses in them, and the responder.
BootNames ==
    /\ proc = "down" /\ proc' = "cert"
    /\ zones' = IF dnsOn THEN table \ Mdns ELSE {}
    /\ served' = zones'
    /\ MdnsUpdate(table \cap Mdns)
    /\ UNCHANGED <<cert, front, renewal, zone, bootElse>>

\* _ensure_tls_cert for a TLS primary: a good certificate is used, one about to
\* expire is renewed if possible, and any other has to be acquired or the boot
\* fails.
BootCert ==
    LET need == primary \in tls /\ CertStatus(primary) # "ok" IN
    /\ proc = "cert"
    /\ \/ ~need \/ Usable(primary)
       \/ need /\ dnsOn
    /\ proc' = "caddy"
    /\ cert' \in IF need /\ dnsOn
                 THEN {[cert EXCEPT ![primary] = "ok"]} \cup (IF Usable(primary) THEN {cert} ELSE {})
                 ELSE {cert}
    /\ UNCHANGED <<zones, served, mdns, front, renewal, zone, broken, bootElse>>

BootFails ==
    /\ proc = "cert" /\ primary \in tls /\ ~Usable(primary)
    /\ Fresh /\ UNCHANGED <<cert, spent>>

\* Caddy starts on the table, and the renewal loop if there is a TLS name in it.
BootCaddy ==
    /\ proc = "caddy" /\ proc' = "up"
    /\ caddyfile' = Generated
    /\ IF \E d \in Generated.files : cert[d] = "torn"
       THEN caddy' = [names |-> {}, files |-> {}] /\ broken' = broken \cup {"caddy"}
       ELSE caddy' = Generated /\ UNCHANGED broken
    /\ renewal' = [on |-> dnsOn /\ table \cap tls # {}, todo |-> {}, renewed |-> FALSE]
    /\ zone' = primary
    /\ UNCHANGED <<cert, zones, served, mdns, bootElse>>

\* Days pass: much longer than a promotion or a restart takes.
Age(d) ==
    /\ Up /\ owner = None /\ ~pending /\ spent.age < MaxAge
    /\ cert[d] \in {"ok", "soon"}
    /\ cert' = [cert EXCEPT ![d] = IF @ = "ok" THEN "soon" ELSE "expired"]
    /\ spent' = [spent EXCEPT !.age = @ + 1]
    /\ UNCHANGED <<rows, act, dns, mdns, txt, iq, front, renewal, owner, life, broken>>

-----------------------------------------------------------------------------

Handler(x) ==
    \/ DeleteRow(x) \/ MdnsStop(x) \/ ApplyZones(x) \/ RestartDns(x)
    \/ WriteCaddyfile(x) \/ ApplyCaddyfile(x)
    \/ EnsureCert(x) \/ Order(x) \/ OrderFails(x) \/ Issued(x) \/ Refused(x) \/ Mark(x)
    \/ PromoteBegin(x) \/ PromoteThread(x) \/ PromoteTrigger(x)

Request(x) ==
    \E d \in Names :
        \/ \E withTls \in BOOLEAN : AddDomain(x, d, withTls)
        \/ RemoveDomain(x, d)
        \/ MakePrimary(x, d)

Renew == RenewCycle \/ NextAlias

Boot == BootNames \/ BootCert \/ BootFails \/ BootCaddy

Next ==
    \/ \E x \in Reqs : Request(x)
    \/ \E x \in Actors : Handler(x)
    \/ Renew \/ ArchiveOperation
    \/ Signal \/ Drain \/ Exit \/ Crash \/ Boot
    \/ \E d \in Names : Age(d)

\* Coroutines and threads make progress, an operation ends, systemd starts the
\* router again, and an authority that the renewal loop or the boot asks again and
\* again issues in the end.
Fairness ==
    /\ \A x \in Actors : WF_vars(Handler(x))
    /\ SF_vars(Order(Renewal)) /\ SF_vars(Issued(Renewal))
    /\ WF_vars(Renew) /\ WF_vars(owner = "archive" /\ ArchiveOperation)
    /\ WF_vars(Drain) /\ WF_vars(Exit) /\ WF_vars(Boot) /\ SF_vars(BootCert)

Spec == Init /\ [][Next]_vars
FairSpec == Spec /\ Fairness

-----------------------------------------------------------------------------
(* Properties *)

\* The table a client sees is the abstract one: no interleaving of the handlers,
\* the promotion's thread and a crash removes the primary, promotes a name that
\* is not there, or adds one twice ("closing the promotion/removal race").
Abstract == INSTANCE DomainTable WITH Names <- Names, First <- First,
                                     table <- table, primary <- primary
TableRefines == Abstract!Spec

\* "two concurrent changes both build on the same stale set, and the second to
\* land drops whatever the first added": once nobody changes zones, the provider
\* has exactly the public names of the table, and CoreDNS serves them unless it
\* could not be started.
DnsAgrees ==
    Up /\ dnsOn /\ (\A x \in Reqs : act[x].pc \notin {"zone", "restart"}) =>
        /\ zones = table \ Mdns
        /\ served = zones \/ "dns" \in broken

\* "so a concurrent domain change isn't dropped from the regenerated Caddyfile":
\* once no request or renewal is on its way to a reload, Caddy serves the table
\* with the certificates that are on disk, unless a child failed.
CaddyAgrees ==
    Up /\ (\A x \in Actors : act[x].pc \in {"idle", "begin", "thread", "trigger", "delete"})
       /\ broken \cap {"dns", "caddy"} = {} => caddy = Generated

\* "only listens while at least one .local domain is configured": once no handler
\* is stopping it the responder answers for the .local names of the table.  It
\* is excused when it could not listen, or was being stopped while a name came.
MdnsAgrees ==
    Up /\ (\A x \in Reqs : act[x].pc # "mdnsstop") =>
        /\ mdns.names = table \cap Mdns
        /\ (mdns.sock = "on") = (mdns.names # {}) \/ "mdns" \in broken

\* The three followers of the table, however the handlers' steps interleave.
FollowersAgree == DnsAgrees /\ CaddyAgrees /\ MdnsAgrees

\* "Promote an existing ready domain": a restart under way never meets a TLS
\* primary without a certificate, unless the name was removed and added again
\* while it was being promoted.
PromotedReady ==
    /\ (\E x \in Reqs : act[x].pc = "trigger") \/ (pending /\ primary # zone)
    /\ primary \in tls
    => Usable(primary) \/ "promote" \in broken

\* "re-drives a domain left mid-acquisition by a restart": no name stays in
\* acquiring for ever, unless a child failed or the instance serves no DNS.
AcquiringEnds ==
    \A d \in Names :
        d \in table /\ status[d] = "acquiring"
            ~> d \notin table \/ status[d] # "acquiring" \/ broken # {} \/ ~dnsOn

\* A promotion takes effect: the router boots with the primary of the table.
PrimaryTakesEffect == Up /\ primary # zone ~> zone = primary \/ "promote" \in broken
=============================================================================
