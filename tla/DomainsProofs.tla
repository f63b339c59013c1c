---------------------------- MODULE DomainsProofs ----------------------------
(***************************************************************************)
(* Proofs about Domains, for any number of names, requests, crashes and    *)
(* orders: the table that clients see is the abstract one, its three       *)
(* followers agree with it, and only a ready name is promoted.  A name in  *)
(* acquiring has somebody to acquire its certificate, and a new primary    *)
(* somebody to restart the router.                                         *)
(***************************************************************************)
EXTENDS Domains, TLAPS

-----------------------------------------------------------------------------
(* Who may be where *)

RenewalSteps == {"idle", "issue", "answer", "poll", "mark", "aliases", "write", "apply"}
Zoning == {"zone", "restart"}
Promoting == {"begin", "thread", "trigger"}

\* The renewal takes its own road; only a request for a public name changes
\* zones, and only on an instance with DNS; a promotion holds the operation lock.
Roles ==
    /\ act[Renewal].pc \in RenewalSteps /\ act[Renewal].kind \in {"none", "primary", "alias"}
    /\ renewal.renewed => \/ act[Renewal].pc = "aliases"
                          \/ act[Renewal].pc \in {"issue", "answer", "poll", "mark"} /\ act[Renewal].kind = "alias"
    /\ \A x \in Reqs :
         /\ act[x].pc # "aliases"
         /\ act[x].pc = "delete" => act[x].kind = "remove"
         /\ act[x].pc \in Zoning => act[x].d \in Names \ Mdns /\ dnsOn
         /\ act[x].pc \in Promoting <=> act[x].kind = "promote"
         /\ act[x].kind = "promote" => owner = x

\* A router that is starting has nothing in flight yet.
Starting ==
    proc \in {"down", "cert", "caddy"} =>
        /\ act = [x \in Actors |-> Idle] /\ zq = <<>> /\ ~pending
        /\ ~renewal.renewed
        /\ proc = "down" => mdns = [names |-> {}, sock |-> "off"]

PrimaryListed == primary \in table

\* Who orders a certificate is in the queue of the issuance lock, and at its
\* head once the order is placed.
IssueOK ==
    \A x \in Actors :
        /\ act[x].pc \in {"issue", "answer", "poll"} => \E i \in 1..Len(iq) : iq[i] = x
        /\ act[x].pc \in {"answer", "poll"} => iq # <<>> /\ iq[1] = x

-----------------------------------------------------------------------------
(* The zones *)

Waiting(d) == {i \in 1..Len(zq) : act[zq[i]].pc = "zone" /\ act[zq[i]].d = d}

\* The queue of the zone lock holds each request that changes zones once, and
\* its head alone may have changed them.
QueueOK ==
    /\ \A x \in Reqs : act[x].pc \in Zoning => \E i \in 1..Len(zq) : zq[i] = x
    /\ \A i \in 1..Len(zq) : act[zq[i]].pc \in Zoning /\ (i # 1 => act[zq[i]].pc = "zone")
    /\ \A i, j \in 1..Len(zq) : zq[i] = zq[j] => i = j

\* A name nobody waits for is served as the table has it; one that is waited for
\* will be as the last in the queue leaves it.
ZonesFollow ==
    proc \in {"cert", "caddy", "up"} /\ dnsOn =>
        \A d \in Names \ Mdns :
            /\ Waiting(d) = {} => (d \in zones <=> d \in table)
            /\ \A i \in Waiting(d) :
                 (\A j \in Waiting(d) : j <= i) => (d \in table <=> act[zq[i]].kind # "remove")

ServedFollow ==
    proc \in {"cert", "caddy", "up"} =>
        served = zones \/ "dns" \in broken \/ \E x \in Reqs : act[x].pc = "restart"

-----------------------------------------------------------------------------
(* The responder and Caddy *)

Responds ==
    proc \in {"cert", "caddy", "up"} =>
        /\ mdns.names = table \cap Mdns
        /\ "mdns" \notin broken =>
             /\ mdns.sock = "on" => mdns.names # {}
             /\ mdns.sock = "off" => mdns.names = {}
             /\ mdns.sock = "stopping" => \E x \in Reqs : act[x].pc = "mdnsstop"

\* Who has changed the table or a certificate and has not written the Caddyfile.
Owing(x) ==
    \/ act[x].pc \in Zoning \cup {"mdnsstop", "write", "mark"}
    \/ x = Renewal /\ renewal.renewed

FileWritten ==
    Up /\ broken \cap {"dns", "caddy"} = {} => caddyfile = Generated \/ \E x \in Actors : Owing(x)

FileLoaded ==
    Up /\ broken \cap {"dns", "caddy"} = {} => caddy = caddyfile \/ \E x \in Actors : act[x].pc = "apply"

-----------------------------------------------------------------------------
(* Promotion *)

\* Usable, by the files: get_cert_status passes a pair that does not match.
Good(d) == d \in tls => cert[d] \in {"ok", "torn", "soon"} \/ "promote" \in broken

\* What is being promoted is ready, and so is a primary this process did not
\* boot with; whoever made it primary is about to ask for a restart or has.
Promotable ==
    /\ \A x \in Reqs : act[x].kind = "promote" => Good(act[x].d)
    /\ \A x \in Reqs : act[x].pc = "trigger" => primary = act[x].d
    /\ proc \in {"up", "drain"} /\ primary # zone =>
         Good(primary) /\ (pending \/ \E x \in Reqs : act[x].pc = "trigger")

-----------------------------------------------------------------------------
(* Types, a group of variables at a time *)

USE NamesAssumption, ActorsAssumption, DomainBoundsAssumption

Slot == [pc : Steps, d : Names, kind : Kinds, n : 0..MaxAttempts]
ActType == act \in [Actors -> Slot]
TableType == table \subseteq Names /\ tls \subseteq Names /\ primary \in Names

LEMMA IdleIsSlot == Idle \in Slot
  BY DEF Idle, Slot, Steps, Kinds

LEMMA ActPreserved ==
    ActType /\ TableType /\ renewal.todo \subseteq Names /\ [Next]_vars => ActType'
  <1> SUFFICES ASSUME ActType, TableType, renewal.todo \subseteq Names, [Next]_vars
               PROVE  ActType'
    OBVIOUS
  <1> USE IdleIsSlot DEF ActType, TableType, Goto, Done
  <1>1. ASSUME NEW x \in Actors, NEW y \in Steps, Goto(x, y) PROVE ActType'
    BY <1>1 DEF Slot
  <1>2. ASSUME NEW x \in Actors, Done(x) PROVE ActType'
    BY <1>2
  <1>3. ASSUME NEW x \in Actors, NEW r \in Slot, act' = [act EXCEPT ![x] = r] PROVE ActType'
    BY <1>3
  <1>4. ASSUME NEW x \in Reqs, NEW d \in Names, NEW withTls \in BOOLEAN, AddDomain(x, d, withTls)
        PROVE  ActType'
    BY <1>4 DEF AddDomain, Idle, Slot, Actors, Steps, Kinds
  <1>5. ASSUME NEW x \in Reqs, NEW d \in Names, RemoveDomain(x, d) PROVE ActType'
    BY <1>5 DEF RemoveDomain, Idle, Slot, Actors, Steps, Kinds
  <1>6. ASSUME NEW x \in Reqs, NEW d \in Names, MakePrimary(x, d) PROVE ActType'
    BY <1>6 DEF MakePrimary, Idle, Slot, Actors, Steps, Kinds
  <1> HIDE DEF Goto, Done
  <1>7. ASSUME NEW x \in Actors, DeleteRow(x) \/ MdnsStop(x) \/ ApplyZones(x) \/ RestartDns(x)
                 \/ WriteCaddyfile(x) \/ ApplyCaddyfile(x) \/ Order(x) \/ Issued(x)
                 \/ PromoteBegin(x) \/ PromoteThread(x) \/ PromoteTrigger(x)
        PROVE  Done(x) \/ \E y \in Steps : Goto(x, y)
    BY <1>7 DEF DeleteRow, MdnsStop, ApplyZones, RestartDns, WriteCaddyfile, ApplyCaddyfile, Order, Issued,
         PromoteBegin, PromoteThread, PromoteTrigger, Steps
  <1>8. ASSUME NEW x \in Actors, Failed(x) PROVE ActType'
    BY <1>1, <1>2, <1>8 DEF Failed, Steps
  <1>9. ASSUME NEW x \in Actors, EnsureCert(x) \/ OrderFails(x) \/ Refused(x)
        PROVE  Failed(x) \/ Goto(x, "mark") \/ \E n \in 0..MaxAttempts : act' = [act EXCEPT ![x].pc = "issue", ![x].n = n]
    BY <1>9 DEF EnsureCert, OrderFails, Refused, Slot
  <1>10. ASSUME NEW x \in Actors, NEW n \in 0..MaxAttempts, act' = [act EXCEPT ![x].pc = "issue", ![x].n = n]
         PROVE  ActType'
    BY <1>10 DEF Slot, Steps
  <1>11. ASSUME NEW x \in Actors, Mark(x) PROVE ActType'
    <2>1. \/ act' = [act EXCEPT ![x].pc = "write", ![x].kind = "none"]
          \/ act' = [act EXCEPT ![x].pc = "aliases", ![x].n = 0]
      BY <1>11 DEF Mark
    <2>2. 0 \in 0..MaxAttempts
      OBVIOUS
    <2> QED
      BY <2>1, <2>2 DEF Slot, Steps, Kinds
  <1>12. CASE Renew
    <2>1. \/ act' = [act EXCEPT ![Renewal] = [Idle EXCEPT !.pc = "write"]]
          \/ act' = [act EXCEPT ![Renewal] = [Idle EXCEPT !.pc = "aliases", !.kind = "alias"]]
          \/ Done(Renewal)
          \/ \E d \in Names, k \in {"primary", "alias"} :
                act' = [act EXCEPT ![Renewal] = [pc |-> "issue", d |-> d, kind |-> k, n |-> 1]]
      BY <1>12 DEF Renew, RenewCycle, NextAlias
    <2>2. /\ [Idle EXCEPT !.pc = "write"] \in Slot
          /\ [Idle EXCEPT !.pc = "aliases", !.kind = "alias"] \in Slot
      BY DEF Idle, Slot, Steps, Kinds
    <2>3. ASSUME NEW d \in Names, NEW k \in {"primary", "alias"}
          PROVE  [pc |-> "issue", d |-> d, kind |-> k, n |-> 1] \in Slot
      <3>1. 1 \in 0..MaxAttempts
        OBVIOUS
      <3> QED
        BY <3>1 DEF Slot, Steps, Kinds
    <2> QED
      BY <1>2, <1>3, <2>1, <2>2, <2>3 DEF Actors
  <1>13. CASE ArchiveOperation \/ Signal \/ Boot \/ (\E d \in Names : Age(d)) \/ UNCHANGED vars
    <2>1. UNCHANGED act \/ act' = [x \in Actors |-> Idle]
      BY <1>13 DEF ArchiveOperation, Signal, Boot, BootNames, BootCert, BootFails, BootCaddy, Fresh, bootElse,
         Age, vars
    <2> QED
      BY <2>1
  <1>14. CASE Drain \/ Exit \/ Crash
    BY <1>14 DEF Drain, Exit, Crash, Fresh
  <1>15. ASSUME NEW x \in Reqs, Request(x) PROVE ActType'
    BY <1>4, <1>5, <1>6, <1>15 DEF Request
  <1>16. ASSUME NEW x \in Actors, Handler(x) PROVE ActType'
    <2>1. CASE Done(x) \/ \E y \in Steps : Goto(x, y)
      BY <1>1, <1>2, <2>1
    <2>2. CASE EnsureCert(x) \/ OrderFails(x) \/ Refused(x)
      BY <1>1, <1>8, <1>9, <1>10, <2>2 DEF Steps
    <2> QED
      BY <1>7, <1>11, <1>16, <2>1, <2>2 DEF Handler
  <1> QED
    BY <1>12, <1>13, <1>14, <1>15, <1>16 DEF Next

LEMMA TablePreserved == TableType /\ ActType /\ [Next]_vars => TableType'
  <1> SUFFICES ASSUME TableType, ActType, [Next]_vars PROVE TableType'
    OBVIOUS
  <1> USE DEF TableType, rows
  <1>1. ASSUME NEW x \in Reqs, Request(x) PROVE TableType'
    BY <1>1 DEF Request, AddDomain, RemoveDomain, MakePrimary, lockElse
  <1>2. ASSUME NEW x \in Actors, DeleteRow(x) PROVE TableType'
    BY <1>2 DEF DeleteRow
  <1>3. ASSUME NEW x \in Actors, PromoteThread(x) PROVE TableType'
    BY <1>3 DEF PromoteThread, lockElse
  <1>4. ASSUME NEW x \in Actors, MdnsStop(x) \/ ApplyZones(x) \/ RestartDns(x)
                 \/ WriteCaddyfile(x) \/ ApplyCaddyfile(x) \/ Order(x) \/ Issued(x)
                 \/ EnsureCert(x) \/ OrderFails(x) \/ Refused(x) \/ Mark(x)
                 \/ PromoteBegin(x) \/ PromoteTrigger(x)
        PROVE  UNCHANGED <<table, tls, primary>>
    BY <1>4 DEF MdnsStop, ApplyZones, RestartDns, WriteCaddyfile, ApplyCaddyfile, Order, Issued,
         EnsureCert, OrderFails, Refused, Mark, PromoteBegin, PromoteTrigger, zoneElse, lockElse
  <1>5. CASE Renew \/ ArchiveOperation \/ Signal \/ Drain \/ Exit \/ Crash \/ Boot
               \/ (\E d \in Names : Age(d)) \/ UNCHANGED vars
    BY <1>5 DEF Renew, RenewCycle, NextAlias, ArchiveOperation, Signal, Drain, Exit, Crash, Fresh, Boot,
         BootNames, BootCert, BootFails, BootCaddy, bootElse, Age, lockElse, vars
  <1> QED
    BY <1>1, <1>2, <1>3, <1>4, <1>5 DEF Next, Handler

StatusType == status \in [Names -> {"none", "acquiring", "active", "error"}]
CertType == cert \in [Names -> {"missing", "half", "torn", "ok", "soon", "expired"}]
QueueType == zq \in Seq(Reqs) /\ iq \in Seq(Actors)
ZonesType == zones \subseteq Names \ Mdns /\ served \subseteq Names \ Mdns
MdnsType == mdns \in [names : SUBSET Mdns, sock : {"off", "on", "stopping"}]
CaddyType ==
    /\ caddyfile \in [names : SUBSET Names, files : SUBSET Names]
    /\ caddy \in [names : SUBSET Names, files : SUBSET Names]
RenewalType == renewal \in [on : BOOLEAN, todo : SUBSET Names, renewed : BOOLEAN]
LifeType ==
    /\ proc \in {"down", "cert", "caddy", "up", "drain"} /\ dnsOn \in BOOLEAN
    /\ pending \in BOOLEAN /\ zone \in Names \cup {None}
    /\ owner \in Reqs \cup {"archive", None} /\ txt \in Actors \cup {None}
    /\ broken \subseteq {"dns", "mdns", "caddy", "promote"}
SpentType == spent \in [req : 0..MaxReq, crash : 0..MaxCrash, age : 0..MaxAge]

LEMMA TypeParts ==
    TypeOK <=> /\ ActType /\ TableType /\ StatusType /\ CertType /\ QueueType /\ ZonesType
               /\ MdnsType /\ CaddyType /\ RenewalType /\ LifeType /\ SpentType
  BY DEF TypeOK, ActType, Slot, TableType, StatusType, CertType, QueueType, ZonesType, MdnsType, CaddyType,
     RenewalType, LifeType, SpentType

LEMMA TypeInit == Init => TypeOK
  <1> SUFFICES ASSUME Init PROVE TypeOK
    OBVIOUS
  <1>1. ActType
    BY IdleIsSlot DEF Init, ActType
  <1>2. StatusType
    BY DEF Init, StatusType
  <1>3. CertType
    BY DEF Init, CertType
  <1>4. QueueType /\ ZonesType
    BY DEF Init, QueueType, ZonesType
  <1>5. MdnsType
    BY DEF Init, MdnsType
  <1>6. CaddyType
    BY DEF Init, CaddyType
  <1>7. RenewalType
    BY DEF Init, RenewalType
  <1>8. SpentType
    <2>1. 0 \in 0..MaxReq /\ 0 \in 0..MaxCrash /\ 0 \in 0..MaxAge
      OBVIOUS
    <2> QED
      BY <2>1 DEF Init, SpentType
  <1>9. LifeType /\ TableType
    BY DEF Init, LifeType, TableType
  <1> QED
    BY <1>1, <1>2, <1>3, <1>4, <1>5, <1>6, <1>7, <1>8, <1>9, TypeParts

LEMMA StatusPreserved == StatusType /\ [Next]_vars => StatusType'
  <1> SUFFICES ASSUME StatusType, [Next]_vars PROVE StatusType'
    OBVIOUS
  <1> USE DEF StatusType, rows
  <1>0. ASSUME NEW d, NEW s \in {"active", "error"}, SetStatus(d, s) PROVE StatusType'
    BY <1>0 DEF SetStatus
  <1>1. ASSUME NEW x \in Reqs, Request(x) PROVE StatusType'
    BY <1>1 DEF Request, AddDomain, RemoveDomain, MakePrimary, lockElse
  <1>2. ASSUME NEW x \in Actors, Failed(x) \/ Mark(x) PROVE StatusType'
    BY <1>0, <1>2 DEF Failed, Mark
  <1>3. ASSUME NEW x \in Actors, EnsureCert(x) \/ OrderFails(x) \/ Refused(x)
        PROVE  UNCHANGED status \/ Failed(x)
    BY <1>3 DEF EnsureCert, OrderFails, Refused
  <1>4. ASSUME NEW x \in Actors, DeleteRow(x) \/ MdnsStop(x) \/ ApplyZones(x) \/ RestartDns(x)
                 \/ WriteCaddyfile(x) \/ ApplyCaddyfile(x) \/ Order(x) \/ Issued(x)
                 \/ PromoteBegin(x) \/ PromoteThread(x) \/ PromoteTrigger(x)
        PROVE  UNCHANGED status
    BY <1>4 DEF DeleteRow, MdnsStop, ApplyZones, RestartDns, WriteCaddyfile, ApplyCaddyfile, Order, Issued,
         PromoteBegin, PromoteThread, PromoteTrigger, zoneElse, lockElse
  <1>5. CASE Renew
    BY <1>5 DEF Renew, RenewCycle, NextAlias
  <1>6. CASE ArchiveOperation \/ Signal \/ Drain \/ Exit \/ Crash \/ Boot
               \/ (\E d \in Names : Age(d)) \/ UNCHANGED vars
    BY <1>6 DEF ArchiveOperation, Signal, Drain, Exit, Crash, Fresh, Boot,
         BootNames, BootCert, BootFails, BootCaddy, bootElse, Age, lockElse, vars
  <1> QED
    BY <1>1, <1>2, <1>3, <1>4, <1>5, <1>6 DEF Next, Handler

LEMMA CertPreserved == CertType /\ ActType /\ TableType /\ [Next]_vars => CertType'
  <1> SUFFICES ASSUME CertType, ActType, TableType, [Next]_vars PROVE CertType'
    OBVIOUS
  <1> USE DEF CertType, issuing
  <1>1. ASSUME NEW x \in Reqs, Request(x) PROVE UNCHANGED cert
    BY <1>1 DEF Request, AddDomain, RemoveDomain, MakePrimary, lockElse, requestElse
  <1>2. ASSUME NEW x \in Actors, Issued(x) PROVE CertType'
    BY <1>2 DEF Issued, ActType, Slot
  <1>3. ASSUME NEW x \in Actors, DeleteRow(x) \/ MdnsStop(x) \/ ApplyZones(x) \/ RestartDns(x)
                 \/ WriteCaddyfile(x) \/ ApplyCaddyfile(x) \/ Order(x) \/ EnsureCert(x)
                 \/ OrderFails(x) \/ Refused(x) \/ Mark(x)
                 \/ PromoteBegin(x) \/ PromoteThread(x) \/ PromoteTrigger(x)
        PROVE  UNCHANGED cert
    BY <1>3 DEF DeleteRow, MdnsStop, ApplyZones, RestartDns, WriteCaddyfile, ApplyCaddyfile, Order,
         EnsureCert, OrderFails, Refused, Mark, PromoteBegin, PromoteThread, PromoteTrigger, zoneElse,
         lockElse, requestElse
  <1>4. CASE Renew \/ ArchiveOperation \/ Signal \/ Drain \/ Exit \/ BootNames \/ BootFails \/ BootCaddy
               \/ UNCHANGED vars
    BY <1>4 DEF Renew, RenewCycle, NextAlias, ArchiveOperation, Signal, Drain, Exit, Fresh,
         BootNames, BootFails, BootCaddy, lockElse, vars
  <1>5. CASE Crash
    BY <1>5 DEF Crash, ActType, Slot
  <1>6. CASE BootCert
    BY <1>6 DEF BootCert, TableType
  <1>7. ASSUME NEW d \in Names, Age(d) PROVE CertType'
    BY <1>7 DEF Age
  <1> QED
    BY <1>1, <1>2, <1>3, <1>4, <1>5, <1>6, <1>7 DEF Next, Handler, Boot

-----------------------------------------------------------------------------
(* Roles *)

Drained == [x \in Actors |-> IF x \in Reqs /\ act[x].kind # "promote" THEN Idle ELSE act[x]]

\* What a request begins as.
Begins(x, y, d, k) ==
    /\ act[x].pc = "idle" /\ Up
    /\ act'[x].pc = y /\ act'[x].d = d /\ act'[x].kind = k
    /\ \A z \in Actors \ {x} : act'[z] = act[z]

LEMMA AddBegins ==
    ASSUME ActType, NEW x \in Reqs, NEW d \in Names, NEW withTls \in BOOLEAN, AddDomain(x, d, withTls)
    PROVE  Begins(x, IF d \in Mdns \/ ~dnsOn THEN "write" ELSE "zone", d, IF withTls THEN "addtls" ELSE "addplain")
  <1>1. x \in Actors /\ act[x].pc = "idle" /\ Up
    BY DEF Actors, AddDomain
  <1>2. \A y, k : LET r == [Idle EXCEPT !.d = d, !.kind = k, !.pc = y]
                IN  r.pc = y /\ r.d = d /\ r.kind = k
    BY DEF Idle
  <1>3. act' = [act EXCEPT ![x] = [Idle EXCEPT !.d = d,
                 !.kind = IF withTls THEN "addtls" ELSE "addplain",
                 !.pc = IF d \in Mdns \/ ~dnsOn THEN "write" ELSE "zone"]]
    BY DEF AddDomain
  <1> HIDE DEF Idle
  <1> QED
    BY <1>1, <1>2, <1>3 DEF Begins, ActType

LEMMA RemoveBegins ==
    ASSUME ActType, NEW x \in Reqs, NEW d \in Names, RemoveDomain(x, d)
    PROVE  Begins(x, "delete", d, "remove")
  BY DEF RemoveDomain, Begins, Actors, ActType, Idle

LEMMA PromoteBegins ==
    ASSUME ActType, NEW x \in Reqs, NEW d \in Names, MakePrimary(x, d)
    PROVE  Begins(x, "begin", d, "promote")
  BY DEF MakePrimary, Begins, Actors, ActType, Idle

\* What a step of the renewal loop does to its own slot and to the issuance lock.
LEMMA RenewSteps ==
    ASSUME ActType, Renew
    PROVE  /\ \A y \in Actors \ {Renewal} : act'[y] = act[y]
           /\ act[Renewal].pc \in {"idle", "aliases"}
           /\ \/ /\ Queue(Renewal)
                 /\ act'[Renewal].pc = "issue"
                 /\ \/ act'[Renewal].kind = "primary" /\ ~renewal'.renewed
                    \/ act'[Renewal].kind = "alias"
              \/ /\ UNCHANGED iq
                 /\ act'[Renewal].pc \in {"idle", "aliases", "write"}
                 /\ act'[Renewal].kind \in {"none", "alias"}
                 /\ ~renewal'.renewed
  <1>0. Renewal \in Actors /\ DOMAIN act = Actors
    BY DEF ActType, Actors
  <1>1. /\ [Idle EXCEPT !.pc = "aliases", !.kind = "alias"].pc = "aliases"
        /\ [Idle EXCEPT !.pc = "aliases", !.kind = "alias"].kind = "alias"
    BY DEF Idle
  <1>2. [Idle EXCEPT !.pc = "write"].pc = "write" /\ [Idle EXCEPT !.pc = "write"].kind = "none"
    BY DEF Idle
  <1>3. CASE RenewCycle
    <2>1. CASE /\ act' = [act EXCEPT ![Renewal] = [pc |-> "issue", d |-> primary, kind |-> "primary", n |-> 1]]
               /\ Queue(Renewal)
               /\ renewal' = [renewal EXCEPT !.todo = {}, !.renewed = FALSE]
               /\ act[Renewal].pc = "idle"
      BY <1>0, <2>1
    <2>2. CASE /\ act' = [act EXCEPT ![Renewal] = [Idle EXCEPT !.pc = "aliases", !.kind = "alias"]]
               /\ renewal' = [renewal EXCEPT !.todo = (table \cap tls) \ {primary}, !.renewed = FALSE]
               /\ UNCHANGED iq
               /\ act[Renewal].pc = "idle"
      BY <1>0, <1>1, <2>2
    <2> QED
      BY <1>3, <2>1, <2>2 DEF RenewCycle
  <1>4. CASE NextAlias
    <2>1. CASE /\ \E d \in renewal.todo :
                     act' = [act EXCEPT ![Renewal] = [pc |-> "issue", d |-> d, kind |-> "alias", n |-> 1]]
               /\ Queue(Renewal)
               /\ act[Renewal].pc = "aliases"
      BY <1>0, <2>1
    <2>2. CASE /\ \/ act' = [act EXCEPT ![Renewal] = [Idle EXCEPT !.pc = "write"]]
                  \/ Done(Renewal)
               /\ renewal' = [renewal EXCEPT !.todo = {}, !.renewed = FALSE]
               /\ UNCHANGED iq
               /\ act[Renewal].pc = "aliases"
      BY <1>0, <1>2, <2>2 DEF Done, Idle
    <2> QED
      BY <1>4, <2>1, <2>2 DEF NextAlias
  <1> QED
    BY <1>3, <1>4 DEF Renew

LEMMA RolesPreserved ==
    ASSUME ActType, RenewalType, Roles, Starting, [Next]_vars
    PROVE  Roles'
  <1> USE DEF Roles, RenewalSteps, Zoning, Promoting, ActType, RenewalType, Goto, Done, issuing, life, Idle
  <1>1. ASSUME NEW x \in Reqs, NEW d \in Names, NEW withTls \in BOOLEAN, AddDomain(x, d, withTls)
        PROVE  Roles'
    <2>1. UNCHANGED <<renewal, dnsOn, owner>>
      BY <1>1 DEF AddDomain, requestElse
    <2> QED
      BY <1>1, <2>1, AddBegins DEF Begins, Actors
  <1>2. ASSUME NEW x \in Reqs, NEW d \in Names, RemoveDomain(x, d)
        PROVE  Roles'
    <2>1. UNCHANGED <<renewal, dnsOn, owner>>
      BY <1>2 DEF RemoveDomain, requestElse
    <2> QED
      BY <1>2, <2>1, RemoveBegins DEF Begins, Actors
  <1>3. ASSUME NEW x \in Reqs, NEW d \in Names, MakePrimary(x, d)
        PROVE  Roles'
    <2>1. UNCHANGED <<renewal, dnsOn>> /\ owner = None /\ owner' = x
      BY <1>3 DEF MakePrimary, TakeLock, lockElse
    <2> QED
      BY <1>3, <2>1, PromoteBegins DEF Begins, Actors
  <1>4. ASSUME NEW x \in Actors, DeleteRow(x) PROVE Roles'
    <2>1. x \in Reqs /\ act[x].d \in Names /\ act[x].kind # "promote" /\ UNCHANGED <<renewal, dnsOn, owner>>
      BY <1>4 DEF DeleteRow, requestElse, Actors, Slot
    <2>2. CASE Done(x) \/ Goto(x, "mdnsstop") \/ Goto(x, "write")
      BY <2>1, <2>2 DEF Actors, Slot
    <2>3. CASE act[x].d \notin Mdns /\ dnsOn /\ Goto(x, "zone")
      BY <2>1, <2>3 DEF Actors, Slot
    <2> QED
      BY <1>4, <2>2, <2>3 DEF DeleteRow
  <1>5. ASSUME NEW x \in Actors, MdnsStop(x) \/ RestartDns(x) \/ ApplyZones(x) PROVE Roles'
    BY <1>5 DEF MdnsStop, RestartDns, ApplyZones, zoneElse, Actors, Slot
  <1>6. ASSUME NEW x \in Actors, WriteCaddyfile(x) \/ ApplyCaddyfile(x) PROVE Roles'
    BY <1>6 DEF WriteCaddyfile, ApplyCaddyfile, Actors, Slot
  <1>7. ASSUME NEW x \in Actors, Order(x) \/ Issued(x) PROVE Roles'
    BY <1>7 DEF Order, Issued, acquireElse, Actors, Slot
  <1>8. ASSUME NEW x \in Actors, act[x].pc \in {"ensure", "issue", "answer", "poll"}, Failed(x),
               UNCHANGED <<renewal, dnsOn, owner>>
        PROVE  Roles'
    BY <1>8 DEF Failed, Actors, Slot
  <1>9. ASSUME NEW x \in Actors, EnsureCert(x) \/ OrderFails(x) \/ Refused(x) PROVE Roles'
    <2>1. UNCHANGED <<renewal, dnsOn, owner>> /\ act[x].pc \in {"ensure", "issue", "answer", "poll"}
      BY <1>9 DEF EnsureCert, OrderFails, Refused, acquireElse, First1
    <2>2. \/ Failed(x) \/ Goto(x, "mark")
          \/ \E n : act' = [act EXCEPT ![x].pc = "issue", ![x].n = n]
      BY <1>9 DEF EnsureCert, OrderFails, Refused
    <2>3. CASE Goto(x, "mark") \/ \E n : act' = [act EXCEPT ![x].pc = "issue", ![x].n = n]
      BY <2>1, <2>3 DEF Actors, Slot
    <2> QED
      BY <1>8, <2>1, <2>2, <2>3
  <1>10. ASSUME NEW x \in Actors, Mark(x) PROVE Roles'
    BY <1>10 DEF Mark, acquireElse, Actors, Slot
  <1>11. ASSUME NEW x \in Actors, PromoteBegin(x) \/ PromoteThread(x) \/ PromoteTrigger(x)
         PROVE  Roles'
    BY <1>11 DEF PromoteBegin, PromoteThread, PromoteTrigger, ReleaseLock, lockElse, Actors, Slot
  <1>12. CASE Renew
    <2>1. UNCHANGED <<dnsOn, owner>>
      BY <1>12 DEF Renew, RenewCycle, NextAlias, acquireElse
    <2> QED
      BY <1>12, <2>1, RenewSteps DEF Actors
  <1>13. CASE ArchiveOperation
    BY <1>13 DEF ArchiveOperation, TakeLock, ReleaseLock, lockElse
  <1>14. CASE Signal \/ (\E d \in Names : Age(d)) \/ UNCHANGED vars
    BY <1>14 DEF Signal, Age, lockElse, vars
  <1>15. CASE Drain
    BY <1>15 DEF Drain, front, Actors, Slot
  <1>16. CASE Exit \/ Crash \/ BootFails
    BY <1>16 DEF Exit, Crash, BootFails, Fresh, Actors
  <1>17. CASE BootNames \/ BootCert \/ BootCaddy
    BY <1>17 DEF BootNames, BootCert, BootCaddy, bootElse, Starting, Actors
  <1> QED
    BY <1>1, <1>2, <1>3, <1>4, <1>5, <1>6, <1>7, <1>9, <1>10, <1>11, <1>12, <1>13, <1>14,
       <1>15, <1>16, <1>17 DEF Next, Request, Handler, Boot

LEMMA StartingPreserved ==
    ASSUME Starting, Roles, [Next]_vars
    PROVE  Starting'
  <1> USE DEF Starting
  <1>1. CASE Exit \/ Crash \/ BootFails
    BY <1>1 DEF Exit, Crash, BootFails, Fresh
  <1>2. CASE BootNames \/ BootCert \/ BootCaddy
    BY <1>2 DEF BootNames, BootCert, BootCaddy, bootElse
  <1>3. CASE Signal \/ Drain \/ Renew \/ (\E d \in Names : Age(d)) \/ ArchiveOperation \/ UNCHANGED vars
    BY <1>3 DEF Signal, Drain, Renew, RenewCycle, NextAlias, Age, ArchiveOperation, TakeLock, lockElse, acquireElse,
         dns, life, Up, vars, Idle, Actors
  <1>4. ASSUME NEW x \in Reqs, Request(x) PROVE Starting'
    BY <1>4 DEF Request, AddDomain, RemoveDomain, MakePrimary, requestElse, lockElse, life, Up
  <1>5. ASSUME NEW x \in Actors, Handler(x), proc \in {"down", "cert", "caddy"} PROVE FALSE
    <2>1. act[x].pc = "idle"
      BY <1>5 DEF Idle
    <2> QED
      BY <1>5, <2>1 DEF Handler, DeleteRow, MdnsStop, ApplyZones, RestartDns, WriteCaddyfile,
         ApplyCaddyfile, EnsureCert, Order, OrderFails, Issued, Refused, Mark, PromoteBegin, PromoteThread, PromoteTrigger
  <1>6. ASSUME NEW x \in Actors, Handler(x) PROVE UNCHANGED proc
    BY <1>6 DEF Handler, DeleteRow, MdnsStop, ApplyZones, RestartDns, WriteCaddyfile,
         ApplyCaddyfile, EnsureCert, Order, OrderFails, Issued, Refused, Mark, PromoteBegin, PromoteThread, PromoteTrigger,
         requestElse, zoneElse, acquireElse, lockElse, life
  <1> QED
    BY <1>1, <1>2, <1>3, <1>4, <1>5, <1>6 DEF Next, Boot

\* Nobody takes the primary out of the table: DELETE looks at both at once, and
\* so does the transaction of a promotion.
LEMMA ListedPreserved == PrimaryListed /\ [Next]_vars => PrimaryListed'
  <1> SUFFICES ASSUME PrimaryListed, [Next]_vars PROVE PrimaryListed'
    OBVIOUS
  <1> USE DEF PrimaryListed, rows
  <1>1. ASSUME NEW x \in Reqs, Request(x) PROVE PrimaryListed'
    <2>1. primary' = primary /\ table \subseteq table'
      BY <1>1 DEF Request, AddDomain, RemoveDomain, MakePrimary, lockElse
    <2> QED
      BY <2>1
  <1>2. ASSUME NEW x \in Actors, DeleteRow(x) \/ PromoteThread(x) PROVE PrimaryListed'
    BY <1>2 DEF DeleteRow, PromoteThread, lockElse
  <1>4. ASSUME NEW x \in Actors, MdnsStop(x) \/ ApplyZones(x) \/ RestartDns(x)
                 \/ WriteCaddyfile(x) \/ ApplyCaddyfile(x) \/ Order(x) \/ Issued(x)
                 \/ EnsureCert(x) \/ OrderFails(x) \/ Refused(x) \/ Mark(x)
                 \/ PromoteBegin(x) \/ PromoteTrigger(x)
        PROVE  UNCHANGED <<table, primary>>
    BY <1>4 DEF MdnsStop, ApplyZones, RestartDns, WriteCaddyfile, ApplyCaddyfile, Order, Issued,
         EnsureCert, OrderFails, Refused, Mark, PromoteBegin, PromoteTrigger, zoneElse, lockElse
  <1>5. CASE Renew \/ ArchiveOperation \/ Signal \/ Drain \/ Exit \/ Crash \/ Boot
               \/ (\E d \in Names : Age(d)) \/ UNCHANGED vars
    BY <1>5 DEF Renew, RenewCycle, NextAlias, ArchiveOperation, Signal, Drain, Exit, Crash, Fresh, Boot,
         BootNames, BootCert, BootFails, BootCaddy, bootElse, Age, lockElse, vars
  <1> QED
    BY <1>1, <1>2, <1>4, <1>5 DEF Next, Handler

-----------------------------------------------------------------------------
(* The queues of the two locks *)

LEMMA IssuePreserved ==
    ASSUME ActType, QueueType, Roles, IssueOK, [Next]_vars
    PROVE  iq' \in Seq(Actors) /\ IssueOK'
  <1> DEFINE Goal == iq' \in Seq(Actors) /\ IssueOK'
  <1> DEFINE Orders == {"issue", "answer", "poll"}
  <1> USE DEF QueueType
  \* The steps of those who are not waiting for the lock, nor take it.
  <1>1. ASSUME UNCHANGED iq, \A x \in Actors : act'[x].pc \in Orders => act[x].pc = act'[x].pc
        PROVE  Goal
    BY <1>1 DEF IssueOK
  <1>2. ASSUME NEW x \in Actors, act[x].pc \notin Orders, Queue(x),
               act'[x].pc = "issue", \A y \in Actors \ {x} : act'[y] = act[y]
        PROVE  Goal
    <2>1. iq' \in Seq(Actors) /\ Len(iq') = Len(iq) + 1 /\ iq'[Len(iq) + 1] = x
          /\ \A i \in 1..Len(iq) : iq'[i] = iq[i]
      BY <1>2 DEF Queue
    <2>2. iq # <<>> => iq' # <<>> /\ iq'[1] = iq[1]
      BY <2>1
    <2> QED
      BY <1>2, <2>1, <2>2 DEF IssueOK
  <1>3. ASSUME NEW x \in Actors, iq # <<>>, iq[1] = x, iq' = Tail(iq),
               act'[x].pc \notin Orders, \A y \in Actors \ {x} : act'[y] = act[y]
        PROVE  Goal
    <2>1. iq' \in Seq(Actors) /\ Len(iq') = Len(iq) - 1 /\ Len(iq) >= 1
          /\ \A i \in 2..Len(iq) : iq'[i - 1] = iq[i]
      BY <1>3
    <2>2. ASSUME NEW y \in Actors, act'[y].pc \in Orders
          PROVE  act'[y].pc = "issue" /\ \E i \in 1..Len(iq') : iq'[i] = y
      <3>1. y # x /\ act[y].pc = "issue"
        BY <1>3, <2>2 DEF IssueOK
      <3>2. PICK i \in 1..Len(iq) : iq[i] = y
        BY <3>1 DEF IssueOK
      <3>3. i \in 2..Len(iq) /\ i - 1 \in 1..Len(iq')
        BY <1>3, <2>1, <3>1, <3>2
      <3> QED
        BY <1>3, <2>1, <3>1, <3>2, <3>3
    <2> QED
      BY <2>1, <2>2 DEF IssueOK
  <1>4. ASSUME NEW x \in Reqs, Request(x) PROVE Goal
    <2>1. UNCHANGED iq
      BY <1>4 DEF Request, AddDomain, RemoveDomain, MakePrimary, requestElse, lockElse, issuing
    <2>2. \E y \in {"write", "zone", "delete", "begin"} : \E d, k : Begins(x, y, d, k)
      BY <1>4, AddBegins, RemoveBegins, PromoteBegins DEF Request
    <2> QED
      BY <1>1, <2>1, <2>2 DEF Begins
  <1>5. ASSUME NEW x \in Actors, Failed(x)
        PROVE  act'[x].pc \notin Orders /\ \A y \in Actors \ {x} : act'[y] = act[y]
    BY <1>5 DEF Failed, Done, Goto, ActType, Idle, Slot
  <1>6. ASSUME NEW x \in Actors, EnsureCert(x) PROVE Goal
    <2>1. CASE UNCHANGED iq /\ (Goto(x, "mark") \/ Failed(x))
      <3>1. act'[x].pc \notin Orders /\ \A y \in Actors \ {x} : act'[y] = act[y]
        BY <1>5, <2>1 DEF Goto, ActType, Slot
      <3> QED
        BY <1>1, <2>1, <3>1
    <2>2. CASE Queue(x) /\ act' = [act EXCEPT ![x].pc = "issue", ![x].n = 1]
      <3>1. act'[x].pc = "issue" /\ \A y \in Actors \ {x} : act'[y] = act[y]
        BY <2>2 DEF ActType, Slot
      <3> QED
        BY <1>2, <1>6, <2>2, <3>1 DEF EnsureCert
    <2> QED
      BY <1>6, <2>1, <2>2 DEF EnsureCert
  <1>7. ASSUME NEW x \in Actors, Order(x) PROVE Goal
    <2>1. iq' = iq /\ iq # <<>> /\ iq[1] = x /\ act'[x].pc \in {"answer", "poll"}
          /\ \A y \in Actors \ {x} : act'[y] = act[y]
      BY <1>7 DEF Order, First1, Goto, ActType, Slot
    <2>2. iq[1] = x /\ 1 \in 1..Len(iq)
      BY <2>1
    <2> QED
      BY <2>1, <2>2 DEF IssueOK
  <1>8. ASSUME NEW x \in Actors, OrderFails(x) PROVE Goal
    BY <1>3, <1>5, <1>8 DEF OrderFails, First1
  <1>9. ASSUME NEW x \in Actors, Refused(x) PROVE Goal
    <2>1. act[x].pc \in {"answer", "poll"} /\ iq # <<>> /\ iq[1] = x
      BY <1>9 DEF Refused, IssueOK
    <2>2. CASE iq' = iq /\ act' = [act EXCEPT ![x].pc = "issue", ![x].n = act[x].n + 1]
      <3>1. act'[x].pc = "issue" /\ \A y \in Actors \ {x} : act'[y] = act[y]
        BY <2>2 DEF ActType, Slot
      <3>2. 1 \in 1..Len(iq)
        BY <2>1
      <3>3. \A y \in Actors : act'[y].pc \in Orders => act[y].pc \in Orders
        BY <2>1, <3>1
      <3>4. \A y \in Actors : act'[y].pc \in {"answer", "poll"} => y # x /\ act[y].pc \in {"answer", "poll"}
        BY <3>1
      <3> QED
        BY <2>1, <2>2, <3>2, <3>3, <3>4 DEF IssueOK
    <2> QED
      BY <1>3, <1>5, <1>9, <2>1, <2>2 DEF Refused
  <1>10. ASSUME NEW x \in Actors, Mark(x) PROVE Goal
    <2>1. act'[x].pc \notin Orders /\ \A y \in Actors \ {x} : act'[y] = act[y]
      BY <1>10 DEF Mark, ActType, Slot
    <2>2. CASE iq' = iq
      BY <1>1, <2>1, <2>2
    <2>3. CASE First1(iq, x) /\ iq' = Tail(iq)
      BY <1>3, <2>1, <2>3 DEF First1
    <2> QED
      BY <1>10, <2>2, <2>3 DEF Mark
  <1>11. ASSUME NEW x \in Actors, Issued(x) \/ DeleteRow(x) \/ MdnsStop(x) \/ ApplyZones(x) \/ RestartDns(x)
                  \/ WriteCaddyfile(x) \/ ApplyCaddyfile(x)
                  \/ PromoteBegin(x) \/ PromoteThread(x) \/ PromoteTrigger(x)
         PROVE  Goal
    <2>1. iq' = iq /\ (Done(x) \/ \E y \in Steps \ Orders : Goto(x, y) \/ UNCHANGED act)
      BY <1>11 DEF Issued, DeleteRow, MdnsStop, ApplyZones, RestartDns, WriteCaddyfile, ApplyCaddyfile,
         PromoteBegin, PromoteThread, PromoteTrigger, requestElse, zoneElse, lockElse, issuing, Steps
    <2> QED
      BY <1>1, <2>1 DEF Done, Goto, ActType, Slot, Idle
  <1>12. CASE Renew
    <2>1. CASE UNCHANGED iq /\ act'[Renewal].pc \notin Orders
      BY <1>1, <1>12, <2>1, RenewSteps
    <2> QED
      BY <1>2, <1>12, <2>1, RenewSteps DEF Actors
  <1>13. CASE Drain
    <2>1. act' = Drained /\ iq' = IF \E i \in DOMAIN iq : iq[i] = Renewal THEN <<Renewal>> ELSE <<>>
      BY <1>13 DEF Drain, Drained
    <2>2. \A x \in Actors : act'[x].pc \in Orders => x = Renewal /\ act'[x] = act[x]
      BY <2>1 DEF Drained, Roles, Promoting, Actors, Idle
    <2>3. iq' \in Seq(Actors)
      <3>1. Renewal \in Actors
        BY DEF Actors
      <3>2. <<Renewal>> \in Seq(Actors) /\ <<>> \in Seq(Actors)
        BY <3>1
      <3> QED
        BY <2>1, <3>2
    <2>4. act'[Renewal].pc \in Orders => iq' = <<Renewal>>
      BY <2>1, <2>2 DEF IssueOK, Actors
    <2> QED
      BY <2>2, <2>3, <2>4 DEF IssueOK
  <1>14. CASE Exit \/ Crash \/ BootFails
    <2>1. iq' = <<>> /\ act' = [x \in Actors |-> Idle]
      BY <1>14 DEF Exit, Crash, BootFails, Fresh
    <2>2. \A x \in Actors : act'[x].pc = "idle"
      BY <2>1 DEF Idle
    <2> QED
      BY <2>1, <2>2 DEF IssueOK
  <1>15. CASE Signal \/ ArchiveOperation \/ (\E d \in Names : Age(d)) \/ BootNames \/ BootCert \/ BootCaddy
                \/ UNCHANGED vars
    <2>1. UNCHANGED <<iq, act>>
      BY <1>15 DEF Signal, ArchiveOperation, Age, BootNames, BootCert, BootCaddy, bootElse, lockElse, issuing, vars
    <2> QED
      BY <1>1, <2>1
  <1>16. ASSUME NEW x \in Actors, Handler(x) PROVE Goal
    BY <1>6, <1>7, <1>8, <1>9, <1>10, <1>11, <1>16 DEF Handler
  <1> QED
    BY <1>4, <1>12, <1>13, <1>14, <1>15, <1>16 DEF Next, Boot

\* The zone lock and what its holders do to the zones.
LEMMA QueuePreserved ==
    ASSUME ActType, zq \in Seq(Reqs), Roles, Starting, QueueOK, ZonesFollow, [Next]_vars
    PROVE  zq' \in Seq(Reqs) /\ QueueOK' /\ ZonesFollow'
  <1> DEFINE Goal == zq' \in Seq(Reqs) /\ QueueOK' /\ ZonesFollow'
  <1> DEFINE Others(x) == \A y \in Reqs \ {x} : act'[y] = act[y]
  <1> DEFINE Running == proc' \in {"cert", "caddy", "up"} => proc \in {"cert", "caddy", "up"}
  <1>a. \A i \in 1..Len(zq) : zq[i] \in Reqs
    OBVIOUS
  \* Nobody in the queue moves, and no public name comes or goes.
  <1>1. ASSUME UNCHANGED <<zq, zones, dnsOn>>, Running,
               \A x \in Reqs : act[x].pc \in Zoning \/ act'[x].pc \in Zoning => act'[x] = act[x],
               \A d \in Names \ Mdns : dnsOn => (d \in table' <=> d \in table)
        PROVE  Goal
    <2>1. \A i \in 1..Len(zq) : act'[zq[i]] = act[zq[i]]
      BY <1>a, <1>1 DEF QueueOK
    <2>2. QueueOK'
      BY <1>a, <1>1, <2>1 DEF QueueOK
    <2>3. \A d : Waiting(d)' = Waiting(d)
      BY <1>1, <2>1 DEF Waiting
    <2>4. ZonesFollow'
      BY <1>1, <2>1, <2>3 DEF ZonesFollow, Waiting
    <2> QED
      BY <1>1, <2>2, <2>4
  \* A request joins, after it has changed the table for its own name.
  <1>2. ASSUME NEW x \in Reqs, act[x].pc \notin Zoning, act'[x].pc = "zone", Others(x),
               zq' = Append(zq, x), UNCHANGED <<zones, dnsOn>>, Running,
               \A d \in Names : d # act'[x].d => (d \in table' <=> d \in table),
               act'[x].d \in table' <=> act'[x].kind # "remove"
        PROVE  Goal
    <2>1. zq' \in Seq(Reqs) /\ Len(zq') = Len(zq) + 1 /\ zq'[Len(zq) + 1] = x
          /\ \A i \in 1..Len(zq) : zq'[i] = zq[i]
      BY <1>2
    <2>2. \A i \in 1..Len(zq) : zq[i] # x /\ act'[zq[i]] = act[zq[i]]
      BY <1>a, <1>2 DEF QueueOK
    <2>3. QueueOK'
      <3>1. ASSUME NEW y \in Reqs, act'[y].pc \in Zoning
            PROVE  \E i \in 1..Len(zq') : zq'[i] = y
        <4>1. CASE y = x
          BY <2>1, <4>1
        <4>2. CASE y # x
          <5>1. PICK i \in 1..Len(zq) : zq[i] = y
            BY <1>2, <3>1, <4>2 DEF QueueOK
          <5>2. i \in 1..Len(zq')
            BY <2>1
          <5> QED
            BY <2>1, <5>1, <5>2
        <4> QED
          BY <4>1, <4>2
      <3>2. \A i \in 1..Len(zq') : act'[zq'[i]].pc \in Zoning /\ (i # 1 => act'[zq'[i]].pc = "zone")
        BY <1>2, <2>1, <2>2 DEF QueueOK, Zoning
      <3>3. \A i, j \in 1..Len(zq') : zq'[i] = zq'[j] => i = j
        BY <2>1, <2>2 DEF QueueOK
      <3> QED
        BY <3>1, <3>2, <3>3 DEF QueueOK
    <2>4. \A d : Waiting(d)' = IF d = act'[x].d THEN Waiting(d) \cup {Len(zq) + 1} ELSE Waiting(d)
      BY <1>2, <2>1, <2>2 DEF Waiting
    <2>5. ZonesFollow'
      <3>1. \A d : Waiting(d) \subseteq 1..Len(zq)
        BY DEF Waiting
      <3>2. ASSUME NEW d \in Names \ Mdns, d = act'[x].d
            PROVE  /\ Waiting(d)' # {}
                   /\ \A i \in Waiting(d)' : (\A j \in Waiting(d)' : j <= i) => i = Len(zq) + 1
        <4>1. Waiting(d)' = Waiting(d) \cup {Len(zq) + 1} /\ Len(zq) \in Nat
          BY <2>4, <3>2
        <4>2. \A i \in Waiting(d) : ~(Len(zq) + 1 <= i)
          BY <3>1, <4>1
        <4> QED
          BY <4>1, <4>2
      <3>3. ASSUME NEW d \in Names \ Mdns, d # act'[x].d
            PROVE  Waiting(d)' = Waiting(d) /\ (d \in table' <=> d \in table)
        BY <1>2, <2>4, <3>3
      <3> QED
        BY <1>2, <2>1, <2>2, <3>1, <3>2, <3>3 DEF ZonesFollow
    <2> QED
      BY <2>1, <2>3, <2>5
  \* The head leaves, when the zones have what it came for.
  <1>3. ASSUME NEW x \in Reqs, zq # <<>>, zq[1] = x, zq' = Tail(zq),
               act'[x].pc \notin Zoning, Others(x), UNCHANGED <<zones, table, dnsOn, proc>>,
               act[x].pc = "zone" => act[x].kind # "remove" /\ act[x].d \in zones
        PROVE  Goal
    <2>1. zq' \in Seq(Reqs) /\ Len(zq') = Len(zq) - 1 /\ Len(zq) \in Nat \ {0}
          /\ \A i \in 1..Len(zq') : zq'[i] = zq[i + 1]
      BY <1>3
    <2>2. \A i \in 2..Len(zq) : zq[i] # x /\ zq[i] \in Reqs
      BY <1>a, <1>3, <2>1 DEF QueueOK
    <2>3. \A i \in 1..Len(zq') : zq'[i] # x /\ act'[zq'[i]] = act[zq[i + 1]] /\ i + 1 \in 1..Len(zq)
      BY <1>3, <2>1, <2>2
    <2>4. QueueOK'
      <3>1. ASSUME NEW y \in Reqs, act'[y].pc \in Zoning
            PROVE  \E i \in 1..Len(zq') : zq'[i] = y
        <4>1. y # x /\ act[y].pc \in Zoning
          BY <1>3, <3>1
        <4>2. PICK i \in 1..Len(zq) : zq[i] = y
          BY <4>1 DEF QueueOK
        <4>3. i - 1 \in 1..Len(zq') /\ (i - 1) + 1 = i
          BY <1>3, <2>1, <4>1, <4>2
        <4> QED
          BY <2>1, <4>2, <4>3
      <3>2. \A i \in 1..Len(zq') : act'[zq'[i]].pc = "zone"
        BY <2>1, <2>3 DEF QueueOK
      <3>3. \A i, j \in 1..Len(zq') : zq'[i] = zq'[j] => i = j
        BY <2>1, <2>3 DEF QueueOK
      <3> QED
        BY <3>1, <3>2, <3>3 DEF QueueOK, Zoning
    <2>5. ZonesFollow'
      <3> SUFFICES ASSUME proc \in {"cert", "caddy", "up"}, dnsOn, NEW d \in Names \ Mdns
                   PROVE  /\ Waiting(d)' = {} => (d \in zones <=> d \in table)
                          /\ \A i \in Waiting(d)' : (\A j \in Waiting(d)' : j <= i) =>
                               (d \in table <=> act'[zq'[i]].kind # "remove")
        BY <1>3 DEF ZonesFollow
      <3>1. \A i \in 1..Len(zq') : i \in Waiting(d)' <=> i + 1 \in Waiting(d)
        BY <2>1, <2>3 DEF Waiting
      <3>2. Waiting(d)' \subseteq 1..Len(zq') /\ Waiting(d) \subseteq 1..Len(zq)
        BY DEF Waiting
      <3>3. \A j \in Waiting(d) : j = 1 \/ j - 1 \in Waiting(d)'
        <4> SUFFICES ASSUME NEW j \in Waiting(d), j # 1 PROVE j - 1 \in Waiting(d)'
          OBVIOUS
        <4>1. j - 1 \in 1..Len(zq') /\ (j - 1) + 1 = j
          BY <2>1, <3>2
        <4> QED
          BY <3>1, <4>1
      <3>4. CASE Waiting(d)' = {}
        <4>1. CASE 1 \in Waiting(d)
          <5>1. act[x].pc = "zone" /\ act[x].d = d
            BY <1>3, <4>1 DEF Waiting
          <5>2. \A j \in Waiting(d) : j <= 1
            BY <3>3, <3>4
          <5>3. d \in table
            BY <1>3, <4>1, <5>1, <5>2 DEF ZonesFollow
          <5> QED
            BY <1>3, <3>4, <5>1, <5>3
        <4>2. CASE 1 \notin Waiting(d)
          BY <3>3, <3>4, <4>2 DEF ZonesFollow
        <4> QED
          BY <4>1, <4>2
      <3>5. ASSUME NEW i \in Waiting(d)', \A j \in Waiting(d)' : j <= i
            PROVE  d \in table <=> act'[zq'[i]].kind # "remove"
        <4>1. i \in 1..Len(zq') /\ i + 1 \in Waiting(d)
          BY <3>1, <3>2, <3>5
        <4>2. \A j \in Waiting(d) : j <= i + 1
          BY <2>1, <3>2, <3>3, <3>5, <4>1
        <4> QED
          BY <2>3, <4>1, <4>2 DEF ZonesFollow
      <3> QED
        BY <3>4, <3>5
    <2> QED
      BY <2>1, <2>4, <2>5
  \* The head changes the zones, and keeps the lock.
  <1>4. ASSUME NEW x \in Reqs, zq # <<>>, zq[1] = x, act[x].pc = "zone",
               act' = [act EXCEPT ![x].pc = "restart"], UNCHANGED <<zq, table, dnsOn, proc>>,
               zones' = IF act[x].kind # "remove" THEN zones \cup {act[x].d} ELSE zones \ {act[x].d}
        PROVE  Goal
    <2>1. 1 \in 1..Len(zq) /\ x \in Actors
      BY <1>4 DEF Actors
    <2>2. act'[x].pc = "restart" /\ act'[x].d = act[x].d /\ act'[x].kind = act[x].kind /\ Others(x)
      BY <1>4, <2>1 DEF ActType, Slot, Actors
    <2>3. \A i \in 2..Len(zq) : zq[i] # x /\ zq[i] \in Reqs
      BY <1>a, <1>4, <2>1 DEF QueueOK
    <2>4. \A i \in 1..Len(zq) : act'[zq[i]] = act[zq[i]] \/ (i = 1 /\ zq[i] = x)
      BY <1>4, <2>1, <2>2, <2>3
    <2>5. QueueOK'
      BY <1>a, <1>4, <2>1, <2>2, <2>4 DEF QueueOK, Zoning
    <2>6. \A d : Waiting(d)' = Waiting(d) \ {1}
      <3>1. \A i \in 1..Len(zq) : /\ act'[zq[i]].pc = "zone" <=> i # 1 /\ act[zq[i]].pc = "zone"
                                 /\ act'[zq[i]].d = act[zq[i]].d
        BY <1>4, <2>2, <2>3, <2>4
      <3>2. zq' = zq
        BY <1>4
      <3> QED
        BY <3>1, <3>2 DEF Waiting
    <2>7. ZonesFollow'
      <3> SUFFICES ASSUME proc \in {"cert", "caddy", "up"}, dnsOn, NEW d \in Names \ Mdns
                   PROVE  /\ Waiting(d)' = {} => (d \in zones' <=> d \in table)
                          /\ \A i \in Waiting(d)' : (\A j \in Waiting(d)' : j <= i) =>
                               (d \in table <=> act'[zq[i]].kind # "remove")
        BY <1>4 DEF ZonesFollow
      <3>1. Waiting(d) \subseteq 1..Len(zq) /\ (1 \in Waiting(d) <=> d = act[x].d)
        BY <1>4, <2>1 DEF Waiting
      <3>2. CASE Waiting(d)' = {}
        <4>1. CASE d = act[x].d
          <5>1. \A j \in Waiting(d) : j <= 1
            BY <2>6, <3>2
          <5>2. d \in table <=> act[x].kind # "remove"
            BY <1>4, <3>1, <4>1, <5>1 DEF ZonesFollow
          <5> QED
            BY <1>4, <3>2, <4>1, <5>2
        <4>2. CASE d # act[x].d
          <5>1. Waiting(d) = {}
            BY <2>6, <3>1, <3>2, <4>2
          <5> QED
            BY <1>4, <3>2, <4>2, <5>1 DEF ZonesFollow
        <4> QED
          BY <4>1, <4>2
      <3>3. ASSUME NEW i \in Waiting(d)', \A j \in Waiting(d)' : j <= i
            PROVE  d \in table <=> act'[zq[i]].kind # "remove"
        <4>1. i \in Waiting(d) /\ i # 1 /\ i \in 1..Len(zq)
          BY <2>6, <3>1, <3>3
        <4>2. \A j \in Waiting(d) : j <= i
          BY <2>6, <3>1, <3>3, <4>1
        <4> QED
          BY <2>4, <4>1, <4>2 DEF ZonesFollow
      <3> QED
        BY <3>2, <3>3
    <2> QED
      BY <1>4, <2>5, <2>7
  <1>5. ASSUME NEW x \in Reqs, NEW d \in Names, NEW withTls \in BOOLEAN, AddDomain(x, d, withTls) PROVE Goal
    <2>1. /\ Begins(x, IF d \in Mdns \/ ~dnsOn THEN "write" ELSE "zone", d, IF withTls THEN "addtls" ELSE "addplain")
          /\ Others(x)
      BY <1>5, AddBegins DEF Begins, Actors
    <2>2. table' = table \cup {d} /\ UNCHANGED <<zones, dnsOn, proc>>
      BY <1>5 DEF AddDomain, requestElse, life
    <2>3. CASE d \in Mdns \/ ~dnsOn
      <3>1. UNCHANGED zq /\ act[x].pc \notin Zoning /\ act'[x].pc \notin Zoning
        BY <1>5, <2>1, <2>3 DEF AddDomain, Begins, Zoning
      <3> QED
        BY <1>1, <2>1, <2>2, <2>3, <3>1
    <2>4. CASE d \notin Mdns /\ dnsOn
      <3>1. zq' = Append(zq, x) /\ act[x].pc \notin Zoning /\ act'[x].pc = "zone"
            /\ act'[x].kind # "remove" /\ act'[x].d = d
        BY <1>5, <2>1, <2>4 DEF AddDomain, Begins, Zoning
      <3> QED
        BY <1>2, <2>1, <2>2, <3>1
    <2> QED
      BY <2>3, <2>4
  <1>6. ASSUME NEW x \in Actors, DeleteRow(x) PROVE Goal
    <2>1. x \in Reqs /\ act[x].pc = "delete" /\ UNCHANGED <<zones, dnsOn, proc>>
      BY <1>6 DEF DeleteRow, requestElse, life, Roles, RenewalSteps, Actors
    <2>2. CASE UNCHANGED <<zq, table>> /\ Done(x)
      <3>1. act'[x].pc \notin Zoning /\ Others(x)
        BY <2>1, <2>2 DEF Done, ActType, Idle, Zoning, Actors
      <3> QED
        BY <1>1, <2>1, <2>2, <3>1 DEF Zoning
    <2>3. CASE /\ table' = table \ {act[x].d} /\ UNCHANGED zq
               /\ act[x].d \in Mdns \/ ~dnsOn
               /\ Goto(x, "write") \/ Goto(x, "mdnsstop")
      <3>1. act'[x].pc \notin Zoning /\ Others(x)
        BY <2>1, <2>3 DEF Goto, ActType, Slot, Zoning, Actors
      <3>2. \A d \in Names \ Mdns : dnsOn => (d \in table' <=> d \in table)
        BY <2>3
      <3> QED
        BY <1>1, <2>1, <2>3, <3>1, <3>2 DEF Zoning
    <2>4. CASE table' = table \ {act[x].d} /\ zq' = Append(zq, x) /\ Goto(x, "zone") /\ act[x].kind = "remove"
      <3>1. act'[x].pc = "zone" /\ act'[x].kind = "remove" /\ act'[x].d = act[x].d /\ Others(x)
        BY <2>1, <2>4 DEF Goto, ActType, Slot, Actors
      <3> QED
        BY <1>2, <2>1, <2>4, <3>1 DEF Zoning
    <2>5. act[x].kind = "remove"
      BY <2>1 DEF Roles
    <2> QED
      BY <1>6, <2>2, <2>3, <2>4, <2>5 DEF DeleteRow
  <1>7. ASSUME NEW x \in Actors, ApplyZones(x) PROVE Goal
    <2>1. /\ x \in Reqs /\ act[x].pc = "zone" /\ zq # <<>> /\ zq[1] = x
          /\ UNCHANGED <<table, dnsOn, proc>>
      BY <1>7 DEF ApplyZones, First1, zoneElse, rows, life, Roles, RenewalSteps, Actors
    <2>2. CASE /\ act[x].kind # "remove" /\ act[x].d \in zones
               /\ Goto(x, "write") /\ zq' = Tail(zq) /\ UNCHANGED zones
      <3>1. act'[x].pc \notin Zoning /\ Others(x)
        BY <2>1, <2>2 DEF Goto, ActType, Slot, Zoning, Actors
      <3> QED
        BY <1>3, <2>1, <2>2, <3>1
    <2>3. CASE /\ zones' = IF act[x].kind # "remove" THEN zones \cup {act[x].d} ELSE zones \ {act[x].d}
               /\ Goto(x, "restart") /\ UNCHANGED zq
      BY <1>4, <2>1, <2>3 DEF Goto
    <2> QED
      BY <1>7, <2>2, <2>3 DEF ApplyZones
  <1>8. ASSUME NEW x \in Actors, RestartDns(x) PROVE Goal
    <2>1. /\ x \in Reqs /\ act[x].pc = "restart" /\ zq' = Tail(zq)
          /\ UNCHANGED <<zones, table, dnsOn, proc>>
      BY <1>8 DEF RestartDns, zoneElse, rows, life, Roles, RenewalSteps, Actors
    <2>2. zq # <<>> /\ zq[1] = x
      <3>1. PICK i \in 1..Len(zq) : zq[i] = x
        BY <2>1 DEF QueueOK, Zoning
      <3>2. i = 1
        BY <2>1, <3>1 DEF QueueOK
      <3> QED
        BY <3>1, <3>2
    <2>3. Goto(x, "write") \/ Done(x)
      BY <1>8 DEF RestartDns
    <2>4. act'[x].pc \notin Zoning /\ Others(x)
      BY <2>1, <2>3 DEF Goto, Done, ActType, Slot, Idle, Zoning, Actors
    <2> QED
      BY <1>3, <2>1, <2>2, <2>4
  \* The steps that have nothing to do with the zones.
  <1>9. ASSUME NEW x \in Actors, act[x].pc \notin Zoning, act'[x].pc \notin Zoning,
               \A y \in Actors \ {x} : act'[y] = act[y],
               UNCHANGED <<zq, zones, dnsOn, proc, table>>
        PROVE  Goal
    BY <1>1, <1>9 DEF Actors
  <1>10. ASSUME NEW x \in Reqs, NEW d \in Names, RemoveDomain(x, d) \/ MakePrimary(x, d) PROVE Goal
    <2>1. UNCHANGED <<zq, zones, dnsOn, proc, table>>
      BY <1>10 DEF RemoveDomain, MakePrimary, requestElse, lockElse, rows, dns, life
    <2>2. \E y \in {"delete", "begin"} : \E k : Begins(x, y, d, k)
      BY <1>10, RemoveBegins, PromoteBegins
    <2> QED
      BY <1>9, <2>1, <2>2 DEF Begins, Zoning, Actors
  <1>11. ASSUME NEW x \in Actors, MdnsStop(x) \/ WriteCaddyfile(x) \/ ApplyCaddyfile(x) \/ Order(x)
                  \/ Issued(x) \/ PromoteBegin(x) \/ PromoteThread(x) \/ PromoteTrigger(x)
         PROVE  Goal
    <2>1. /\ act[x].pc \notin Zoning /\ UNCHANGED <<zq, zones, dnsOn, proc, table>>
          /\ Done(x) \/ \E y \in Steps \ Zoning : Goto(x, y)
      BY <1>11 DEF MdnsStop, WriteCaddyfile, ApplyCaddyfile, Order, Issued, PromoteBegin, PromoteThread,
         PromoteTrigger, acquireElse, lockElse, rows, dns, life, Zoning, Steps
    <2> QED
      BY <1>9, <2>1 DEF Goto, Done, ActType, Slot, Idle, Zoning
  <1>12. ASSUME NEW x \in Actors, EnsureCert(x) \/ OrderFails(x) \/ Refused(x) \/ Mark(x)
         PROVE  Goal
    <2>1. act[x].pc \notin Zoning /\ UNCHANGED <<zq, zones, dnsOn, proc, table>>
      BY <1>12 DEF EnsureCert, OrderFails, Refused, Mark, acquireElse, dns, life, Zoning
    <2>2. \/ Failed(x) \/ Goto(x, "mark")
          \/ \E n : act' = [act EXCEPT ![x].pc = "issue", ![x].n = n]
          \/ act' = [act EXCEPT ![x].pc = "write", ![x].kind = "none"]
          \/ act' = [act EXCEPT ![x].pc = "aliases", ![x].n = 0]
      BY <1>12 DEF EnsureCert, OrderFails, Refused, Mark
    <2>3. act'[x].pc \notin Zoning /\ \A y \in Actors \ {x} : act'[y] = act[y]
      BY <2>2 DEF Failed, Goto, Done, ActType, Slot, Idle, Zoning
    <2> QED
      BY <1>9, <2>1, <2>3
  <1>13. CASE Renew
    <2>1. UNCHANGED <<zq, zones, dnsOn, proc, table>>
      BY <1>13 DEF Renew, RenewCycle, NextAlias, acquireElse, rows, dns, life
    <2> QED
      BY <1>9, <1>13, <2>1, RenewSteps DEF Zoning, Actors
  <1>14. CASE Signal \/ ArchiveOperation \/ (\E d \in Names : Age(d)) \/ BootCert \/ BootCaddy \/ UNCHANGED vars
    <2>1. UNCHANGED <<zq, zones, dnsOn, table, act>> /\ Running
      BY <1>14 DEF Signal, ArchiveOperation, Age, BootCert, BootCaddy, bootElse, lockElse, rows, dns, life, vars, Up
    <2> QED
      BY <1>1, <2>1
  <1>15. CASE Drain
    <2>1. zq' = <<>> /\ act' = Drained /\ proc' = "drain"
      BY <1>15 DEF Drain, Drained
    <2>2. \A x \in Reqs : act'[x].pc \notin Zoning
      BY <2>1 DEF Drained, Roles, Promoting, Zoning, Actors, Idle
    <2> QED
      BY <2>1, <2>2 DEF QueueOK, ZonesFollow
  <1>16. CASE Exit \/ Crash \/ BootFails
    <2>1. zq' = <<>> /\ act' = [x \in Actors |-> Idle] /\ proc' = "down"
      BY <1>16 DEF Exit, Crash, BootFails, Fresh
    <2>2. \A x \in Reqs : act'[x].pc \notin Zoning
      BY <2>1 DEF Zoning, Actors, Idle
    <2> QED
      BY <2>1, <2>2 DEF QueueOK, ZonesFollow
  <1>17. CASE BootNames
    <2>1. zq' = <<>> /\ act' = [x \in Actors |-> Idle] /\ table' = table
          /\ dnsOn' = dnsOn /\ (dnsOn => zones' = table \ Mdns)
      BY <1>17 DEF BootNames, bootElse, Starting
    <2>2. \A x \in Reqs : act'[x].pc \notin Zoning
      BY <2>1 DEF Zoning, Actors, Idle
    <2> QED
      BY <2>1, <2>2 DEF QueueOK, ZonesFollow, Waiting
  <1>18. ASSUME NEW x \in Reqs, Request(x) PROVE Goal
    BY <1>5, <1>10, <1>18 DEF Request
  <1>19. ASSUME NEW x \in Actors, Handler(x) PROVE Goal
    BY <1>6, <1>7, <1>8, <1>11, <1>12, <1>19 DEF Handler
  <1> QED
    BY <1>13, <1>14, <1>15, <1>16, <1>17, <1>18, <1>19 DEF Next, Boot

-----------------------------------------------------------------------------
(* The remaining groups of variables *)

LEMMA ZonesTypePreserved ==
    ASSUME ZonesType, ActType, TableType, Roles, [Next]_vars
    PROVE  ZonesType'
  <1> USE DEF ZonesType, TableType, dns
  <1>1. ASSUME NEW x \in Reqs, Request(x) PROVE UNCHANGED <<zones, served>>
    BY <1>1 DEF Request, AddDomain, RemoveDomain, MakePrimary, lockElse, requestElse
  <1>2. ASSUME NEW x \in Actors, ApplyZones(x) PROVE ZonesType'
    <2>1. act[x].d \in Names \ Mdns
      BY <1>2 DEF ApplyZones, Roles, RenewalSteps, Zoning, Actors
    <2> QED
      BY <1>2, <2>1 DEF ApplyZones
  <1>3. ASSUME NEW x \in Actors, RestartDns(x) PROVE ZonesType'
    BY <1>3 DEF RestartDns
  <1>4. ASSUME NEW x \in Actors, DeleteRow(x) \/ MdnsStop(x)
                 \/ WriteCaddyfile(x) \/ ApplyCaddyfile(x) \/ Order(x) \/ Issued(x)
                 \/ EnsureCert(x) \/ OrderFails(x) \/ Refused(x) \/ Mark(x)
                 \/ PromoteBegin(x) \/ PromoteThread(x) \/ PromoteTrigger(x)
        PROVE  UNCHANGED <<zones, served>>
    BY <1>4 DEF DeleteRow, MdnsStop, WriteCaddyfile, ApplyCaddyfile, Order, Issued, EnsureCert, OrderFails,
         Refused, Mark, PromoteBegin, PromoteThread, PromoteTrigger, requestElse, acquireElse, lockElse
  <1>5. CASE Renew \/ ArchiveOperation \/ Signal \/ Drain \/ (\E d \in Names : Age(d)) \/ BootCert \/ BootCaddy
               \/ UNCHANGED vars
    BY <1>5 DEF Renew, RenewCycle, NextAlias, ArchiveOperation, Signal, Drain, Age, BootCert, BootCaddy,
         acquireElse, lockElse, vars
  <1>6. CASE Exit \/ Crash \/ BootFails \/ BootNames
    BY <1>6 DEF Exit, Crash, BootFails, Fresh, BootNames
  <1> QED
    BY <1>1, <1>2, <1>3, <1>4, <1>5, <1>6 DEF Next, Handler, Boot

LEMMA MdnsUpdateType ==
    ASSUME MdnsType, NEW names \in SUBSET Mdns, MdnsUpdate(names)
    PROVE  /\ MdnsType' /\ mdns'.names = names
           /\ broken' \in {broken, broken \cup {"mdns"}}
  BY DEF MdnsUpdate, MdnsType

LEMMA MdnsTypePreserved ==
    ASSUME MdnsType, [Next]_vars
    PROVE  MdnsType'
  <1>0. ASSUME UNCHANGED mdns PROVE MdnsType'
    BY <1>0 DEF MdnsType
  <1>1. ASSUME NEW x \in Reqs, Request(x) PROVE MdnsType'
    BY <1>0, <1>1, MdnsUpdateType DEF Request, AddDomain, RemoveDomain, MakePrimary, lockElse
  <1>2. ASSUME NEW x \in Actors, DeleteRow(x) PROVE MdnsType'
    BY <1>0, <1>2, MdnsUpdateType DEF DeleteRow
  <1>3. ASSUME NEW x \in Actors, MdnsStop(x) PROVE MdnsType'
    BY <1>3 DEF MdnsStop, MdnsType
  <1>4. ASSUME NEW x \in Actors, ApplyZones(x) \/ RestartDns(x)
                 \/ WriteCaddyfile(x) \/ ApplyCaddyfile(x) \/ Order(x) \/ Issued(x)
                 \/ EnsureCert(x) \/ OrderFails(x) \/ Refused(x) \/ Mark(x)
                 \/ PromoteBegin(x) \/ PromoteThread(x) \/ PromoteTrigger(x)
        PROVE  UNCHANGED mdns
    BY <1>4 DEF ApplyZones, RestartDns, WriteCaddyfile, ApplyCaddyfile, Order, Issued, EnsureCert, OrderFails,
         Refused, Mark, PromoteBegin, PromoteThread, PromoteTrigger, zoneElse, acquireElse, lockElse
  <1>5. CASE Renew \/ ArchiveOperation \/ Signal \/ Drain \/ (\E d \in Names : Age(d)) \/ BootCert \/ BootCaddy
               \/ UNCHANGED vars
    BY <1>0, <1>5 DEF Renew, RenewCycle, NextAlias, ArchiveOperation, Signal, Drain, Age, BootCert, BootCaddy,
         acquireElse, lockElse, vars
  <1>6. CASE Exit \/ Crash \/ BootFails
    BY <1>6 DEF Exit, Crash, BootFails, Fresh, MdnsType
  <1>7. CASE BootNames
    BY <1>7, MdnsUpdateType DEF BootNames
  <1> QED
    BY <1>0, <1>1, <1>2, <1>3, <1>4, <1>5, <1>6, <1>7 DEF Next, Handler, Boot

LEMMA CaddyTypePreserved ==
    ASSUME CaddyType, TableType, [Next]_vars
    PROVE  CaddyType'
  <1> USE DEF CaddyType, TableType, front
  <1>1. Generated \in [names : SUBSET Names, files : SUBSET Names]
    BY DEF Generated
  <1>2. [names |-> {}, files |-> {}] \in [names : SUBSET Names, files : SUBSET Names]
    OBVIOUS
  <1>3. ASSUME NEW x \in Reqs, Request(x) PROVE UNCHANGED <<caddyfile, caddy>>
    BY <1>3 DEF Request, AddDomain, RemoveDomain, MakePrimary, lockElse, requestElse
  <1>4. ASSUME NEW x \in Actors, WriteCaddyfile(x) \/ ApplyCaddyfile(x) PROVE CaddyType'
    BY <1>1, <1>2, <1>4 DEF WriteCaddyfile, ApplyCaddyfile
  <1>5. ASSUME NEW x \in Actors, DeleteRow(x) \/ MdnsStop(x) \/ ApplyZones(x) \/ RestartDns(x)
                 \/ Order(x) \/ Issued(x) \/ EnsureCert(x) \/ OrderFails(x) \/ Refused(x) \/ Mark(x)
                 \/ PromoteBegin(x) \/ PromoteThread(x) \/ PromoteTrigger(x)
        PROVE  UNCHANGED <<caddyfile, caddy>>
    BY <1>5 DEF DeleteRow, MdnsStop, ApplyZones, RestartDns, Order, Issued, EnsureCert, OrderFails,
         Refused, Mark, PromoteBegin, PromoteThread, PromoteTrigger, requestElse, zoneElse, acquireElse, lockElse
  <1>6. CASE Renew \/ ArchiveOperation \/ Signal \/ Drain \/ (\E d \in Names : Age(d)) \/ BootNames \/ BootCert
               \/ UNCHANGED vars
    BY <1>6 DEF Renew, RenewCycle, NextAlias, ArchiveOperation, Signal, Drain, Age, BootNames, BootCert,
         acquireElse, lockElse, vars
  <1>7. CASE Exit \/ Crash \/ BootFails \/ BootCaddy
    BY <1>1, <1>2, <1>7 DEF Exit, Crash, BootFails, Fresh, BootCaddy
  <1> QED
    BY <1>3, <1>4, <1>5, <1>6, <1>7 DEF Next, Handler, Boot

LEMMA RenewalTypePreserved ==
    ASSUME RenewalType, TableType, [Next]_vars
    PROVE  RenewalType'
  <1> USE DEF RenewalType, TableType
  <1>1. ASSUME NEW x \in Reqs, Request(x) PROVE UNCHANGED renewal
    BY <1>1 DEF Request, AddDomain, RemoveDomain, MakePrimary, lockElse, requestElse
  <1>2. ASSUME NEW x \in Actors, Mark(x) PROVE RenewalType'
    <2>1. renewal.todo \in SUBSET Names /\ (table \cap tls) \ {act[x].d} \in SUBSET Names
      OBVIOUS
    <2>2. \/ renewal' = renewal
          \/ \E todo \in SUBSET Names : renewal' = [renewal EXCEPT !.renewed = TRUE, !.todo = todo]
      BY <1>2, <2>1 DEF Mark
    <2> QED
      BY <2>2
  <1>3. ASSUME NEW x \in Actors, DeleteRow(x) \/ MdnsStop(x) \/ ApplyZones(x) \/ RestartDns(x)
                 \/ WriteCaddyfile(x) \/ ApplyCaddyfile(x)
                 \/ Order(x) \/ Issued(x) \/ EnsureCert(x) \/ OrderFails(x) \/ Refused(x)
                 \/ PromoteBegin(x) \/ PromoteThread(x) \/ PromoteTrigger(x)
        PROVE  UNCHANGED renewal
    BY <1>3 DEF DeleteRow, MdnsStop, ApplyZones, RestartDns, WriteCaddyfile, ApplyCaddyfile, Order, Issued,
         EnsureCert, OrderFails, Refused, PromoteBegin, PromoteThread, PromoteTrigger, requestElse, zoneElse,
         lockElse
  <1>4. CASE RenewCycle
    BY <1>4 DEF RenewCycle
  <1>5. CASE NextAlias
    BY <1>5 DEF NextAlias
  <1>6. CASE ArchiveOperation \/ Signal \/ Drain \/ (\E d \in Names : Age(d)) \/ BootNames \/ BootCert
               \/ UNCHANGED vars
    BY <1>6 DEF ArchiveOperation, Signal, Drain, Age, BootNames, BootCert, lockElse, vars
  <1>7. CASE Exit \/ Crash \/ BootFails
    <2>1. renewal' = [on |-> FALSE, todo |-> {}, renewed |-> FALSE]
      BY <1>7 DEF Exit, Crash, BootFails, Fresh
    <2> QED
      BY <2>1
  <1>8. CASE BootCaddy
    <2>1. (dnsOn /\ table \cap tls # {}) \in BOOLEAN
      OBVIOUS
    <2> QED
      BY <1>8, <2>1 DEF BootCaddy
  <1> QED
    BY <1>1, <1>2, <1>3, <1>4, <1>5, <1>6, <1>7, <1>8 DEF Next, Handler, Boot, Renew

LEMMA LifeTypePreserved ==
    ASSUME LifeType, TableType, MdnsType, [Next]_vars
    PROVE  LifeType'
  <1> USE DEF LifeType, life, issuing
  <1>1. ASSUME NEW x \in Reqs, NEW d \in Names, NEW withTls \in BOOLEAN, AddDomain(x, d, withTls)
        PROVE  LifeType'
    <2>1. UNCHANGED <<proc, dnsOn, pending, zone, owner, txt>>
      BY <1>1 DEF AddDomain, requestElse
    <2>2. broken' \in {broken, broken \cup {"mdns"}, broken \cup {"promote"}}
      BY <1>1, MdnsUpdateType DEF AddDomain
    <2> QED
      BY <2>1, <2>2
  <1>2. ASSUME NEW x \in Reqs, NEW d \in Names, RemoveDomain(x, d) \/ MakePrimary(x, d) PROVE LifeType'
    BY <1>2 DEF RemoveDomain, MakePrimary, TakeLock, lockElse, requestElse
  <1>3. ASSUME NEW x \in Actors, DeleteRow(x) PROVE LifeType'
    <2>1. UNCHANGED <<proc, dnsOn, pending, zone, owner, txt>>
      BY <1>3 DEF DeleteRow, requestElse
    <2>2. broken' \in {broken, broken \cup {"mdns"}}
      BY <1>3, MdnsUpdateType DEF DeleteRow
    <2> QED
      BY <2>1, <2>2
  <1>4. ASSUME NEW x \in Actors, MdnsStop(x) \/ ApplyZones(x) \/ RestartDns(x) \/ WriteCaddyfile(x)
                 \/ ApplyCaddyfile(x)
        PROVE  LifeType'
    BY <1>4 DEF MdnsStop, ApplyZones, RestartDns, WriteCaddyfile, ApplyCaddyfile, zoneElse
  <1>5. ASSUME NEW x \in Actors, EnsureCert(x) \/ Order(x) \/ OrderFails(x) \/ Issued(x) \/ Refused(x) \/ Mark(x)
        PROVE  LifeType'
    <2>1. UNCHANGED <<proc, dnsOn, pending, zone, owner, broken>>
      BY <1>5 DEF EnsureCert, Order, OrderFails, Issued, Refused, Mark, acquireElse
    <2>2. txt' \in {txt, x, None}
      BY <1>5 DEF EnsureCert, Order, OrderFails, Issued, Refused, Mark, Publish, ClearIfPublished
    <2> QED
      BY <2>1, <2>2
  <1>6. ASSUME NEW x \in Actors, PromoteBegin(x) \/ PromoteThread(x) \/ PromoteTrigger(x) PROVE LifeType'
    BY <1>6 DEF PromoteBegin, PromoteThread, PromoteTrigger, ReleaseLock, lockElse
  <1>7. CASE Renew \/ Signal \/ (\E d \in Names : Age(d)) \/ UNCHANGED vars
    BY <1>7 DEF Renew, RenewCycle, NextAlias, Signal, Age, acquireElse, lockElse, vars
  <1>8. CASE ArchiveOperation \/ Drain
    BY <1>8 DEF ArchiveOperation, Drain, TakeLock, ReleaseLock, lockElse
  <1>9. CASE Exit \/ Crash \/ BootFails
    BY <1>9 DEF Exit, Crash, BootFails, Fresh
  <1>10. CASE BootNames
    <2>1. broken' \in {broken, broken \cup {"mdns"}}
      BY <1>10, MdnsUpdateType DEF BootNames
    <2> QED
      BY <1>10, <2>1 DEF BootNames, bootElse
  <1>11. CASE BootCert \/ BootCaddy
    BY <1>11 DEF BootCert, BootCaddy, bootElse, TableType
  <1> QED
    BY <1>1, <1>2, <1>3, <1>4, <1>5, <1>6, <1>7, <1>8, <1>9, <1>10, <1>11 DEF Next, Request, Handler, Boot

LEMMA SpentPreserved ==
    ASSUME SpentType, [Next]_vars
    PROVE  SpentType'
  <1> DEFINE Bumped(b) ==
         \/ b = spent
         \/ spent.req < MaxReq /\ b = [spent EXCEPT !.req = @ + 1]
         \/ spent.crash < MaxCrash /\ b = [spent EXCEPT !.crash = @ + 1]
         \/ spent.age < MaxAge /\ b = [spent EXCEPT !.age = @ + 1]
  <1>0. spent.req \in 0..MaxReq /\ spent.crash \in 0..MaxCrash /\ spent.age \in 0..MaxAge
    BY DEF SpentType
  <1>1. ASSUME Bumped(spent') PROVE SpentType'
    <2>1. /\ spent.req < MaxReq => spent.req + 1 \in 0..MaxReq
          /\ spent.crash < MaxCrash => spent.crash + 1 \in 0..MaxCrash
          /\ spent.age < MaxAge => spent.age + 1 \in 0..MaxAge
      BY <1>0
    <2> QED
      BY <1>1, <2>1 DEF SpentType
  <1>2. ASSUME NEW x \in Reqs, Request(x) PROVE Bumped(spent')
    BY <1>2 DEF Request, AddDomain, RemoveDomain, MakePrimary
  <1>3. ASSUME NEW x \in Actors, Handler(x) PROVE spent' = spent
    BY <1>3 DEF Handler, DeleteRow, MdnsStop, ApplyZones, RestartDns, WriteCaddyfile, ApplyCaddyfile, EnsureCert,
         Order, OrderFails, Issued, Refused, Mark, PromoteBegin, PromoteThread, PromoteTrigger, zoneElse, acquireElse
  <1>4. CASE Renew \/ ArchiveOperation \/ Signal \/ Drain \/ Exit \/ Crash \/ Boot
               \/ (\E d \in Names : Age(d)) \/ UNCHANGED vars
    <2>1. Bumped(spent')
      BY <1>4 DEF Renew, RenewCycle, NextAlias, ArchiveOperation, Signal, Drain, Exit, Crash, Boot,
         BootNames, BootCert, BootFails, BootCaddy, bootElse, Age, acquireElse, vars
    <2> QED
      BY <1>1, <2>1
  <1> QED
    BY <1>1, <1>2, <1>3, <1>4 DEF Next

-----------------------------------------------------------------------------
(* Who moves, and from where *)

Moves(x) == \A y \in Actors \ {x} : act'[y] = act[y]

LEMMA HandlerMoves ==
    ASSUME ActType, NEW x \in Actors, Handler(x)
    PROVE  Moves(x)
  <1>1. ASSUME NEW r, act' = [act EXCEPT ![x] = r] PROVE Moves(x)
    BY <1>1 DEF Moves, ActType
  <1>2. \E r : act' = [act EXCEPT ![x] = r]
    <2>1. CASE Done(x) \/ (\E y : Goto(x, y)) \/ (\E n : act' = [act EXCEPT ![x].pc = "issue", ![x].n = n])
               \/ act' = [act EXCEPT ![x].pc = "write", ![x].kind = "none"]
               \/ act' = [act EXCEPT ![x].pc = "aliases", ![x].n = 0]
      BY <2>1 DEF Done, Goto, ActType
    <2>2. CASE DeleteRow(x) \/ MdnsStop(x) \/ ApplyZones(x) \/ RestartDns(x) \/ WriteCaddyfile(x) \/ ApplyCaddyfile(x)
                 \/ Order(x) \/ Issued(x) \/ PromoteBegin(x) \/ PromoteThread(x) \/ PromoteTrigger(x)
      <3>1. Done(x) \/ \E y : Goto(x, y)
        BY <2>2 DEF DeleteRow, MdnsStop, ApplyZones, RestartDns, WriteCaddyfile, ApplyCaddyfile, Order, Issued,
           PromoteBegin, PromoteThread, PromoteTrigger
      <3> QED
        BY <2>1, <3>1
    <2>3. CASE EnsureCert(x) \/ OrderFails(x) \/ Refused(x) \/ Mark(x)
      <3>1. \/ Failed(x) \/ Goto(x, "mark")
            \/ \E n : act' = [act EXCEPT ![x].pc = "issue", ![x].n = n]
            \/ act' = [act EXCEPT ![x].pc = "write", ![x].kind = "none"]
            \/ act' = [act EXCEPT ![x].pc = "aliases", ![x].n = 0]
        BY <2>3 DEF EnsureCert, OrderFails, Refused, Mark
      <3>2. Failed(x) => Done(x) \/ \E y : Goto(x, y)
        BY DEF Failed
      <3> QED
        BY <2>1, <3>1, <3>2
    <2> QED
      BY <2>2, <2>3 DEF Handler
  <1> QED
    BY <1>1, <1>2

LEMMA RequestMoves ==
    ASSUME ActType, NEW x \in Reqs, Request(x)
    PROVE  Moves(x) /\ act[x].pc = "idle"
  BY AddBegins, RemoveBegins, PromoteBegins DEF Request, Begins, Moves

-----------------------------------------------------------------------------
(* The followers of the table *)

LEMMA ServedPreserved ==
    ASSUME ActType, Roles, ServedFollow, [Next]_vars
    PROVE  ServedFollow'
  <1> USE DEF dns, life
  <1> DEFINE Running == {"cert", "caddy", "up"}
  <1>1. ASSUME UNCHANGED <<zones, served>>, broken \subseteq broken', proc' \in Running => proc \in Running,
               \A x \in Reqs : act[x].pc = "restart" => act'[x].pc = "restart"
        PROVE  ServedFollow'
    BY <1>1 DEF ServedFollow
  <1>2. ASSUME NEW x \in Reqs, Request(x) PROVE ServedFollow'
    <2>1. UNCHANGED <<zones, served, proc>> /\ broken \subseteq broken'
      BY <1>2 DEF Request, AddDomain, RemoveDomain, MakePrimary, MdnsUpdate, lockElse, requestElse
    <2>2. \A y \in Reqs : act[y].pc = "restart" => act'[y].pc = "restart"
      BY <1>2, RequestMoves DEF Moves, Actors
    <2> QED
      BY <1>1, <2>1, <2>2
  <1>3. ASSUME NEW x \in Actors, RestartDns(x) PROVE ServedFollow'
    BY <1>3 DEF RestartDns, ServedFollow, zoneElse
  <1>4. ASSUME NEW x \in Actors, ApplyZones(x) PROVE ServedFollow'
    <2>1. x \in Reqs /\ UNCHANGED <<served, broken, proc>> /\ act[x].pc = "zone"
      BY <1>4 DEF ApplyZones, zoneElse, Roles, RenewalSteps, Actors
    <2>2. CASE UNCHANGED zones
      <3>1. \A y \in Reqs : act[y].pc = "restart" => act'[y].pc = "restart"
        BY <1>4, <2>1, HandlerMoves DEF Handler, Moves, Actors
      <3> QED
        BY <1>1, <2>1, <2>2, <3>1
    <2>3. CASE Goto(x, "restart")
      <3>1. act'[x].pc = "restart"
        BY <2>1, <2>3 DEF Goto, ActType, Slot, Actors
      <3> QED
        BY <2>1, <3>1 DEF ServedFollow
    <2> QED
      BY <1>4, <2>2, <2>3 DEF ApplyZones
  <1>5. ASSUME NEW x \in Actors, DeleteRow(x) \/ MdnsStop(x)
                 \/ WriteCaddyfile(x) \/ ApplyCaddyfile(x) \/ Order(x) \/ Issued(x)
                 \/ EnsureCert(x) \/ OrderFails(x) \/ Refused(x) \/ Mark(x)
                 \/ PromoteBegin(x) \/ PromoteThread(x) \/ PromoteTrigger(x)
        PROVE  ServedFollow'
    <2>1. UNCHANGED <<zones, served, proc>> /\ broken \subseteq broken'
      BY <1>5 DEF DeleteRow, MdnsStop, WriteCaddyfile, ApplyCaddyfile, Order, Issued, EnsureCert, OrderFails,
         Refused, Mark, PromoteBegin, PromoteThread, PromoteTrigger, MdnsUpdate, requestElse, acquireElse, lockElse
    <2>2. act[x].pc # "restart"
      BY <1>5 DEF DeleteRow, MdnsStop, WriteCaddyfile, ApplyCaddyfile, Order, Issued, EnsureCert, OrderFails,
         Refused, Mark, PromoteBegin, PromoteThread, PromoteTrigger
    <2>3. \A y \in Reqs : act[y].pc = "restart" => act'[y].pc = "restart"
      BY <1>5, <2>2, HandlerMoves DEF Handler, Moves, Actors
    <2> QED
      BY <1>1, <2>1, <2>3
  <1>6. CASE Renew
    <2>1. UNCHANGED <<zones, served, proc, broken>>
      BY <1>6 DEF Renew, RenewCycle, NextAlias, acquireElse
    <2> QED
      BY <1>1, <1>6, <2>1, RenewSteps DEF Actors
  <1>7. CASE ArchiveOperation \/ Signal \/ (\E d \in Names : Age(d)) \/ BootCert \/ BootCaddy
               \/ UNCHANGED vars
    <2>1. UNCHANGED <<zones, served, act>> /\ broken \subseteq broken' /\ (proc' \in Running => proc \in Running)
      BY <1>7 DEF ArchiveOperation, Signal, Age, BootCert, BootCaddy, bootElse, lockElse, vars, Up
    <2> QED
      BY <1>1, <2>1
  <1>8. CASE Exit \/ Crash \/ BootFails \/ BootNames \/ Drain
    <2>1. proc' \notin Running \/ served' = zones'
      BY <1>8 DEF Exit, Crash, BootFails, Fresh, BootNames, Drain
    <2> QED
      BY <2>1 DEF ServedFollow
  <1> QED
    BY <1>2, <1>3, <1>4, <1>5, <1>6, <1>7, <1>8 DEF Next, Handler, Boot

LEMMA RespondsPreserved ==
    ASSUME ActType, MdnsType, TableType, Roles, Starting, Responds, [Next]_vars
    PROVE  Responds'
  <1> USE DEF life, rows
  <1> DEFINE Running == {"cert", "caddy", "up"}
  <1>1. ASSUME UNCHANGED mdns, table' \cap Mdns = table \cap Mdns, broken \subseteq broken',
               proc' \in Running => proc \in Running,
               \A x \in Reqs : act[x].pc = "mdnsstop" => act'[x].pc = "mdnsstop"
        PROVE  Responds'
    BY <1>1 DEF Responds
  \* What the responder's update leaves.
  <1>2. ASSUME proc' \in Running => proc \in Running, MdnsUpdate(table' \cap Mdns),
               broken' \in {broken, broken \cup {"mdns"}},
               mdns'.sock = "stopping" => \E x \in Reqs : act'[x].pc = "mdnsstop"
        PROVE  Responds'
    <2>1. mdns'.names = table' \cap Mdns
      BY <1>2 DEF MdnsUpdate, MdnsType
    <2>2. CASE broken' = broken \cup {"mdns"}
      BY <1>2, <2>1, <2>2 DEF Responds
    <2>3. CASE mdns' = [names |-> table' \cap Mdns,
                   sock |-> IF table' \cap Mdns # {} /\ mdns.sock = "off" THEN "on"
                            ELSE IF table' \cap Mdns = {} /\ mdns.sock = "on" THEN "stopping" ELSE mdns.sock]
      <3>1. mdns'.sock = "on" => mdns'.names # {}
        BY <2>3
      <3>2. mdns'.sock = "off" => mdns'.names = {}
        BY <2>3
      <3> QED
        BY <1>2, <2>1, <3>1, <3>2 DEF Responds
    <2> QED
      BY <1>2, <2>2, <2>3 DEF MdnsUpdate
  <1>3. ASSUME NEW x \in Reqs, NEW d \in Names, NEW withTls \in BOOLEAN, AddDomain(x, d, withTls)
        PROVE  Responds'
    <2>1. UNCHANGED proc /\ table' = table \cup {d}
      BY <1>3 DEF AddDomain, requestElse
    <2>2. \A y \in Reqs : act[y].pc = "mdnsstop" => act'[y].pc = "mdnsstop"
      BY <1>3, RequestMoves DEF Request, Moves, Actors
    <2>3. CASE d \notin Mdns
      <3>1. UNCHANGED mdns /\ broken \subseteq broken'
        BY <1>3, <2>3 DEF AddDomain
      <3> QED
        BY <1>1, <2>1, <2>2, <2>3, <3>1
    <2>4. CASE d \in Mdns
      <3>1. MdnsUpdate(table' \cap Mdns) /\ broken' \in {broken, broken \cup {"mdns"}}
        BY <1>3, <2>4 DEF AddDomain, MdnsUpdate
      <3>2. table' \cap Mdns # {} /\ proc = "up"
        BY <1>3, <2>1, <2>4 DEF AddDomain, Up
      <3>3. mdns'.sock = "stopping" => mdns.sock = "stopping"
        BY <3>1, <3>2 DEF MdnsUpdate, MdnsType
      <3>4. CASE "mdns" \in broken
        <4>1. mdns'.names = table' \cap Mdns
          BY <3>1 DEF MdnsUpdate, MdnsType
        <4> QED
          BY <3>1, <3>4, <4>1 DEF Responds
      <3>5. CASE "mdns" \notin broken
        <4>1. mdns'.sock = "stopping" => \E y \in Reqs : act'[y].pc = "mdnsstop"
          BY <2>2, <3>2, <3>3, <3>5 DEF Responds
        <4> QED
          BY <1>2, <2>1, <3>1, <4>1
      <3> QED
        BY <3>4, <3>5
    <2> QED
      BY <2>3, <2>4
  <1>4. ASSUME NEW x \in Reqs, NEW d \in Names, RemoveDomain(x, d) \/ MakePrimary(x, d) PROVE Responds'
    <2>1. UNCHANGED <<mdns, table, broken, proc>>
      BY <1>4 DEF RemoveDomain, MakePrimary, requestElse, lockElse
    <2>2. \A y \in Reqs : act[y].pc = "mdnsstop" => act'[y].pc = "mdnsstop"
      BY <1>4, RequestMoves DEF Request, Moves, Actors
    <2> QED
      BY <1>1, <2>1, <2>2
  <1>5. ASSUME NEW x \in Actors, DeleteRow(x) PROVE Responds'
    <2>1. x \in Reqs /\ act[x].pc = "delete" /\ UNCHANGED proc
      BY <1>5 DEF DeleteRow, requestElse, Roles, RenewalSteps, Actors
    <2>2. \A y \in Reqs : act[y].pc = "mdnsstop" => act'[y].pc = "mdnsstop"
      BY <1>5, <2>1, HandlerMoves DEF Handler, Moves, Actors
    <2>3. CASE UNCHANGED <<mdns, broken>> /\ table' \cap Mdns = table \cap Mdns
      BY <1>1, <2>1, <2>2, <2>3
    <2>4. CASE MdnsUpdate(table' \cap Mdns) /\ Goto(x, IF mdns'.sock = "stopping" THEN "mdnsstop" ELSE "write")
      <3>1. broken' \in {broken, broken \cup {"mdns"}}
        BY <2>4 DEF MdnsUpdate
      <3>2. mdns'.sock = "stopping" => act'[x].pc = "mdnsstop"
        BY <2>1, <2>4 DEF Goto, ActType, Slot, Actors
      <3> QED
        BY <1>2, <2>1, <2>4, <3>1, <3>2
    <2>5. \/ UNCHANGED <<mdns, broken, table>>
          \/ UNCHANGED <<mdns, broken>> /\ table' = table \ {act[x].d} /\ act[x].d \notin Mdns
          \/ MdnsUpdate(table' \cap Mdns) /\ Goto(x, IF mdns'.sock = "stopping" THEN "mdnsstop" ELSE "write")
      BY <1>5 DEF DeleteRow
    <2> QED
      BY <2>3, <2>4, <2>5
  <1>6. ASSUME NEW x \in Actors, MdnsStop(x) PROVE Responds'
    <2>1. UNCHANGED <<table, proc>> /\ mdns'.names = mdns.names /\ mdns'.sock = "off"
          /\ (mdns.names # {} => "mdns" \in broken')
      BY <1>6 DEF MdnsStop, MdnsType
    <2> QED
      BY <2>1 DEF Responds
  <1>7. ASSUME NEW x \in Actors, ApplyZones(x) \/ RestartDns(x)
                 \/ WriteCaddyfile(x) \/ ApplyCaddyfile(x) \/ Order(x) \/ Issued(x)
                 \/ EnsureCert(x) \/ OrderFails(x) \/ Refused(x) \/ Mark(x)
                 \/ PromoteBegin(x) \/ PromoteThread(x) \/ PromoteTrigger(x)
        PROVE  Responds'
    <2>1. UNCHANGED <<mdns, table, proc>> /\ broken \subseteq broken'
      BY <1>7 DEF ApplyZones, RestartDns, WriteCaddyfile, ApplyCaddyfile, Order, Issued, EnsureCert, OrderFails,
         Refused, Mark, PromoteBegin, PromoteThread, PromoteTrigger, zoneElse, acquireElse, lockElse
    <2>2. act[x].pc # "mdnsstop"
      BY <1>7 DEF ApplyZones, RestartDns, WriteCaddyfile, ApplyCaddyfile, Order, Issued, EnsureCert, OrderFails,
         Refused, Mark, PromoteBegin, PromoteThread, PromoteTrigger
    <2>3. \A y \in Reqs : act[y].pc = "mdnsstop" => act'[y].pc = "mdnsstop"
      BY <1>7, <2>2, HandlerMoves DEF Handler, Moves, Actors
    <2> QED
      BY <1>1, <2>1, <2>3
  <1>8. CASE Renew
    <2>1. UNCHANGED <<mdns, table, proc, broken>>
      BY <1>8 DEF Renew, RenewCycle, NextAlias, acquireElse
    <2> QED
      BY <1>1, <1>8, <2>1, RenewSteps DEF Actors
  <1>9. CASE ArchiveOperation \/ Signal \/ (\E d \in Names : Age(d)) \/ BootCert \/ BootCaddy
               \/ UNCHANGED vars
    <2>1. UNCHANGED <<mdns, table, act>> /\ broken \subseteq broken' /\ (proc' \in Running => proc \in Running)
      BY <1>9 DEF ArchiveOperation, Signal, Age, BootCert, BootCaddy, bootElse, lockElse, vars, Up
    <2> QED
      BY <1>1, <2>1
  <1>10. CASE Exit \/ Crash \/ BootFails \/ Drain
    <2>1. proc' \notin Running
      BY <1>10 DEF Exit, Crash, BootFails, Fresh, Drain
    <2> QED
      BY <2>1 DEF Responds
  <1>11. CASE BootNames
    <2>1. mdns = [names |-> {}, sock |-> "off"] /\ MdnsUpdate(table' \cap Mdns)
      BY <1>11 DEF BootNames, bootElse, Starting
    <2>2. /\ mdns'.names = table' \cap Mdns
          /\ "mdns" \notin broken' => /\ mdns'.sock # "stopping"
                                      /\ mdns'.sock = "on" => mdns'.names # {}
                                      /\ mdns'.sock = "off" => mdns'.names = {}
      BY <2>1 DEF MdnsUpdate
    <2> QED
      BY <2>2 DEF Responds
  <1> QED
    BY <1>3, <1>4, <1>5, <1>6, <1>7, <1>8, <1>9, <1>10, <1>11 DEF Next, Request, Handler, Boot

LEMMA WrittenPreserved ==
    ASSUME ActType, RenewalType, Roles, FileWritten, [Next]_vars
    PROVE  FileWritten'
  <1> USE DEF rows, issuing, front, life, Up
  <1>1. ASSUME UNCHANGED caddyfile, Generated' = Generated, broken \subseteq broken', Up' => Up,
               \A x \in Actors : Owing(x) => Owing(x)'
        PROVE  FileWritten'
    BY <1>1 DEF FileWritten
  <1>2. ASSUME NEW x \in Actors, Owing(x)' PROVE FileWritten'
    BY <1>2 DEF FileWritten
  <1>3. ASSUME UNCHANGED <<table, tls, cert>> PROVE Generated' = Generated
    BY <1>3 DEF Generated, CertStatus
  \* The step of an actor that owes nothing, or only by the renewal's flag.
  <1>4. ASSUME NEW x \in Actors, Moves(x), UNCHANGED <<caddyfile, table, tls, cert, renewal, proc>>,
               broken \subseteq broken', act[x].pc \notin Zoning \cup {"mdnsstop", "write", "mark"}
        PROVE  FileWritten'
    <2>1. \A y \in Actors : Owing(y) => Owing(y)'
      BY <1>4 DEF Owing, Moves
    <2> QED
      BY <1>1, <1>3, <1>4, <2>1
  <1>5. ASSUME NEW x \in Reqs, NEW d \in Names, NEW withTls \in BOOLEAN, AddDomain(x, d, withTls)
        PROVE  FileWritten'
    <2>1. Owing(x)'
      BY <1>5, AddBegins DEF Begins, Owing, Zoning
    <2> QED
      BY <1>2, <2>1 DEF Actors
  <1>6. ASSUME NEW x \in Reqs, NEW d \in Names, RemoveDomain(x, d) \/ MakePrimary(x, d) PROVE FileWritten'
    <2>1. Moves(x) /\ act[x].pc = "idle"
      BY <1>6, RequestMoves DEF Request
    <2>2. UNCHANGED <<caddyfile, table, tls, cert, renewal, proc, broken>>
      BY <1>6 DEF RemoveDomain, MakePrimary, requestElse, lockElse
    <2> QED
      BY <1>4, <2>1, <2>2 DEF Actors, Zoning
  <1>7. ASSUME NEW x \in Actors, DeleteRow(x) PROVE FileWritten'
    <2>1. UNCHANGED <<caddyfile, tls, cert, renewal, proc>> /\ act[x].pc = "delete"
      BY <1>7 DEF DeleteRow, requestElse
    <2>2. CASE UNCHANGED <<table, broken>>
      BY <1>4, <1>7, <2>1, <2>2, HandlerMoves DEF Handler, Zoning
    <2>3. CASE \E y \in Zoning \cup {"mdnsstop", "write"} : Goto(x, y)
      <3>1. Owing(x)'
        BY <2>3 DEF Goto, ActType, Slot, Owing
      <3> QED
        BY <1>2, <3>1
    <2> QED
      BY <1>7, <2>2, <2>3 DEF DeleteRow, Zoning
  <1>8. ASSUME NEW x \in Actors, MdnsStop(x) \/ ApplyZones(x) \/ RestartDns(x) PROVE FileWritten'
    <2>1. CASE \E y \in Zoning \cup {"mdnsstop", "write"} : Goto(x, y)
      <3>1. Owing(x)'
        BY <2>1 DEF Goto, ActType, Slot, Owing
      <3> QED
        BY <1>2, <3>1
    <2>2. CASE "dns" \in broken'
      BY <2>2 DEF FileWritten
    <2> QED
      BY <1>8, <2>1, <2>2 DEF MdnsStop, ApplyZones, RestartDns, Zoning
  <1>9. ASSUME NEW x \in Actors, WriteCaddyfile(x) PROVE FileWritten'
    <2>1. caddyfile' = Generated /\ UNCHANGED <<table, tls, cert>>
      BY <1>9 DEF WriteCaddyfile
    <2> QED
      BY <1>3, <2>1 DEF FileWritten
  <1>10. ASSUME NEW x \in Actors, ApplyCaddyfile(x) \/ PromoteBegin(x) \/ PromoteThread(x) \/ PromoteTrigger(x)
                 \/ Order(x) \/ EnsureCert(x) \/ OrderFails(x) \/ Refused(x)
         PROVE  FileWritten'
    <2>1. /\ UNCHANGED <<caddyfile, table, tls, cert, renewal, proc>> /\ broken \subseteq broken'
          /\ act[x].pc \notin Zoning \cup {"mdnsstop", "write", "mark"}
      BY <1>10 DEF ApplyCaddyfile, PromoteBegin, PromoteThread, PromoteTrigger, Order, EnsureCert, OrderFails,
         Refused, acquireElse, lockElse, Zoning
    <2> QED
      BY <1>4, <1>10, <2>1, HandlerMoves DEF Handler
  <1>11. ASSUME NEW x \in Actors, Issued(x) PROVE FileWritten'
    <2>1. Owing(x)'
      BY <1>11 DEF Issued, Goto, ActType, Slot, Owing
    <2> QED
      BY <1>2, <2>1
  <1>12. ASSUME NEW x \in Actors, Mark(x) PROVE FileWritten'
    <2>1. Owing(x)'
      <3>1. CASE act' = [act EXCEPT ![x].pc = "write", ![x].kind = "none"]
        <4>1. act'[x].pc = "write"
          BY <3>1 DEF ActType, Slot
        <4> QED
          BY <4>1 DEF Owing
      <3>2. CASE x = Renewal /\ \E todo : renewal' = [renewal EXCEPT !.renewed = TRUE, !.todo = todo]
        <4>1. renewal'.renewed
          BY <3>2 DEF RenewalType
        <4> QED
          BY <3>2, <4>1 DEF Owing
      <3> QED
        BY <1>12, <3>1, <3>2 DEF Mark
    <2> QED
      BY <1>2, <2>1
  <1>13. CASE Renew
    <2>1. UNCHANGED <<caddyfile, table, tls, cert, proc, broken>>
      BY <1>13 DEF Renew, RenewCycle, NextAlias, acquireElse
    <2>2. \A x \in Actors \ {Renewal} : Owing(x) => Owing(x)'
      BY <1>13, RenewSteps DEF Owing
    <2>3. Owing(Renewal) => renewal.renewed /\ NextAlias
      BY <1>13 DEF Renew, RenewCycle, NextAlias, Owing, Roles, Zoning
    <2>4. renewal.renewed /\ NextAlias => Owing(Renewal)'
      <3>1. CASE \E d : renewal' = [renewal EXCEPT !.todo = d]
        BY <3>1 DEF Owing, RenewalType
      <3>2. CASE act' = [act EXCEPT ![Renewal] = [Idle EXCEPT !.pc = "write"]]
        <4>1. act'[Renewal].pc = "write"
          BY <3>2 DEF ActType, Idle, Actors
        <4> QED
          BY <4>1 DEF Owing
      <3> QED
        BY <3>1, <3>2 DEF NextAlias
    <2> QED
      BY <1>1, <1>3, <2>1, <2>2, <2>3, <2>4
  <1>14. CASE ArchiveOperation \/ Signal \/ UNCHANGED vars
    <2>1. UNCHANGED <<caddyfile, table, tls, cert, renewal, act, proc, broken>>
      BY <1>14 DEF ArchiveOperation, Signal, lockElse, vars
    <2> QED
      BY <1>1, <1>3, <2>1 DEF Owing
  <1>15. ASSUME NEW d \in Names, Age(d) PROVE FileWritten'
    <2>1. UNCHANGED <<caddyfile, table, tls, renewal, act, proc, broken>>
      BY <1>15 DEF Age
    <2>2. cert[d] \in {"ok", "soon"} /\ cert' = [cert EXCEPT ![d] = IF cert[d] = "ok" THEN "soon" ELSE "expired"]
      BY <1>15 DEF Age
    <2>3. \A e : (CertStatus(e) # "missing") <=> (CertStatus(e)' # "missing")
      BY <2>2 DEF CertStatus
    <2>4. Generated' = Generated
      BY <2>1, <2>3 DEF Generated
    <2> QED
      BY <1>1, <2>1, <2>4 DEF Owing
  <1>16. CASE Drain \/ Exit \/ Crash \/ BootFails \/ BootNames \/ BootCert
    <2>1. ~Up'
      BY <1>16 DEF Drain, Exit, Crash, Fresh, BootFails, BootNames, BootCert
    <2> QED
      BY <2>1 DEF FileWritten
  <1>17. CASE BootCaddy
    <2>1. caddyfile' = Generated /\ UNCHANGED <<table, tls, cert>>
      BY <1>17 DEF BootCaddy, bootElse
    <2> QED
      BY <1>3, <2>1 DEF FileWritten
  <1> QED
    BY <1>5, <1>6, <1>7, <1>8, <1>9, <1>10, <1>11, <1>12, <1>13, <1>14, <1>15, <1>16, <1>17
       DEF Next, Request, Handler, Boot

LEMMA LoadedPreserved ==
    ASSUME ActType, FileLoaded, [Next]_vars
    PROVE  FileLoaded'
  <1> USE DEF front, life, Up
  <1>1. ASSUME UNCHANGED <<caddyfile, caddy>>, broken \subseteq broken', Up' => Up,
               \A x \in Actors : act[x].pc = "apply" => act'[x].pc = "apply"
        PROVE  FileLoaded'
    BY <1>1 DEF FileLoaded
  <1>2. ASSUME NEW x \in Reqs, Request(x) PROVE FileLoaded'
    <2>1. UNCHANGED <<caddyfile, caddy, proc>> /\ broken \subseteq broken'
      BY <1>2 DEF Request, AddDomain, RemoveDomain, MakePrimary, MdnsUpdate, lockElse, requestElse
    <2> QED
      BY <1>1, <1>2, <2>1, RequestMoves DEF Moves, Actors
  <1>3. ASSUME NEW x \in Actors, WriteCaddyfile(x) PROVE FileLoaded'
    <2>1. act'[x].pc = "apply"
      BY <1>3 DEF WriteCaddyfile, Goto, ActType, Slot
    <2> QED
      BY <2>1 DEF FileLoaded
  <1>4. ASSUME NEW x \in Actors, ApplyCaddyfile(x) PROVE FileLoaded'
    <2>1. caddy' = caddyfile' \/ "caddy" \in broken'
      BY <1>4 DEF ApplyCaddyfile
    <2> QED
      BY <2>1 DEF FileLoaded
  <1>5. ASSUME NEW x \in Actors, DeleteRow(x) \/ MdnsStop(x) \/ ApplyZones(x) \/ RestartDns(x)
                 \/ Order(x) \/ Issued(x) \/ EnsureCert(x) \/ OrderFails(x) \/ Refused(x) \/ Mark(x)
                 \/ PromoteBegin(x) \/ PromoteThread(x) \/ PromoteTrigger(x)
        PROVE  FileLoaded'
    <2>1. /\ UNCHANGED <<caddyfile, caddy, proc>> /\ broken \subseteq broken'
          /\ act[x].pc # "apply"
      BY <1>5 DEF DeleteRow, MdnsStop, ApplyZones, RestartDns, Order, Issued, EnsureCert, OrderFails,
         Refused, Mark, PromoteBegin, PromoteThread, PromoteTrigger, MdnsUpdate, requestElse, zoneElse,
         acquireElse, lockElse
    <2> QED
      BY <1>1, <1>5, <2>1, HandlerMoves DEF Handler, Moves
  <1>6. CASE Renew
    <2>1. UNCHANGED <<caddyfile, caddy, proc, broken>>
      BY <1>6 DEF Renew, RenewCycle, NextAlias, acquireElse
    <2> QED
      BY <1>1, <1>6, <2>1, RenewSteps
  <1>7. CASE ArchiveOperation \/ Signal \/ (\E d \in Names : Age(d)) \/ UNCHANGED vars
    <2>1. UNCHANGED <<caddyfile, caddy, act, proc, broken>>
      BY <1>7 DEF ArchiveOperation, Signal, Age, lockElse, vars
    <2> QED
      BY <1>1, <2>1
  <1>8. CASE Drain \/ Exit \/ Crash \/ BootFails \/ BootNames \/ BootCert
    <2>1. ~Up'
      BY <1>8 DEF Drain, Exit, Crash, Fresh, BootFails, BootNames, BootCert
    <2> QED
      BY <2>1 DEF FileLoaded
  <1>9. CASE BootCaddy
    <2>1. caddy' = caddyfile' \/ "caddy" \in broken'
      BY <1>9 DEF BootCaddy
    <2> QED
      BY <2>1 DEF FileLoaded
  <1> QED
    BY <1>2, <1>3, <1>4, <1>5, <1>6, <1>7, <1>8, <1>9 DEF Next, Handler, Boot

-----------------------------------------------------------------------------
(* Promotion *)

LEMMA PromotablePreserved ==
    ASSUME ActType, TableType, CertType, LifeType, Roles, Starting, PrimaryListed, Promotable, [Next]_vars
    PROVE  Promotable'
  <1> USE DEF rows, issuing, life, Up, Good
  \* What every step leaves of the names that are good.
  <1> DEFINE Lasting(d) ==
        (d \in tls => cert[d] \in {"ok", "torn", "soon"} \/ "promote" \in broken)
          => (d \in tls' => cert'[d] \in {"ok", "torn", "soon"} \/ "promote" \in broken')
  <1> DEFINE Running == {"up", "drain"}
  <1>1. ASSUME UNCHANGED <<table, tls, cert>>, broken \cap {"promote"} \subseteq broken' PROVE \A d : Lasting(d)
    BY <1>1
  \* The step of an actor that does not promote.
  <1>2. ASSUME NEW x \in Actors, Moves(x), act[x].kind # "promote", act[x].pc # "trigger",
               act'[x].kind # "promote", act'[x].pc # "trigger",
               UNCHANGED <<primary, zone, proc>>, pending => pending',
               \A y \in Reqs : act[y].kind = "promote" => Lasting(act[y].d),
               Lasting(primary)
        PROVE  Promotable'
    <2>1. ASSUME NEW y \in Reqs, act'[y].kind = "promote" \/ act'[y].pc = "trigger"
          PROVE  y # x /\ act'[y] = act[y]
      BY <1>2, <2>1 DEF Moves, Actors
    <2>2. \A y \in Reqs : act[y].pc = "trigger" => act'[y].pc = "trigger"
      BY <1>2 DEF Moves, Actors
    <2> QED
      BY <1>2, <2>1, <2>2 DEF Promotable
  <1>3. ASSUME NEW x \in Reqs, NEW d \in Names, NEW withTls \in BOOLEAN, AddDomain(x, d, withTls)
        PROVE  Promotable'
    <2>1. Moves(x) /\ act[x].pc = "idle" /\ act'[x].kind # "promote" /\ act'[x].pc # "trigger" /\ x \in Actors
      BY <1>3, RequestMoves, AddBegins DEF Begins, Request, Actors
    <2>2. act[x].kind # "promote"
      BY <2>1 DEF Roles, Promoting
    <2>3. UNCHANGED <<primary, zone, proc, pending, cert>> /\ broken \subseteq broken'
      BY <1>3 DEF AddDomain, MdnsUpdate, requestElse
    <2>4. /\ tls' = IF withTls THEN tls \cup {d} ELSE tls \ {d}
          /\ d \in Mdns => ~withTls
          /\ d \notin table
      BY <1>3 DEF AddDomain
    <2>5. \A e \in Names \ {d} : Lasting(e)
      BY <2>3, <2>4
    <2>6. ASSUME NEW y \in Reqs, act[y].kind = "promote" PROVE Lasting(act[y].d)
      <3>1. act[y].d \in Names
        BY DEF ActType, Slot, Actors
      <3>2. CASE act[y].d # d
        BY <2>5, <3>1, <3>2
      <3>3. CASE act[y].d = d /\ ~withTls
        BY <2>4, <3>3
      <3>4. CASE act[y].d = d /\ withTls
        <4>1. "promote" \in broken'
          BY <1>3, <2>4, <2>6, <3>4 DEF AddDomain
        <4> QED
          BY <4>1
      <3> QED
        BY <3>2, <3>3, <3>4
    <2>7. Lasting(primary)
      BY <2>4, <2>5 DEF PrimaryListed, TableType
    <2> QED
      BY <1>2, <2>1, <2>2, <2>3, <2>6, <2>7
  <1>4. ASSUME NEW x \in Reqs, NEW d \in Names, RemoveDomain(x, d) PROVE Promotable'
    <2>1. Moves(x) /\ act[x].pc = "idle" /\ act'[x].kind = "remove" /\ act'[x].pc = "delete" /\ x \in Actors
      BY <1>4, RequestMoves, RemoveBegins DEF Begins, Request, Actors
    <2>2. act[x].kind # "promote"
      BY <2>1 DEF Roles, Promoting
    <2>3. UNCHANGED <<primary, zone, proc, pending, cert, table, tls, broken>>
      BY <1>4 DEF RemoveDomain, requestElse
    <2> QED
      BY <1>1, <1>2, <2>1, <2>2, <2>3
  <1>5. ASSUME NEW x \in Reqs, NEW d \in Names, MakePrimary(x, d) PROVE Promotable'
    <2>1. Moves(x) /\ act[x].pc = "idle" /\ act'[x].kind = "promote" /\ act'[x].pc = "begin" /\ act'[x].d = d
          /\ x \in Actors
      BY <1>5, RequestMoves, PromoteBegins DEF Begins, Request, Actors
    <2>2. UNCHANGED <<primary, zone, proc, pending, cert, table, tls, broken>>
      BY <1>5 DEF MakePrimary, lockElse
    <2>3. d \in tls' => cert'[d] \in {"ok", "torn", "soon"}
      BY <1>5, <2>2 DEF MakePrimary, Usable, CertStatus
    <2>4. \A e : Lasting(e)
      BY <1>1, <2>2
    <2>5. \A y \in Reqs \ {x} : act'[y] = act[y]
      BY <2>1 DEF Moves, Actors
    <2>6. \A y \in Reqs : act[y].pc = "trigger" => act'[y].pc = "trigger"
      BY <2>1, <2>5
    <2> QED
      BY <2>1, <2>2, <2>3, <2>4, <2>5, <2>6 DEF Promotable
  <1>6. ASSUME NEW x \in Actors, DeleteRow(x) \/ MdnsStop(x) \/ ApplyZones(x) \/ RestartDns(x) \/ WriteCaddyfile(x)
                 \/ ApplyCaddyfile(x) \/ Order(x) \/ Issued(x) \/ EnsureCert(x) \/ OrderFails(x) \/ Refused(x) \/ Mark(x)
        PROVE  Promotable'
    <2>1. Moves(x)
      BY <1>6, HandlerMoves DEF Handler
    <2>2. act[x].kind # "promote" /\ act[x].pc # "trigger"
      <3>1. act[x].pc \notin Promoting
        BY <1>6 DEF DeleteRow, MdnsStop, ApplyZones, RestartDns, WriteCaddyfile, ApplyCaddyfile, Order, Issued,
           EnsureCert, OrderFails, Refused, Mark, Promoting
      <3> QED
        BY <3>1 DEF Roles, Promoting, Actors
    <2>3. act'[x].kind # "promote" /\ act'[x].pc # "trigger"
      <3>1. \/ Done(x) \/ \E y \in Steps \ Promoting : Goto(x, y)
            \/ \E n : act' = [act EXCEPT ![x].pc = "issue", ![x].n = n]
            \/ act' = [act EXCEPT ![x].pc = "write", ![x].kind = "none"]
            \/ act' = [act EXCEPT ![x].pc = "aliases", ![x].n = 0]
        <4>1. CASE EnsureCert(x) \/ OrderFails(x) \/ Refused(x) \/ Mark(x)
          BY <4>1 DEF EnsureCert, OrderFails, Refused, Mark, Failed, Steps, Promoting
        <4>2. CASE DeleteRow(x) \/ MdnsStop(x) \/ ApplyZones(x) \/ RestartDns(x) \/ WriteCaddyfile(x)
                 \/ ApplyCaddyfile(x) \/ Order(x) \/ Issued(x)
          BY <4>2 DEF DeleteRow, MdnsStop, ApplyZones, RestartDns, WriteCaddyfile, ApplyCaddyfile, Order, Issued,
             Steps, Promoting
        <4> QED
          BY <1>6, <4>1, <4>2
      <3> QED
        BY <2>2, <3>1 DEF Done, Goto, ActType, Slot, Idle, Promoting
    <2>4. UNCHANGED <<primary, zone, proc, pending, tls>> /\ broken \subseteq broken'
      BY <1>6 DEF DeleteRow, MdnsStop, ApplyZones, RestartDns, WriteCaddyfile, ApplyCaddyfile, Order, Issued,
         EnsureCert, OrderFails, Refused, Mark, MdnsUpdate, requestElse, zoneElse, acquireElse
    <2>5. \A d \in Names : cert'[d] = cert[d] \/ cert'[d] = "ok"
      <3>1. cert' = cert \/ cert' = [cert EXCEPT ![act[x].d] = "ok"]
        BY <1>6 DEF DeleteRow, MdnsStop, ApplyZones, RestartDns, WriteCaddyfile, ApplyCaddyfile, Order, Issued,
           EnsureCert, OrderFails, Refused, Mark, requestElse, zoneElse, acquireElse
      <3> QED
        BY <3>1 DEF CertType
    <2>6. \A d \in Names : Lasting(d)
      BY <2>4, <2>5
    <2>7. primary \in Names /\ \A y \in Reqs : act[y].d \in Names
      BY DEF TableType, ActType, Slot, Actors
    <2> QED
      BY <1>2, <2>1, <2>2, <2>3, <2>4, <2>6, <2>7
  <1>7. ASSUME NEW x \in Actors, PromoteBegin(x) \/ PromoteThread(x) \/ PromoteTrigger(x) PROVE Promotable'
    <2>1. x \in Reqs /\ Moves(x) /\ act[x].kind = "promote"
      BY <1>7, HandlerMoves DEF Handler, PromoteBegin, PromoteThread, PromoteTrigger, Roles, RenewalSteps, Promoting,
         Actors
    <2>2. \A y \in Reqs : act[y].kind = "promote" \/ act[y].pc = "trigger" => y = x
      BY <2>1 DEF Roles, Promoting
    <2>3. \A y \in Reqs \ {x} : act'[y].kind # "promote" /\ act'[y].pc # "trigger"
      BY <2>1, <2>2 DEF Moves, Actors
    <2>4. UNCHANGED <<table, tls, cert, broken, zone, proc>>
      BY <1>7 DEF PromoteBegin, PromoteThread, PromoteTrigger, lockElse
    <2>5. \A d : Lasting(d)
      BY <1>1, <2>4
    <2>6. Good(act[x].d)
      BY <2>1 DEF Promotable
    <2>7. CASE Done(x) /\ UNCHANGED primary /\ (pending' \/ (pending' = pending /\ act[x].pc # "trigger"))
      <3>1. act'[x].kind # "promote" /\ act'[x].pc # "trigger"
        BY <2>1, <2>7 DEF Done, ActType, Idle, Actors
      <3>2. act[x].pc # "trigger" => \A y \in Reqs : act[y].pc # "trigger"
        BY <2>2
      <3> QED
        BY <2>3, <2>4, <2>5, <2>7, <3>1, <3>2 DEF Promotable
    <2>8. CASE Goto(x, "thread") /\ UNCHANGED <<primary, pending>> /\ act[x].pc = "begin"
      <3>1. act'[x].pc = "thread" /\ act'[x].d = act[x].d
        BY <2>1, <2>8 DEF Goto, ActType, Slot, Actors
      <3>2. \A y \in Reqs : act[y].pc # "trigger"
        BY <2>2, <2>8
      <3> QED
        BY <2>1, <2>3, <2>4, <2>5, <2>6, <2>8, <3>1, <3>2 DEF Promotable
    <2>9. CASE Goto(x, "trigger") /\ primary' = act[x].d
      <3>1. act'[x].pc = "trigger" /\ act'[x].d = act[x].d
        BY <2>1, <2>9 DEF Goto, ActType, Slot, Actors
      <3>3. \A y \in Reqs : act'[y].kind = "promote" \/ act'[y].pc = "trigger" => y = x
        BY <2>3
      <3>4. Lasting(act[x].d)
        BY <2>5
      <3> QED
        BY <2>1, <2>6, <2>9, <3>1, <3>3, <3>4 DEF Promotable
    <2> QED
      BY <1>7, <2>7, <2>8, <2>9 DEF PromoteBegin, PromoteThread, PromoteTrigger
  <1>8. CASE Renew
    <2>1. UNCHANGED <<primary, zone, proc, pending, table, tls, cert, broken>>
      BY <1>8 DEF Renew, RenewCycle, NextAlias, acquireElse
    <2>2. \A y \in Reqs : act'[y] = act[y]
      BY <1>8, RenewSteps DEF Actors
    <2>3. \A d : Lasting(d)
      BY <1>1, <2>1
    <2> QED
      BY <2>1, <2>2, <2>3 DEF Promotable
  <1>9. CASE ArchiveOperation \/ Signal \/ UNCHANGED vars
    <2>1. UNCHANGED <<primary, zone, proc, table, tls, cert, broken, act>> /\ (pending => pending')
      BY <1>9 DEF ArchiveOperation, Signal, lockElse, vars
    <2>2. \A d : Lasting(d)
      BY <1>1, <2>1
    <2> QED
      BY <2>1, <2>2 DEF Promotable
  <1>10. CASE Drain
    <2>1. UNCHANGED <<primary, zone, table, tls, cert, broken, pending>> /\ proc \in Running /\ act' = Drained
      BY <1>10 DEF Drain, Drained
    <2>2. \A d : Lasting(d)
      BY <1>1, <2>1
    <2>3. \A y \in Reqs : IF act[y].kind = "promote" THEN act'[y] = act[y]
                          ELSE act'[y].kind # "promote" /\ act'[y].pc # "trigger"
      BY <2>1 DEF Drained, Idle, Actors
    <2>4. \A y \in Reqs : act[y].pc = "trigger" => act[y].kind = "promote"
      BY DEF Roles, Promoting
    <2> QED
      BY <2>1, <2>2, <2>3, <2>4 DEF Promotable
  <1>11. CASE Exit \/ Crash \/ BootFails
    <2>1. proc' = "down" /\ act' = [x \in Actors |-> Idle]
      BY <1>11 DEF Exit, Crash, BootFails, Fresh
    <2>2. \A x \in Reqs : act'[x].kind # "promote" /\ act'[x].pc # "trigger"
      BY <2>1 DEF Idle, Actors
    <2> QED
      BY <2>1, <2>2 DEF Promotable
  <1>12. CASE BootNames \/ BootCert \/ BootCaddy
    <2>1. act' = [x \in Actors |-> Idle] /\ (proc' \notin Running \/ zone' = primary')
      BY <1>12 DEF BootNames, BootCert, BootCaddy, bootElse, Starting
    <2>2. \A x \in Reqs : act'[x].kind # "promote" /\ act'[x].pc # "trigger"
      BY <2>1 DEF Idle, Actors
    <2> QED
      BY <2>1, <2>2 DEF Promotable
  \* Nothing is being promoted while days pass, and no restart is under way.
  <1>13. ASSUME NEW d \in Names, Age(d) PROVE Promotable'
    <2>1. owner = None /\ ~pending /\ UNCHANGED <<primary, zone, proc, act>>
      BY <1>13 DEF Age
    <2>2. \A x \in Reqs : act[x].kind # "promote" /\ act[x].pc # "trigger"
      BY <2>1 DEF Roles, Promoting
    <2>3. proc \in Running => primary = zone
      BY <2>1, <2>2 DEF Promotable
    <2> QED
      BY <2>1, <2>2, <2>3 DEF Promotable
  <1> QED
    BY <1>3, <1>4, <1>5, <1>6, <1>7, <1>8, <1>9, <1>10, <1>11, <1>12, <1>13 DEF Next, Request, Handler, Boot

-----------------------------------------------------------------------------
(* The inductive invariant *)

Followers == QueueOK /\ ZonesFollow /\ ServedFollow /\ Responds /\ FileWritten /\ FileLoaded

IInv ==
    /\ TypeOK
    /\ Roles /\ Starting /\ PrimaryListed /\ IssueOK
    /\ Followers
    /\ Promotable

LEMMA InvInit == Init => IInv
  <1> SUFFICES ASSUME Init PROVE IInv
    OBVIOUS
  <1>1. \A x \in Actors : act[x].pc = "idle" /\ act[x].kind = "none"
    BY DEF Init, Idle
  <1>2. proc = "down" /\ zq = <<>> /\ iq = <<>> /\ ~pending /\ ~renewal.renewed /\ primary \in table
    BY DEF Init
  <1>3. Roles
    BY <1>1, <1>2 DEF Roles, RenewalSteps, Zoning, Promoting, Actors
  <1>4. Starting
    BY DEF Init, Starting
  <1>5. PrimaryListed /\ IssueOK
    BY <1>1, <1>2 DEF PrimaryListed, IssueOK
  <1>6. Followers
    BY <1>1, <1>2 DEF Followers, QueueOK, ZonesFollow, ServedFollow, Responds, FileWritten, FileLoaded, Zoning,
       Up, Actors
  <1>7. Promotable
    BY <1>1, <1>2 DEF Promotable, Actors
  <1> QED
    BY <1>3, <1>4, <1>5, <1>6, <1>7, TypeInit DEF IInv

LEMMA InvNext == IInv /\ [Next]_vars => IInv'
  <1> SUFFICES ASSUME IInv, [Next]_vars PROVE IInv'
    OBVIOUS
  <1>1. /\ ActType /\ TableType /\ StatusType /\ CertType /\ QueueType /\ ZonesType
        /\ MdnsType /\ CaddyType /\ RenewalType /\ LifeType /\ SpentType
    BY TypeParts DEF IInv
  <1>2. Roles' /\ Starting' /\ PrimaryListed'
    BY <1>1, RolesPreserved, StartingPreserved, ListedPreserved DEF IInv
  <1>3. iq' \in Seq(Actors) /\ IssueOK'
    BY <1>1, IssuePreserved DEF IInv
  <1>4. zq' \in Seq(Reqs) /\ QueueOK' /\ ZonesFollow'
    BY <1>1, QueuePreserved DEF IInv, Followers, QueueType
  <1>5. ServedFollow' /\ Responds'
    BY <1>1, ServedPreserved, RespondsPreserved DEF IInv, Followers
  <1>6. FileWritten' /\ FileLoaded'
    BY <1>1, WrittenPreserved, LoadedPreserved DEF IInv, Followers
  <1>7. Promotable'
    BY <1>1, PromotablePreserved DEF IInv
  <1>8. ActType' /\ TableType' /\ StatusType' /\ CertType'
    <2>1. renewal.todo \subseteq Names
      BY <1>1 DEF RenewalType
    <2> QED
      BY <1>1, <2>1, ActPreserved, TablePreserved, StatusPreserved, CertPreserved
  <1>9. ZonesType' /\ MdnsType' /\ CaddyType'
    BY <1>1, ZonesTypePreserved, MdnsTypePreserved, CaddyTypePreserved DEF IInv
  <1>10. RenewalType' /\ LifeType' /\ SpentType' /\ QueueType'
    BY <1>1, <1>3, <1>4, RenewalTypePreserved, LifeTypePreserved, SpentPreserved DEF QueueType
  <1>11. TypeOK'
    BY <1>8, <1>9, <1>10, TypeParts, PTL
  <1> QED
    BY <1>2, <1>3, <1>4, <1>5, <1>6, <1>7, <1>11 DEF IInv, Followers

LEMMA Inductive == Spec => []IInv
  BY InvInit, InvNext, PTL DEF Spec

-----------------------------------------------------------------------------
(* The theorems *)

\* Every variable keeps its type, the two queues among them: only requests wait
\* for the zone lock, and nobody has more orders than _acquire_cert makes.
THEOREM DomainsTypeCorrect == Spec => []TypeOK
  <1>1. IInv => TypeOK
    BY DEF IInv
  <1> QED
    BY <1>1, Inductive, PTL

\* The zones, the responder and Caddy agree with the domains table whenever no
\* handler is on its way to them, however the coroutines, the thread of a
\* promotion, crashes and restarts interleave.
THEOREM FollowersFollow == Spec => []FollowersAgree
  <1>1. IInv => FollowersAgree
    <2> SUFFICES ASSUME IInv PROVE FollowersAgree
      OBVIOUS
    <2> USE DEF IInv, Followers, Up
    <2>1. ZonesType /\ MdnsType /\ zq \in Seq(Reqs)
      BY TypeParts DEF QueueType
    <2>2. DnsAgrees
      <3> SUFFICES ASSUME Up, dnsOn, \A x \in Reqs : act[x].pc \notin Zoning
                   PROVE  zones = table \ Mdns /\ (served = zones \/ "dns" \in broken)
        BY DEF DnsAgrees, Zoning
      <3>1. served = zones \/ "dns" \in broken
        BY DEF ServedFollow, Zoning
      <3>2. \A d : Waiting(d) = {}
        BY <2>1 DEF Waiting, Zoning
      <3>3. \A d \in Names \ Mdns : d \in zones <=> d \in table
        BY <3>2 DEF ZonesFollow
      <3>4. table \subseteq Names /\ zones \subseteq Names \ Mdns
        BY <2>1, TypeParts DEF ZonesType, TableType
      <3> QED
        BY <3>1, <3>3, <3>4
    <2>3. CaddyAgrees
      <3> SUFFICES ASSUME Up, \A x \in Actors : act[x].pc \in {"idle", "begin", "thread", "trigger", "delete"},
                          broken \cap {"dns", "caddy"} = {}
                   PROVE  caddy = Generated
        BY DEF CaddyAgrees
      <3>1. ~renewal.renewed
        BY DEF Roles, Actors
      <3>2. caddyfile = Generated
        BY <3>1 DEF FileWritten, Owing, Zoning
      <3>3. caddy = caddyfile
        BY DEF FileLoaded
      <3> QED
        BY <3>2, <3>3
    <2>4. MdnsAgrees
      <3>1. mdns.sock \in {"off", "on", "stopping"}
        BY <2>1 DEF MdnsType
      <3> QED
        BY <3>1 DEF MdnsAgrees, Responds
    <2> QED
      BY <2>2, <2>3, <2>4 DEF FollowersAgree
  <1> QED
    BY <1>1, Inductive, PTL

\* A restart that promotes a name meets a usable certificate for it: what
\* make_primary_domain looked at still holds when the process exits.
THEOREM OnlyReadyPromoted == Spec => []PromotedReady
  <1>1. IInv => PromotedReady
    <2> SUFFICES ASSUME IInv, primary \in tls,
                        (\E x \in Reqs : act[x].pc = "trigger") \/ (pending /\ primary # zone)
                 PROVE  Usable(primary) \/ "promote" \in broken
      BY DEF PromotedReady
    <2>1. Good(primary)
      <3>1. CASE \E x \in Reqs : act[x].pc = "trigger"
        BY <3>1 DEF IInv, Roles, Promoting, Promotable
      <3>2. CASE pending /\ primary # zone
        <4>1. proc \in {"up", "drain"}
          BY <3>2, TypeParts DEF IInv, Starting, LifeType
        <4> QED
          BY <3>2, <4>1 DEF IInv, Promotable
      <3> QED
        BY <3>1, <3>2
    <2> QED
      BY <2>1 DEF Good, Usable, CertStatus
  <1> QED
    BY <1>1, Inductive, PTL

\* A handler's step does to the table what one operation of DomainTable does, or
\* nothing: the row's INSERT, its DELETE and the promotion's UPDATE are the three.
LEMMA TableStep == TableType /\ ActType /\ [Next]_vars => [Abstract!Next]_<<table, primary>>
  <1> SUFFICES ASSUME TableType, ActType, [Next]_vars, ~UNCHANGED <<table, primary>> PROVE Abstract!Next
    OBVIOUS
  <1> USE DEF rows
  <1>1. ASSUME NEW x \in Reqs, Request(x) PROVE Abstract!Next
    BY <1>1 DEF Request, AddDomain, RemoveDomain, MakePrimary, lockElse, Abstract!Next, Abstract!Add
  <1>2. ASSUME NEW x \in Actors, DeleteRow(x) PROVE Abstract!Next
    BY <1>2 DEF DeleteRow, TableType, Abstract!Next, Abstract!Remove
  <1>3. ASSUME NEW x \in Actors, PromoteThread(x) PROVE Abstract!Next
    BY <1>3 DEF PromoteThread, TableType, lockElse, Abstract!Next, Abstract!Promote
  <1>4. ASSUME NEW x \in Actors, MdnsStop(x) \/ ApplyZones(x) \/ RestartDns(x)
                 \/ WriteCaddyfile(x) \/ ApplyCaddyfile(x) \/ Order(x) \/ Issued(x)
                 \/ EnsureCert(x) \/ OrderFails(x) \/ Refused(x) \/ Mark(x)
                 \/ PromoteBegin(x) \/ PromoteTrigger(x)
        PROVE  UNCHANGED <<table, primary>>
    BY <1>4 DEF MdnsStop, ApplyZones, RestartDns, WriteCaddyfile, ApplyCaddyfile, Order, Issued,
         EnsureCert, OrderFails, Refused, Mark, PromoteBegin, PromoteTrigger, zoneElse, lockElse
  <1>5. CASE Renew \/ ArchiveOperation \/ Signal \/ Drain \/ Exit \/ Crash \/ Boot
               \/ (\E d \in Names : Age(d)) \/ UNCHANGED vars
    <2>1. UNCHANGED <<table, primary>>
      BY <1>5 DEF Renew, RenewCycle, NextAlias, ArchiveOperation, Signal, Drain, Exit, Crash, Fresh, Boot,
         BootNames, BootCert, BootFails, BootCaddy, bootElse, Age, lockElse, vars
    <2> QED
      BY <2>1
  <1> QED
    BY <1>1, <1>2, <1>3, <1>4, <1>5 DEF Next, Handler

\* The table that clients see is DomainTable's: a name is added once, the primary
\* is never removed and nothing but a name of the table is promoted.
THEOREM TableImplements == Spec => TableRefines
  <1>1. Init => Abstract!Init
    BY DEF Init, Abstract!Init
  <1>2. IInv /\ [Next]_vars => [Abstract!Next]_<<table, primary>>
    BY TableStep, TypeParts DEF IInv
  <1>3. [Abstract!Next]_<<table, primary>> <=> [Abstract!Next]_(Abstract!tableVars)
    BY DEF Abstract!tableVars
  <1> QED
    BY <1>1, <1>2, <1>3, Inductive, PTL DEF Spec, TableRefines, Abstract!Spec

-----------------------------------------------------------------------------
(* What the two liveness properties rest on in every state *)

\* Only a TLS name is acquiring a certificate ...
AcquiringTls == \A d \in table : status[d] = "acquiring" => d \in tls

\* ... and there is somebody to acquire it: the request that added the name, or the
\* renewal loop, which a restart begins. An instance without DNS has neither, and a
\* handler whose CoreDNS did not come up again leaves its name behind.
Acquires(x, d) == act[x].kind = "addtls" /\ act[x].d = d /\ act[x].pc # "idle"

AcquiringOwned ==
    Up /\ dnsOn /\ "dns" \notin broken =>
        \A d \in table : status[d] = "acquiring" =>
            renewal.on \/ \E x \in Reqs : Acquires(x, d)

NoNewAcquiring ==
    /\ table' \subseteq table /\ tls' = tls
    /\ \A d \in table : status'[d] = "acquiring" => status[d] = "acquiring"

LEMMA OnlyAddAcquires ==
    ASSUME StatusType, TableType, [Next]_vars,
           ~\E x \in Reqs, d \in Names, withTls \in BOOLEAN : AddDomain(x, d, withTls)
    PROVE  NoNewAcquiring
  <1> USE DEF NoNewAcquiring, StatusType, TableType, rows
  <1>0. ASSUME NEW d, NEW s \in {"active", "error"}, SetStatus(d, s), UNCHANGED <<table, tls>>
        PROVE  NoNewAcquiring
    BY <1>0 DEF SetStatus
  <1>1. ASSUME NEW x \in Reqs, NEW d \in Names, RemoveDomain(x, d) \/ MakePrimary(x, d)
        PROVE  NoNewAcquiring
    BY <1>1 DEF RemoveDomain, MakePrimary, lockElse
  <1>2. ASSUME NEW x \in Actors, OrderFails(x) \/ Mark(x) \/ EnsureCert(x) \/ Refused(x)
        PROVE  NoNewAcquiring
    <2>1. Failed(x) => UNCHANGED status \/ SetStatus(act[x].d, "error")
      BY DEF Failed
    <2>2. UNCHANGED <<table, tls>>
          /\ (UNCHANGED status \/ SetStatus(act[x].d, "error") \/ SetStatus(act[x].d, "active"))
      BY <1>2, <2>1 DEF OrderFails, Mark, EnsureCert, Refused
    <2> QED
      BY <1>0, <2>2
  <1>3. ASSUME NEW x \in Actors, DeleteRow(x)
        PROVE  NoNewAcquiring
    BY <1>3 DEF DeleteRow
  <1>4. ASSUME NEW x \in Actors, MdnsStop(x) \/ ApplyZones(x) \/ RestartDns(x) \/ WriteCaddyfile(x)
                 \/ ApplyCaddyfile(x) \/ Order(x) \/ Issued(x)
                 \/ PromoteBegin(x) \/ PromoteThread(x) \/ PromoteTrigger(x)
        PROVE  NoNewAcquiring
    BY <1>4 DEF MdnsStop, ApplyZones, RestartDns, WriteCaddyfile, ApplyCaddyfile, Order, Issued,
         PromoteBegin, PromoteThread, PromoteTrigger, zoneElse, lockElse
  <1>5. CASE Renew
    BY <1>5 DEF Renew, RenewCycle, NextAlias
  <1>6. CASE ArchiveOperation \/ Signal \/ Drain \/ Exit \/ Crash \/ Boot
               \/ (\E d \in Names : Age(d)) \/ UNCHANGED vars
    BY <1>6 DEF ArchiveOperation, Signal, Drain, Exit, Crash, Fresh, Boot,
         BootNames, BootCert, BootFails, BootCaddy, bootElse, Age, lockElse, vars
  <1> QED
    BY <1>1, <1>2, <1>3, <1>4, <1>5, <1>6 DEF Next, Request, Handler

LEMMA AddAcquires ==
    ASSUME StatusType, NEW x \in Reqs, NEW d \in Names, NEW withTls \in BOOLEAN, AddDomain(x, d, withTls)
    PROVE  /\ table' = table \cup {d} /\ \A e \in table \ {d} : status'[e] = status[e]
           /\ tls \ {d} \subseteq tls'
           /\ status'[d] = "acquiring" => withTls /\ d \in tls'
  BY DEF AddDomain, StatusType

LEMMA TlsPreserved ==
    ASSUME StatusType, TableType, AcquiringTls, [Next]_vars
    PROVE  AcquiringTls'
  <1>1. CASE \E x \in Reqs, d \in Names, withTls \in BOOLEAN : AddDomain(x, d, withTls)
    BY <1>1, AddAcquires DEF AcquiringTls
  <1>2. CASE NoNewAcquiring
    BY <1>2 DEF AcquiringTls, NoNewAcquiring
  <1> QED
    BY <1>1, <1>2, OnlyAddAcquires

\* A request keeps the name it added until it has settled the row.
LEMMA HandlerAcquires ==
    ASSUME ActType, StatusType, TableType, Roles, NEW x \in Actors, Handler(x),
           act[x].kind = "addtls",
           "dns" \notin broken'
    PROVE  \/ act'[x].kind = "addtls" /\ act'[x].d = act[x].d /\ act'[x].pc # "idle"
           \/ act[x].d \in table => status'[act[x].d] # "acquiring"
  <1> USE DEF ActType, Slot
  <1>0. x \in Reqs /\ act[x].pc \notin Promoting /\ act[x].pc # "delete"
    BY DEF Roles, Actors
  <1>1. ASSUME NEW pc, pc # "idle", Goto(x, pc)
        PROVE  act'[x].kind = "addtls" /\ act'[x].d = act[x].d /\ act'[x].pc # "idle"
    BY <1>1 DEF Goto
  <1>2. ASSUME NEW s \in {"active", "error"}, SetStatus(act[x].d, s)
        PROVE  act[x].d \in table => status'[act[x].d] # "acquiring"
    BY <1>2 DEF SetStatus, StatusType, TableType
  <1>3. ASSUME Failed(x) PROVE SetStatus(act[x].d, "error")
    BY <1>0, <1>3 DEF Failed, Actors
  <1>4. CASE MdnsStop(x) \/ ApplyZones(x) \/ WriteCaddyfile(x) \/ ApplyCaddyfile(x) \/ Order(x) \/ Issued(x)
    BY <1>1, <1>4 DEF MdnsStop, ApplyZones, WriteCaddyfile, ApplyCaddyfile, Order, Issued
  <1>5. CASE RestartDns(x)
    BY <1>1, <1>5 DEF RestartDns
  <1>6. CASE OrderFails(x) \/ Mark(x)
    BY <1>2, <1>3, <1>6 DEF OrderFails, Mark
  <1>7. CASE EnsureCert(x) \/ Refused(x)
    <2>1. CASE \E n : act' = [act EXCEPT ![x].pc = "issue", ![x].n = n]
      BY <2>1
    <2>2. \/ Failed(x) \/ Goto(x, "mark")
          \/ \E n : act' = [act EXCEPT ![x].pc = "issue", ![x].n = n]
      BY <1>7 DEF EnsureCert, Refused
    <2> QED
      BY <1>1, <1>2, <1>3, <2>1, <2>2
  <1> QED
    BY <1>0, <1>4, <1>5, <1>6, <1>7 DEF Handler, DeleteRow, PromoteBegin, PromoteThread, PromoteTrigger, Promoting

\* Nobody but the end of the process stops the renewal loop.
LEMMA RenewalGoesOn ==
    ASSUME RenewalType, [Next]_vars, Up, Up'
    PROVE  renewal'.on = renewal.on /\ dnsOn' = dnsOn /\ broken \subseteq broken'
  <1> USE DEF RenewalType, Up, life, lockElse, requestElse, zoneElse, acquireElse
  <1>1. ASSUME NEW x \in Reqs, Request(x) PROVE UNCHANGED <<renewal, dnsOn>> /\ broken \subseteq broken'
    <2>1. ASSUME NEW d \in Names, NEW withTls \in BOOLEAN, AddDomain(x, d, withTls)
          PROVE  UNCHANGED <<renewal, dnsOn>> /\ broken \subseteq broken'
      <3>1. UNCHANGED <<renewal, dnsOn>>
        BY <2>1 DEF AddDomain
      <3>2. broken \subseteq broken'
        BY <2>1 DEF AddDomain, MdnsUpdate
      <3> QED
        BY <3>1, <3>2
    <2>2. ASSUME NEW d \in Names, RemoveDomain(x, d) \/ MakePrimary(x, d)
          PROVE  UNCHANGED <<renewal, dnsOn, broken>>
      BY <2>2 DEF RemoveDomain, MakePrimary
    <2> QED
      BY <1>1, <2>1, <2>2 DEF Request
  <1>2. ASSUME NEW x \in Actors, DeleteRow(x) \/ MdnsStop(x) \/ ApplyZones(x) \/ RestartDns(x)
                 \/ WriteCaddyfile(x) \/ ApplyCaddyfile(x)
        PROVE  UNCHANGED <<renewal, dnsOn>> /\ broken \subseteq broken'
    BY <1>2 DEF DeleteRow, MdnsStop, ApplyZones, RestartDns, WriteCaddyfile, ApplyCaddyfile, MdnsUpdate
  <1>3. ASSUME NEW x \in Actors, EnsureCert(x) \/ Order(x) \/ OrderFails(x) \/ Issued(x) \/ Refused(x)
                 \/ PromoteBegin(x) \/ PromoteThread(x) \/ PromoteTrigger(x)
        PROVE  UNCHANGED <<renewal, dnsOn, broken>>
    BY <1>3 DEF EnsureCert, Order, OrderFails, Issued, Refused, PromoteBegin, PromoteThread, PromoteTrigger
  <1>4. ASSUME NEW x \in Actors, Mark(x) PROVE renewal'.on = renewal.on /\ UNCHANGED <<dnsOn, broken>>
    BY <1>4 DEF Mark
  <1>5. CASE Renew
    BY <1>5 DEF Renew, RenewCycle, NextAlias
  <1>6. CASE ArchiveOperation \/ Signal \/ (\E d \in Names : Age(d)) \/ UNCHANGED vars
    BY <1>6 DEF ArchiveOperation, Signal, Age, vars
  <1>7. CASE Drain \/ Exit \/ Crash \/ Boot
    BY <1>7 DEF Drain, Exit, Crash, Fresh, Boot, BootNames, BootCert, BootFails, BootCaddy
  <1> QED
    BY <1>1, <1>2, <1>3, <1>4, <1>5, <1>6, <1>7 DEF Next, Handler

LEMMA UpOnlyByBoot ==
    ASSUME [Next]_vars, ~Up, Up'
    PROVE  BootCaddy
  <1> USE DEF Up, life, lockElse, requestElse, zoneElse, acquireElse
  <1>1. ASSUME NEW x \in Reqs, Request(x) PROVE UNCHANGED proc
    BY <1>1 DEF Request, AddDomain, RemoveDomain, MakePrimary
  <1>2. ASSUME NEW x \in Actors, Handler(x) PROVE UNCHANGED proc
    BY <1>2 DEF Handler, DeleteRow, MdnsStop, ApplyZones, RestartDns, WriteCaddyfile, ApplyCaddyfile,
         EnsureCert, Order, OrderFails, Issued, Refused, Mark, PromoteBegin, PromoteThread, PromoteTrigger
  <1>3. CASE Renew \/ ArchiveOperation \/ Signal \/ (\E d \in Names : Age(d)) \/ UNCHANGED vars
    BY <1>3 DEF Renew, RenewCycle, NextAlias, ArchiveOperation, Signal, Age, vars
  <1>4. CASE Drain \/ Exit \/ Crash \/ Boot
    BY <1>4 DEF Drain, Exit, Crash, Fresh, Boot, BootNames, BootCert, BootFails
  <1> QED
    BY <1>1, <1>2, <1>3, <1>4 DEF Next

LEMMA OwnedPreserved ==
    ASSUME IInv, AcquiringTls, AcquiringOwned, [Next]_vars
    PROVE  AcquiringOwned'
  <1>0. ActType /\ TableType /\ StatusType /\ RenewalType /\ Roles
    BY TypeParts DEF IInv
  <1> SUFFICES ASSUME Up', dnsOn', "dns" \notin broken', NEW d \in table', status'[d] = "acquiring",
                      ~renewal'.on
               PROVE  \E x \in Reqs : act'[x].kind = "addtls" /\ act'[x].d = d /\ act'[x].pc # "idle"
    BY DEF AcquiringOwned, Acquires
  \* A booted router that has a TLS name renews: the boot leaves nothing to a request.
  <1>1. Up
    <2>1. CASE BootCaddy
      <3>1. d \in table /\ d \in tls /\ dnsOn
        BY <1>0, <2>1 DEF BootCaddy, bootElse, AcquiringTls
      <3>2. renewal'.on
        BY <2>1, <3>1 DEF BootCaddy
      <3> QED
        BY <3>2
    <2>2. CASE ~BootCaddy
      BY <2>2, UpOnlyByBoot
    <2> QED
      BY <2>1, <2>2
  <1>2. dnsOn /\ "dns" \notin broken /\ ~renewal.on
    BY <1>0, <1>1, RenewalGoesOn
  <1>3. CASE \E x \in Reqs, e \in Names, withTls \in BOOLEAN : AddDomain(x, e, withTls)
    <2>1. PICK x \in Reqs, e \in Names, withTls \in BOOLEAN : AddDomain(x, e, withTls)
      BY <1>3
    <2>2. /\ act[x].pc = "idle" /\ act'[x].d = e
          /\ act'[x].kind = IF withTls THEN "addtls" ELSE "addplain"
          /\ act'[x].pc # "idle"
          /\ \A y \in Actors \ {x} : act'[y] = act[y]
      BY <1>0, <2>1, AddBegins DEF Begins
    <2>3. CASE d = e
      BY <1>0, <2>1, <2>2, <2>3, AddAcquires
    <2>4. CASE d # e
      <3>1. d \in table /\ status[d] = "acquiring"
        BY <1>0, <2>1, <2>4, AddAcquires
      <3>2. PICK y \in Reqs : Acquires(y, d)
        BY <1>1, <1>2, <3>1 DEF AcquiringOwned
      <3> QED
        BY <2>2, <3>2 DEF Actors, Acquires
    <2> QED
      BY <2>3, <2>4
  <1>4. CASE NoNewAcquiring
    <2>1. d \in table /\ status[d] = "acquiring"
      BY <1>4 DEF NoNewAcquiring
    <2>2. PICK y \in Reqs : Acquires(y, d)
      BY <1>1, <1>2, <2>1 DEF AcquiringOwned
    <2>3. ASSUME act'[y] = act[y] PROVE act'[y].kind = "addtls" /\ act'[y].d = d /\ act'[y].pc # "idle"
      BY <2>2, <2>3 DEF Acquires
    <2>4. ASSUME NEW x \in Reqs, Request(x) PROVE act'[y] = act[y]
      BY <1>0, <2>2, <2>4, RequestMoves DEF Moves, Actors, Acquires
    <2>5. ASSUME NEW x \in Actors, Handler(x), x # y PROVE act'[y] = act[y]
      BY <1>0, <2>5, HandlerMoves DEF Moves, Actors
    <2>6. ASSUME Handler(y) PROVE act'[y].kind = "addtls" /\ act'[y].d = d /\ act'[y].pc # "idle"
      BY <1>0, <2>1, <2>2, <2>6, HandlerAcquires DEF Acquires, Actors
    <2>7. ASSUME Renew PROVE act'[y] = act[y]
      BY <1>0, <2>7, RenewSteps DEF Actors
    <2>8. CASE ArchiveOperation \/ Signal \/ (\E e \in Names : Age(e)) \/ UNCHANGED vars
      BY <2>3, <2>8 DEF ArchiveOperation, Signal, Age, vars
    <2>9. CASE Drain \/ Exit \/ Crash \/ Boot
      BY <1>1, <2>9 DEF Drain, Exit, Crash, Fresh, Boot, BootNames, BootCert, BootFails, BootCaddy, Up
    <2> QED
      BY <2>3, <2>4, <2>5, <2>6, <2>7, <2>8, <2>9 DEF Next
  <1> QED
    BY <1>0, <1>3, <1>4, OnlyAddAcquires

\* "Re-drives a domain left mid-acquisition by a restart": the safety half of
\* AcquiringEnds. Whatever requests, the thread of a promotion, crashes and restarts do
\* in between, a name in acquiring has the request that added it or the renewal loop.
THEOREM AcquiringHasOwner == Spec => []AcquiringOwned
  <1>1. Init => AcquiringTls /\ AcquiringOwned
    BY DEF Init, AcquiringTls, AcquiringOwned, Up
  <1>2. IInv /\ AcquiringTls /\ [Next]_vars => AcquiringTls'
    BY TlsPreserved, TypeParts DEF IInv
  <1>3. IInv /\ AcquiringTls /\ AcquiringOwned /\ [Next]_vars => AcquiringOwned'
    BY OwnedPreserved
  <1> QED
    BY <1>1, <1>2, <1>3, Inductive, PTL DEF Spec

\* The safety half of PrimaryTakesEffect: a router that runs under another name than
\* the table's primary has been told to restart, or is about to be by the promotion.
THEOREM PromotionRestarts ==
    Spec => [](Up /\ primary # zone => pending \/ \E x \in Reqs : act[x].pc = "trigger")
  <1>1. IInv => (Up /\ primary # zone => pending \/ \E x \in Reqs : act[x].pc = "trigger")
    BY DEF IInv, Promotable, Up
  <1> QED
    BY <1>1, Inductive, PTL
=============================================================================
