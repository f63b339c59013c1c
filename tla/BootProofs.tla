----------------------------- MODULE BootProofs -----------------------------
(***************************************************************************)
(* Proofs about Boot, for any number of processes, requests, usernames and *)
(* default apps, and whatever disks and releases there are.  The invariant *)
(* is one conjunct per part of a start; each part is preserved by itself   *)
(* but for the schema's, which all the others lean on for who is past it.  *)
(***************************************************************************)
EXTENDS Boot, FiniteSetTheorems, TLAPS

USE DisksAssumption, VersionAssumption, BoundsAssumption, NoneAssumption, ConnsAssumption

-----------------------------------------------------------------------------
(* Processes and the schema *)

Locked == {"read", "up", "bump", "commit"}
InTransaction == {"bump", "commit"}
Served == (Places \ Unstarted) \cup {"ready"}

SchemaTypes ==
    /\ disk \in Disks
    /\ db \in [shape : 0..MaxVersion, stamp : 0..MaxVersion]
    /\ staged \in [by : Procs \cup {None}, shape : 0..MaxVersion, stamp : 0..MaxVersion]
    /\ flock \in Procs \cup {None}
    /\ pc \in [Procs -> Places]
    /\ code \in [Procs -> 1..MaxVersion]

\* One process is past the migrations; the lock is held by the one that is in
\* the middle of them, and the open transaction is the holder's.
OnePast == \A p, r \in Procs : pc[p] \notin Unstarted /\ pc[r] \notin Unstarted => p = r
LockHeld ==
    /\ \A p \in Procs : pc[p] \in Locked <=> flock = p
    /\ \A p \in Procs : staged.by = p <=> pc[p] \in InTransaction

\* Processes that are alive together run the same release.
SameCode ==
    \A p, r \in Procs : pc[p] # "off" /\ pc[r] # "off" => code[p] = code[r]

\* Who is migrating has found a database it may migrate; what the transaction
\* holds is the next version, with the tables ahead of the record until Bump.
Migrating ==
    \A p \in Procs :
        /\ pc[p] \in {"up", "bump", "commit"} =>
             /\ ~Refuses(p)
             /\ db.shape = 0 \/ db.stamp < code[p]
        /\ pc[p] \in InTransaction => staged.shape = Target(p)
        /\ pc[p] = "commit" => staged.stamp = staged.shape

\* Who is done with the schema runs on its own version of it.
Done ==
    /\ db.shape = db.stamp \/ db = [shape |-> disk.shape, stamp |-> disk.stamp]
    /\ \A p \in Procs : pc[p] \in Served => db.shape > 0 /\ db.stamp = code[p]

SchemaInv == SchemaTypes /\ OnePast /\ LockHeld /\ SameCode /\ Migrating /\ Done

-----------------------------------------------------------------------------
(* The claim *)

PostPlaces == {"new", "form", "insert", "drop", "unlink", "load", "deploy", "write",
               "answered", "done"}
Claimed == {"drop", "unlink", "load", "deploy", "write"}
Given == (disk.file /\ disk.token) \/ disk.legacy

ClaimTypes ==
    /\ domains \in BOOLEAN /\ tok \in BOOLEAN /\ legacy \in BOOLEAN /\ stuck \in BOOLEAN
    /\ users \subseteq Names
    /\ post \in [Posts -> PostPlaces]

\* One request is past its form, and only while the setup app is up.
OneHolds ==
    /\ \A q, r \in Posts : q \in Holding /\ r \in Holding => q = r
    /\ \A q \in Posts : q \in Holding => SetupUp
    /\ \A q \in Posts : post[q] \in Claimed => users # {}

\* While the setup app is up, the owner is made and the token lives, somebody is
\* about to delete it; so who is about to claim finds no owner.
TokenGuards ==
    disk.required /\ ~stuck =>
        /\ SetupUp /\ users # {} /\ tok => \E q \in Posts : post[q] = "drop"
        /\ \A q \in Posts : post[q] = "insert" => users = {}
        /\ \A u, v \in users : u = v

\* Until the claim nothing that was given is taken away.
TokenKept ==
    users = {} =>
        /\ legacy = disk.legacy
        /\ Given => \A p \in Procs : pc[p] \in {"choose", "setup"} => tok

ClaimInv == ClaimTypes /\ OneHolds /\ TokenGuards /\ TokenKept

-----------------------------------------------------------------------------
(* The credential *)

CredTypes ==
    /\ ident \in [Parts -> {"none", "seed"} \cup Conns]
    /\ latest \in {"none", "seed"} \cup Conns
    /\ conn \in [Conns -> 0..4]
    /\ torn \in BOOLEAN

Seeding == disk.file /\ disk.identity

\* A callback is at work only under the full app; past the seed every
\* part of a credential is there or there was none to seed; a part once written
\* is never empty again.
Seeded ==
    /\ \A c \in Conns : conn[c] \in 1..3 => MainUp
    /\ \A p \in Procs : pc[p] = "identity" => disk.file
    /\ \A p \in Procs : pc[p] \notin Unstarted \cup {"domains", "identity"} => Stored \/ ~Seeding
    /\ \A c \in Conns : conn[c] \in 1..3 => \A i \in Parts : i < conn[c] => ident[i] # "none"
    /\ latest # "none" => Stored

\* A credential nobody is writing and nobody tore is the latest, or the seed that
\* a death cut short.
Whole ==
    ~torn /\ Writing = {} =>
        \/ \A i \in Parts : ident[i] = latest
        \/ /\ latest = "none" /\ Seeding
           /\ ident[1] \in {"none", "seed"} /\ ident[2] \in {"none", "seed"} /\ ident[3] = "none"

CredInv == CredTypes /\ Seeded /\ Whole

-----------------------------------------------------------------------------
(* The archive *)

ArchTypes ==
    arch \in [s3 : BOOLEAN, adopt : BOOLEAN, vol : {"zone", "fresh"},
              meta : {"none", "local", "old", "new"},
              bucket : [{"zone", "fresh"} -> {"empty", "data", "dump"}]]

\* Who seeds the archive or makes its volume has found none; only what has no
\* backup is formatted, and only what was handed over by name is cleared.
Attaching ==
    /\ \A p \in Procs : pc[p] \in {"row", "restore", "format", "formatted"} => arch.meta = "none"
    /\ \A p \in Procs : pc[p] \in {"format", "formatted"} => arch.s3 /\ arch.bucket[arch.vol] # "dump"
    /\ \A p \in Procs : pc[p] = "restore" => arch.s3
    /\ arch.adopt => disk.named
    /\ arch.meta = "local" => ~arch.s3

Survives ==
    /\ disk.bucket = "dump" =>
         /\ arch.bucket["zone"] = "dump" /\ arch.vol = "zone"
         /\ arch.s3 => arch.meta \in {"none", "old"}
    /\ disk.bucket = "data" /\ ~disk.named => arch.bucket["zone"] = "data"

ArchInv == ArchTypes /\ Attaching /\ Survives

-----------------------------------------------------------------------------
(* The default apps *)

Record == [status : {"none", "ok", "skipped", "failed"}, attempts : 0..MAX_RETRY_ATTEMPTS]
Installed(list) == \A s \in Specs : list[s].status \in {"ok", "skipped"} => s \in apps \cup removed

AppsInv ==
    /\ sentinel \in [Specs -> Record] /\ work \in [Specs -> Record]
    /\ apps \subseteq Specs /\ removed \subseteq Specs
    /\ Installed(sentinel) /\ Installed(work)

CountsInv ==
    /\ nstart \in 0..MaxStarts /\ ncrash \in 0..MaxCrash /\ nfault \in 0..MaxFaults
    /\ blame \in [Specs -> Nat] /\ \A s \in Specs : blame[s] <= nfault

-----------------------------------------------------------------------------
(* The schema *)

\* What the steps after the migrations do to the schema: nothing, and a process
\* goes on past them, ends, or stays where it is.
Onward(p, y) ==
    /\ UNCHANGED <<disk, db, staged, flock, code>>
    /\ pc[p] \notin Unstarted /\ y \in Places \ Unstarted
    /\ pc' = [pc EXCEPT ![p] = y]

Stays == UNCHANGED <<disk, db, staged, flock, code, pc>>

Ends(p) ==
    /\ UNCHANGED <<disk, db>>
    /\ pc[p] # "off"
    /\ pc' = [pc EXCEPT ![p] = "off"] /\ code' = [code EXCEPT ![p] = 1]
    /\ flock' = (IF flock = p THEN None ELSE flock)
    /\ staged' = (IF staged.by = p THEN Closed ELSE staged)

LEMMA LaterSteps ==
    ASSUME SchemaInv, Next
    PROVE  \/ \E p \in Procs : \/ Start(p) \/ TakeLock(p) \/ ReadVersion(p) \/ Up(p) \/ Bump(p)
                               \/ Commit(p) \/ RollBack(p) \/ Proceed(p) \/ Ends(p)
                               \/ \E y \in Places : Onward(p, y)
           \/ Stays
  <1> USE DEF Onward, Stays, schemaElse, bootElse, schema, At, Go, Places, Bootstrap, Full, Unstarted
  <1>1. ASSUME NEW p \in Procs, SeedDomains(p) \/ SeedIdentity(p) \/ SeedAdoption(p)
                    \/ SeedArchive(p) \/ SeedToken(p)
        PROVE  (\E y \in Places : Onward(p, y)) \/ Stays
    BY <1>1 DEF SeedDomains, SeedIdentity, SeedAdoption, SeedArchive, SeedToken
  <1>2. ASSUME NEW p \in Procs, Choose(p)
        PROVE  (\E y \in Places : Onward(p, y)) \/ Ends(p)
    BY <1>2 DEF Choose, Ends, End, SchemaInv, LockHeld, Locked, InTransaction, SchemaTypes
  <1>3. ASSUME NEW p \in Procs, SetupEnds(p) \/ Attach(p) \/ Restore(p) \/ Format(p) \/ Formatted(p)
                    \/ LoadSentinel(p) \/ Retry(p) \/ Reseed(p)
        PROVE  (\E y \in Places : Onward(p, y)) \/ Stays
    BY <1>3 DEF SetupEnds, Attach, Restore, Format, Formatted, LoadSentinel, Retry, Reseed, fullElse
  <1>4. ASSUME NEW p \in Procs, Crash(p) \/ Stop(p)
        PROVE  Ends(p)
    BY <1>4 DEF Crash, Stop, Drop, End, Ends
  <1>5. ASSUME NEW q \in Posts, PostSetup(q) \/ FormRead(q) \/ Handler(q)
        PROVE  Stays
    BY <1>5 DEF PostSetup, FormRead, Handler, Claim, DropToken, Unlink, LoadInSetup, DeployInSetup,
                WriteInSetup, postElse
  <1>6. ASSUME NEW s \in Specs, RemoveApp(s)
        PROVE  Stays
    BY <1>6 DEF RemoveApp, ownElse
  <1>7. ASSUME NEW c \in Conns, Exchange(c) \/ StorePart(c)
        PROVE  Stays
    BY <1>7 DEF Exchange, StorePart, ownElse
  <1> QED
    BY <1>1, <1>2, <1>3, <1>4, <1>5, <1>6, <1>7 DEF Next, Router

LEMMA SchemaInit == Init => SchemaInv
  <1> SUFFICES ASSUME Init PROVE SchemaInv
    OBVIOUS
  <1>1. disk \in Disk
    BY DEF Init
  <1>2. SchemaTypes
    BY <1>1 DEF Init, SchemaTypes, Disk, Closed, Places, Unstarted
  <1> QED
    BY <1>2 DEF Init, SchemaInv, OnePast, LockHeld, SameCode, Migrating, Done, Locked, InTransaction,
                Served, Places, Bootstrap, Full, Unstarted, Closed

LEMMA SchemaPreserved == SchemaInv /\ [Next]_vars => SchemaInv'
  <1> SUFFICES ASSUME SchemaInv, [Next]_vars PROVE SchemaInv'
    OBVIOUS
  <1> USE DEF SchemaInv, SchemaTypes, OnePast, LockHeld, SameCode, Migrating, Done, Locked,
              InTransaction, Served, Places, Bootstrap, Full, Unstarted, Closed, Refuses, Target
  <1>1. ASSUME NEW p \in Procs, Start(p) PROVE SchemaInv'
    BY <1>1 DEF Start, At, Go, Alive
  <1>2. ASSUME NEW p \in Procs, TakeLock(p) PROVE SchemaInv'
    BY <1>2 DEF TakeLock, At, Go
  <1>3. ASSUME NEW p \in Procs, ReadVersion(p) PROVE SchemaInv'
    BY <1>3 DEF ReadVersion, At, Go, End
  <1>4. ASSUME NEW p \in Procs, Up(p) PROVE SchemaInv'
    BY <1>4 DEF Up, At, Go
  <1>5. ASSUME NEW p \in Procs, Bump(p) PROVE SchemaInv'
    BY <1>5 DEF Bump, At, Go
  <1>6. ASSUME NEW p \in Procs, Commit(p) PROVE SchemaInv'
    BY <1>6 DEF Commit, At, Go
  <1>7. ASSUME NEW p \in Procs, RollBack(p) PROVE SchemaInv'
    BY <1>7 DEF RollBack, Go, End
  <1>8. ASSUME NEW p \in Procs, Proceed(p) PROVE SchemaInv'
    BY <1>8 DEF Proceed, At, Go, End, Past, bootElse
  <1>9. ASSUME NEW p \in Procs, Ends(p) PROVE SchemaInv'
    BY <1>9 DEF Ends
  <1>10. ASSUME NEW p \in Procs, NEW y \in Places, Onward(p, y) PROVE SchemaInv'
    BY <1>10 DEF Onward
  <1>11. CASE Stays \/ UNCHANGED vars
    BY <1>11 DEF Stays, vars, schema
  <1> QED
    BY <1>1, <1>2, <1>3, <1>4, <1>5, <1>6, <1>7, <1>8, <1>9, <1>10, <1>11, LaterSteps

LEMMA SchemaInductive == Spec => []SchemaInv
  BY SchemaInit, SchemaPreserved, PTL DEF Spec

-----------------------------------------------------------------------------
(* The claim *)

LEMMA ClaimInit == Init => ClaimInv
  <1> SUFFICES ASSUME Init PROVE ClaimInv
    OBVIOUS
  <1>1. disk \in Disk
    BY DEF Init
  <1>2. ClaimTypes
    <2>1. disk.owned \in BOOLEAN /\ disk.legacy \in BOOLEAN
      BY <1>1 DEF Disk
    <2>2. users \subseteq Names
      BY DEF Init
    <2>3. post \in [Posts -> PostPlaces]
      BY DEF Init, PostPlaces
    <2> QED
      BY <2>1, <2>2, <2>3 DEF Init, ClaimTypes
  <1>3. \A u, v \in users : u = v
    BY DEF Init
  <1> QED
    BY <1>2, <1>3 DEF Init, ClaimInv, OneHolds, TokenGuards, TokenKept, Holding, SetupUp, Claimed

\* What most steps do to the claim: one process moves on, to no place where the
\* claim has anything to say, or leaves; nothing that was given is written.
Aside(p) ==
    /\ UNCHANGED <<disk, tok, legacy, users, stuck, post>>
    /\ domains' \in BOOLEAN
    /\ \E y \in Places \ {"choose", "setup"} : pc' = [pc EXCEPT ![p] = y]
    /\ pc[p] # "setup"

LEMMA ClaimPreserved == SchemaInv /\ ClaimInv /\ [Next]_vars => ClaimInv'
  <1> SUFFICES ASSUME SchemaInv, ClaimInv, [Next]_vars PROVE ClaimInv'
    OBVIOUS
  <1>0. /\ pc \in [Procs -> Places] /\ OnePast
        /\ disk \in Disk
    BY DEF SchemaInv, SchemaTypes
  <1> USE DEF schemaElse, bootElse, At, Go, GoPost
  <1>1. ASSUME NEW p \in Procs, Start(p) \/ TakeLock(p) \/ ReadVersion(p) \/ Up(p) \/ Bump(p)
                 \/ Commit(p) \/ RollBack(p) \/ Proceed(p) \/ SeedDomains(p) \/ SeedIdentity(p)
                 \/ SeedAdoption(p) \/ SeedArchive(p)
        PROVE  Aside(p) \/ UNCHANGED <<disk, pc, seeds, stuck, post>>
    BY <1>0, <1>1 DEF Aside, Start, TakeLock, ReadVersion, Up, Bump, Commit, RollBack, Proceed, End,
         SeedDomains, SeedIdentity, SeedAdoption, SeedArchive, seeds, ClaimInv, ClaimTypes,
         Places, Unstarted, Bootstrap, Full, Disk
  <1>2. ASSUME NEW p \in Procs, Attach(p) \/ Restore(p) \/ Format(p) \/ Formatted(p)
                 \/ LoadSentinel(p) \/ Retry(p)
        PROVE  Aside(p) \/ UNCHANGED <<disk, pc, seeds, stuck, post>>
    BY <1>0, <1>2 DEF Aside, Attach, Restore, Format, Formatted, LoadSentinel, Retry, fullElse,
         seeds, ClaimInv, ClaimTypes, Places, Unstarted, Bootstrap, Full
  <1>3. ASSUME NEW p \in Procs, Aside(p) PROVE ClaimInv'
    BY <1>0, <1>3 DEF Aside, ClaimInv, ClaimTypes, OneHolds, TokenGuards, TokenKept, Holding, SetupUp,
         Claimed, Given
  <1>4. ASSUME NEW p \in Procs, SeedToken(p) \/ Reseed(p) PROVE ClaimInv'
    <2>1. tok' \in BOOLEAN /\ domains' \in BOOLEAN
      BY <1>0, <1>4 DEF SeedToken, Reseed, TokenSeeded, ClaimInv, ClaimTypes, Disk
    <2>2. (tok \/ users # {} => (tok' <=> tok)) /\ (users = {} /\ legacy = disk.legacy /\ Given => tok')
      BY <1>4 DEF SeedToken, Reseed, TokenSeeded, Given, ClaimInv, ClaimTypes
    <2>3. ~SetupUp /\ ~SetupUp'
      BY <1>0, <1>4 DEF SeedToken, Reseed, SetupUp, OnePast, Unstarted
    <2>4. /\ UNCHANGED <<disk, legacy, users, stuck, post>>
          /\ \A r \in Procs : pc'[r] \in {"choose", "setup"} => r = p \/ pc[r] = pc'[r]
      BY <1>0, <1>4 DEF SeedToken, Reseed, Places, Bootstrap
    <2> QED
      BY <1>0, <2>1, <2>2, <2>3, <2>4 DEF ClaimInv, ClaimTypes, OneHolds, TokenGuards, TokenKept, Holding, Claimed, Given
  <1>4a. ASSUME NEW p \in Procs, Choose(p) PROVE ClaimInv'
    BY <1>0, <1>4a DEF Choose, End, ClaimInv, ClaimTypes, OneHolds, OnePast, seeds,
         TokenGuards, TokenKept, Holding, SetupUp, Claimed, Given, Unstarted
  <1>5. ASSUME NEW p \in Procs, SetupEnds(p) PROVE ClaimInv'
    BY <1>0, <1>5 DEF SetupEnds, ClaimInv, ClaimTypes, OneHolds, OnePast, seeds,
         TokenGuards, TokenKept, Holding, SetupUp, Claimed, Given, Unstarted, PostPlaces
  <1>6. ASSUME NEW p \in Procs, Crash(p) \/ Stop(p) PROVE ClaimInv'
    BY <1>0, <1>6 DEF Crash, Stop, Drop, End, ClaimInv, ClaimTypes, OneHolds, OnePast, seeds,
         TokenGuards, TokenKept, Holding, SetupUp, Claimed, Given, Unstarted, PostPlaces
  <1>7. ASSUME NEW q \in Posts, PostSetup(q) \/ FormRead(q) PROVE ClaimInv'
    BY <1>0, <1>7 DEF PostSetup, FormRead, Verified, postElse, ClaimInv, ClaimTypes, OneHolds, seeds,
         TokenGuards, TokenKept, Holding, SetupUp, Claimed, Given, PostPlaces
  <1>8. ASSUME NEW q \in Posts, Claim(q) PROVE ClaimInv'
    BY <1>0, <1>8 DEF Claim, postElse, ClaimInv, ClaimTypes, OneHolds, seeds,
         TokenGuards, TokenKept, Holding, SetupUp, Claimed, Given, PostPlaces
  <1>9. ASSUME NEW q \in Posts, DropToken(q) PROVE ClaimInv'
    BY <1>0, <1>9 DEF DropToken, postElse, ClaimInv, ClaimTypes, OneHolds, seeds,
         TokenGuards, TokenKept, Holding, SetupUp, Claimed, Given, PostPlaces
  <1>9a. ASSUME NEW q \in Posts, Unlink(q) PROVE ClaimInv'
    <2>1. post[q] = "unlink" /\ post' = [post EXCEPT ![q] = "load"]
          /\ UNCHANGED <<disk, pc, domains, tok, users, stuck>> /\ legacy' \in {FALSE, legacy}
      BY <1>9a DEF Unlink, postElse
    <2>2. users # {}
      BY <2>1 DEF ClaimInv, OneHolds, Claimed
    <2> QED
      BY <2>1, <2>2 DEF ClaimInv, ClaimTypes, OneHolds, TokenGuards, TokenKept, Holding, SetupUp, Claimed,
         PostPlaces
  <1>10. ASSUME NEW q \in Posts, LoadInSetup(q) \/ DeployInSetup(q) \/ WriteInSetup(q)
         PROVE ClaimInv'
    <2>1. /\ UNCHANGED <<disk, pc, seeds, stuck>>
          /\ post[q] \in {"load", "deploy", "write"}
          /\ \/ UNCHANGED post
             \/ \E y \in {"deploy", "write", "answered"} : post' = [post EXCEPT ![q] = y]
      BY <1>10 DEF LoadInSetup, DeployInSetup, WriteInSetup, postElse
    <2> QED
      BY <2>1 DEF seeds, ClaimInv, ClaimTypes, OneHolds, TokenGuards, TokenKept, Holding, SetupUp, Claimed,
         Given, PostPlaces
  <1>11. CASE UNCHANGED <<disk, pc, seeds, stuck, post>>
    BY <1>11 DEF seeds, ClaimInv, ClaimTypes, OneHolds, TokenGuards, TokenKept, Holding, SetupUp, Claimed, Given
  <1>12. ASSUME NEW s \in Specs, RemoveApp(s) PROVE UNCHANGED <<disk, pc, seeds, stuck, post>>
    BY <1>12 DEF RemoveApp, ownElse, seeds
  <1>13. ASSUME NEW c \in Conns, Exchange(c) \/ StorePart(c)
         PROVE  UNCHANGED <<disk, pc, seeds, stuck, post>>
    BY <1>13 DEF Exchange, StorePart, ownElse, seeds
  <1>14. CASE UNCHANGED vars
    BY <1>11, <1>14 DEF vars, seeds
  <1> QED
    BY <1>1, <1>2, <1>3, <1>4, <1>4a, <1>5, <1>6, <1>7, <1>8, <1>9, <1>9a, <1>10, <1>11,
       <1>12, <1>13, <1>14
       DEF Next, Router, Handler

-----------------------------------------------------------------------------
(* The credential *)

LEMMA CredInit == Init => CredInv
  <1> SUFFICES ASSUME Init PROVE CredInv
    OBVIOUS
  <1>1. CredTypes
    <2>1. ident \in [Parts -> {"none", "seed"} \cup Conns]
      BY DEF Init
    <2>2. conn \in [Conns -> 0..4]
      BY DEF Init
    <2> QED
      BY <2>1, <2>2 DEF Init, CredTypes
  <1>2. Seeded
    BY DEF Init, Seeded, Unstarted
  <1>3. Whole
    BY DEF Init, Whole, Parts
  <1> QED
    BY <1>1, <1>2, <1>3 DEF CredInv

\* The part that is written next: the parts before it are the writer's already.
LEMMA NextPartIs ==
    ASSUME NEW who, \E i \in Parts : ident[i] # who
    PROVE  /\ NextPart(who) \in Parts
           /\ \A j \in 1..(NextPart(who) - 1) : ident[j] = who
  <1> DEFINE Is(i) == ident[i] # who /\ \A j \in 1..(i - 1) : ident[j] = who
  <1>1. \E i \in Parts : Is(i)
    <2>1. CASE ident[1] # who
      <3>1. Is(1)
        BY <2>1
      <3> QED
        BY <3>1 DEF Parts
    <2>2. CASE ident[1] = who /\ ident[2] # who
      <3>1. Is(2)
        BY <2>2
      <3> QED
        BY <3>1 DEF Parts
    <2>3. CASE ident[1] = who /\ ident[2] = who
      <3>1. ident[3] # who
        BY <2>3 DEF Parts
      <3>2. Is(3)
        BY <2>3, <3>1
      <3> QED
        BY <3>2 DEF Parts
    <2> QED
      BY <2>1, <2>2, <2>3
  <1>2. NextPart(who) = CHOOSE i \in Parts : Is(i)
    BY DEF NextPart
  <1> HIDE DEF Is
  <1>3. NextPart(who) \in Parts /\ Is(NextPart(who))
    BY <1>1, <1>2
  <1> QED
    BY <1>3 DEF Is

\* What most steps do to the credential: a process other than the one that is
\* seeding it or serving moves on, or leaves.
Passes(p) ==
    /\ UNCHANGED <<disk, ident, conn, latest, torn>>
    /\ pc[p] \notin {"domains", "identity", "main"}
    /\ \E y \in Places \ {"identity"} :
          /\ pc' = [pc EXCEPT ![p] = y]
          /\ pc[p] \in Unstarted => y \in Unstarted \cup {"domains"}

LEMMA SeedPreserves ==
    ASSUME SchemaInv, CredInv, NEW p \in Procs, SeedIdentity(p)
    PROVE  CredInv'
  <1>0. pc \in [Procs -> Places] /\ OnePast /\ disk.file
    BY DEF SchemaInv, SchemaTypes, CredInv, Seeded, SeedIdentity, At
  <1>1. CASE ~SeedsIdentity
    BY <1>0, <1>1 DEF SeedIdentity, SeedsIdentity, schemaElse, bootElse, At, Go, CredInv, CredTypes, Seeded, Whole,
       Stored, Seeding, MainUp, Writing, Unstarted
  <1>2. CASE SeedsIdentity
    <2> DEFINE i == NextPart("seed")
    <2>1. i \in Parts /\ \A j \in 1..(i - 1) : ident[j] = "seed"
      BY <1>2, NextPartIs DEF SeedsIdentity, Stored
    <2>2. /\ ident' = [ident EXCEPT ![i] = "seed"]
          /\ latest' = IF i = 3 /\ latest = "none" THEN "seed" ELSE latest
          /\ torn' = IF i = 3 THEN FALSE ELSE torn
          /\ UNCHANGED <<pc, conn, disk>>
      BY <1>2 DEF SeedIdentity, schemaElse, bootElse
    <2>3. latest = "none" /\ Seeding
      BY <1>0, <1>2 DEF SeedsIdentity, CredInv, Seeded, Seeding
    <2> HIDE DEF i
    <2>4. CredTypes'
      BY <2>1, <2>2 DEF CredInv, CredTypes
    <2>5. Stored => Stored'
      BY <2>1, <2>2 DEF Stored, CredInv, CredTypes
    <2>6. i = 3 => \A j \in Parts : ident'[j] = "seed"
      BY <2>1, <2>2 DEF Parts, CredInv, CredTypes
    <2>7. Seeded'
      BY <2>2, <2>3, <2>5, <2>6 DEF Seeded, CredInv, MainUp, Seeding, Stored
    <2>8. Whole'
      BY <1>2, <2>1, <2>2, <2>3, <2>6 DEF Whole, CredInv, CredTypes, Seeding, Parts, Writing, SeedsIdentity, Stored
    <2> QED
      BY <2>4, <2>7, <2>8 DEF CredInv
  <1> QED
    BY <1>1, <1>2

LEMMA StorePreserves ==
    ASSUME SchemaInv, CredInv, NEW c \in Conns, StorePart(c)
    PROVE  CredInv'
  <1> DEFINE i == conn[c]
  <1>1. /\ i \in Parts
        /\ ident' = [ident EXCEPT ![i] = c]
        /\ conn' = [conn EXCEPT ![c] = i + 1]
        /\ latest' = IF i = 3 THEN c ELSE latest
        /\ torn' = IF i = 3 /\ Writing = {c} THEN \E j \in 1..2 : ident[j] # c
                   ELSE torn \/ Writing \ {c} # {}
        /\ UNCHANGED <<pc, disk>>
    BY DEF StorePart, ownElse, schemaElse, bootElse, CredInv, CredTypes
  <1>2. CredTypes'
    <2>1. ident' \in [Parts -> {"none", "seed"} \cup Conns]
      BY <1>1 DEF CredInv, CredTypes
    <2>2. conn' \in [Conns -> 0..4]
      BY <1>1 DEF CredInv, CredTypes, Parts
    <2>3. torn' \in BOOLEAN
      BY <1>1 DEF CredInv, CredTypes
    <2> QED
      BY <1>1, <2>1, <2>2, <2>3 DEF CredInv, CredTypes
  <1>3. Stored => Stored'
    BY <1>1 DEF Stored, CredInv, CredTypes
  <1>4. c # "none" /\ MainUp /\ \A j \in Parts : j < i => ident[j] # "none"
    BY <1>1 DEF CredInv, Seeded, Parts
  <1>5. i = 3 => Stored'
    BY <1>1, <1>4 DEF Stored, Parts, CredInv, CredTypes
  <1>6. Seeded'
    <2>1. \A d \in Conns : conn'[d] \in 1..3 => MainUp'
      BY <1>1, <1>4 DEF MainUp
    <2>2. \A d \in Conns : conn'[d] \in 1..3 =>
            \A j \in Parts : j < conn'[d] => ident'[j] # "none"
      BY <1>1, <1>4 DEF CredInv, Seeded, CredTypes, Parts
    <2>3. \A r \in Procs : pc[r] = "identity" => disk.file
      BY DEF CredInv, Seeded
    <2>4. \A r \in Procs : pc[r] \notin Unstarted \cup {"domains", "identity"} => Stored \/ ~Seeding
      BY DEF CredInv, Seeded
    <2>5. latest' # "none" => Stored'
      BY <1>1, <1>3, <1>5 DEF CredInv, Seeded
    <2> QED
      BY <1>1, <1>3, <2>1, <2>2, <2>3, <2>4, <2>5 DEF Seeded, Seeding
  <1>7. Whole'
    <2>1. CASE i = 3 /\ Writing = {c}
      <3>1. ~torn' => \A j \in Parts : ident'[j] = c
        BY <1>1, <2>1 DEF Parts, CredInv, CredTypes
      <3> QED
        BY <1>1, <2>1, <3>1 DEF Whole
    <2>2. CASE i = 3 /\ Writing # {c}
      <3>1. c \in Writing
        BY <1>1, <2>2 DEF Writing
      <3>2. torn'
        BY <1>1, <2>2, <3>1
      <3> QED
        BY <3>2 DEF Whole
    <2>3. CASE i # 3
      <3>1. c \in Writing'
        BY <1>1, <2>3 DEF Writing, Parts, CredInv, CredTypes
      <3> QED
        BY <3>1 DEF Whole
    <2> QED
      BY <2>1, <2>2, <2>3
  <1> QED
    BY <1>2, <1>6, <1>7 DEF CredInv

LEMMA CredPreserved == SchemaInv /\ CredInv /\ [Next]_vars => CredInv'
  <1> SUFFICES ASSUME SchemaInv, CredInv, [Next]_vars PROVE CredInv'
    OBVIOUS
  <1>0. pc \in [Procs -> Places] /\ OnePast
    BY DEF SchemaInv, SchemaTypes
  <1> DEFINE Quiet == UNCHANGED <<disk, pc, creds>>
  <1> USE DEF schemaElse, bootElse, At, Go
  <1>1. ASSUME NEW p \in Procs, Start(p) \/ TakeLock(p) \/ ReadVersion(p) \/ Up(p) \/ Bump(p)
                 \/ Commit(p) \/ RollBack(p) \/ Proceed(p)
        PROVE  Passes(p)
    BY <1>0, <1>1 DEF Passes, Start, TakeLock, ReadVersion, Up, Bump, Commit, RollBack, Proceed, End,
         creds, Places, Unstarted, Bootstrap, Full
  <1>2. ASSUME NEW p \in Procs, SeedAdoption(p) \/ SeedArchive(p) \/ SeedToken(p) \/ Choose(p)
                 \/ SetupEnds(p)
        PROVE  Passes(p)
    BY <1>0, <1>2 DEF Passes, SeedAdoption, SeedArchive, SeedToken, Choose, End, SetupEnds,
         creds, Places, Unstarted, Bootstrap, Full
  <1>3. ASSUME NEW p \in Procs, Attach(p) \/ Restore(p) \/ Format(p) \/ Formatted(p)
                 \/ LoadSentinel(p) \/ Retry(p) \/ Reseed(p)
        PROVE  Passes(p) \/ Quiet
    BY <1>0, <1>3 DEF Passes, Attach, Restore, Format, Formatted, LoadSentinel, Retry, Reseed, fullElse,
         creds, Places, Unstarted, Bootstrap, Full
  <1>4. ASSUME NEW p \in Procs, Passes(p) PROVE CredInv'
    <2>1. MainUp => MainUp'
      BY <1>0, <1>4 DEF Passes, MainUp
    <2>2. CredTypes' /\ Whole'
      BY <1>4 DEF Passes, CredInv, CredTypes, Whole, Writing, Seeding
    <2>3. Seeded'
      BY <1>0, <1>4, <2>1 DEF Passes, CredInv, Seeded, Stored, Seeding, Places, Unstarted, Bootstrap, Full
    <2> QED
      BY <2>2, <2>3 DEF CredInv
  <1>5. ASSUME NEW p \in Procs, SeedDomains(p) PROVE CredInv'
    BY <1>0, <1>5 DEF SeedDomains, CredInv, CredTypes, Seeded, Whole, Stored, Seeding, MainUp, Writing, creds,
         Unstarted
  <1>6. ASSUME NEW p \in Procs, Crash(p) \/ Stop(p) PROVE CredInv'
    <2>1. Drop(p) /\ pc[p] # "off"
      BY <1>6 DEF Crash, Stop
    <2>2. CASE pc[p] \in Unstarted
      <3>1. Passes(p)
        BY <1>0, <2>1, <2>2 DEF Drop, Passes, End, Places, Unstarted
      <3> QED
        BY <1>4, <3>1
    <2>3. CASE pc[p] \notin Unstarted
      <3>1. /\ UNCHANGED <<disk, ident, latest>>
            /\ pc' = [pc EXCEPT ![p] = "off"]
            /\ conn' = [c \in Conns |-> IF conn[c] = 0 THEN 0 ELSE 4]
            /\ torn' = (torn \/ Writing # {})
        BY <2>1, <2>3 DEF Drop, End, Cut
      <3>2. CredTypes'
        BY <3>1 DEF CredInv, CredTypes
      <3>3. Seeded'
        BY <1>0, <3>1 DEF CredInv, Seeded, Stored, Seeding, Unstarted
      <3>4. Whole'
        BY <3>1 DEF CredInv, CredTypes, Whole, Writing, Seeding
      <3> QED
        BY <3>2, <3>3, <3>4 DEF CredInv
    <2> QED
      BY <2>2, <2>3
  <1>7. ASSUME NEW c \in Conns, Exchange(c) PROVE CredInv'
    <2>1. /\ UNCHANGED <<disk, pc, ident, latest, torn>> /\ MainUp /\ conn[c] = 0
          /\ \E y \in {1, 4} : conn' = [conn EXCEPT ![c] = y]
      BY <1>7 DEF Exchange, ownElse
    <2>2. CredTypes' /\ Writing' = Writing
      BY <2>1 DEF CredInv, CredTypes, Writing
    <2>3. Seeded'
      BY <2>1 DEF CredInv, CredTypes, Seeded, Stored, Seeding, MainUp, Parts
    <2> QED
      BY <2>1, <2>2, <2>3 DEF CredInv, Whole, Seeding
  <1>8. ASSUME NEW q \in Posts, PostSetup(q) \/ FormRead(q) \/ Handler(q) PROVE Quiet
    BY <1>8 DEF PostSetup, FormRead, Handler, Claim, DropToken, Unlink, LoadInSetup, DeployInSetup,
         WriteInSetup, postElse
  <1>9. ASSUME NEW s \in Specs, RemoveApp(s) PROVE Quiet
    BY <1>9 DEF RemoveApp, ownElse
  <1>10. CASE Quiet \/ UNCHANGED vars
    BY <1>10 DEF vars, creds, CredInv, CredTypes, Seeded, Whole, Stored, Seeding, MainUp, Writing
  <1> QED
    BY <1>1, <1>2, <1>3, <1>4, <1>5, <1>6, <1>7, <1>8, <1>9, <1>10, SeedPreserves, StorePreserves
       DEF Next, Router

-----------------------------------------------------------------------------
(* The archive *)

ArchPlaces == {"row", "restore", "format", "formatted"}

LEMMA ArchInit == Init => ArchInv
  <1> SUFFICES ASSUME Init PROVE ArchInv
    OBVIOUS
  <1>1. disk \in Disk
    BY DEF Init
  <1>2. /\ disk.meta \in {"none", "local"} /\ disk.bucket \in {"empty", "data", "dump"}
    BY <1>1 DEF Disk
  <1>3. arch = [s3 |-> FALSE, adopt |-> FALSE, vol |-> "zone", meta |-> disk.meta,
                bucket |-> [zone |-> disk.bucket, fresh |-> "empty"]]
    BY DEF Init
  <1>4. ArchTypes
    BY <1>2, <1>3 DEF ArchTypes
  <1>5. Attaching /\ Survives
    BY <1>2, <1>3 DEF Init, Attaching, Survives
  <1> QED
    BY <1>4, <1>5 DEF ArchInv

LEMMA ArchPreserved == SchemaInv /\ ArchInv /\ [Next]_vars => ArchInv'
  <1> SUFFICES ASSUME SchemaInv, ArchInv, [Next]_vars PROVE ArchInv'
    OBVIOUS
  <1>0. /\ pc \in [Procs -> Places] /\ OnePast /\ disk \in Disk
    BY DEF SchemaInv, SchemaTypes
  <1> DEFINE Quiet == UNCHANGED <<disk, pc, arch>>
  <1> DEFINE Elsewhere(p) == /\ UNCHANGED <<disk, arch>>
                           /\ \E y \in Places \ ArchPlaces : pc' = [pc EXCEPT ![p] = y]
  <1> USE DEF schemaElse, bootElse, At, Go
  <1>1. ASSUME NEW p \in Procs, Start(p) \/ TakeLock(p) \/ ReadVersion(p) \/ Up(p) \/ Bump(p)
                 \/ Commit(p) \/ RollBack(p) \/ Proceed(p)
        PROVE  Elsewhere(p)
    BY <1>0, <1>1 DEF ArchPlaces, Start, TakeLock, ReadVersion, Up, Bump, Commit, RollBack, Proceed, End,
         Places, Unstarted, Bootstrap
  <1>2. ASSUME NEW p \in Procs, SeedDomains(p) \/ SeedIdentity(p) \/ SeedToken(p) \/ Choose(p) \/ SetupEnds(p)
        PROVE  Elsewhere(p) \/ Quiet
    BY <1>0, <1>2 DEF ArchPlaces, SeedDomains, SeedIdentity, SeedToken, Choose, End, SetupEnds,
         Places, Unstarted, Bootstrap, Full
  <1>3. ASSUME NEW p \in Procs, LoadSentinel(p) \/ Retry(p) \/ Reseed(p)
        PROVE  Elsewhere(p) \/ Quiet
    BY <1>0, <1>3 DEF ArchPlaces, LoadSentinel, Retry, Reseed, fullElse, Places, Bootstrap, Full
  <1>4. ASSUME NEW p \in Procs, Crash(p) \/ Stop(p)
        PROVE  Elsewhere(p)
    BY <1>0, <1>4 DEF ArchPlaces, Crash, Stop, Drop, End, Places, Unstarted
  <1>5. ASSUME NEW p \in Procs, Elsewhere(p) PROVE ArchInv'
    BY <1>0, <1>5 DEF ArchPlaces, ArchInv, ArchTypes, Attaching, Survives
  <1>6. ASSUME NEW p \in Procs, SeedAdoption(p) PROVE ArchInv'
    <2>1. disk.named \in BOOLEAN
      BY <1>0 DEF Disk
    <2> QED
      BY <1>0, <1>6, <2>1 DEF SeedAdoption, ArchInv, ArchTypes, Attaching, Survives
  <1>7. ASSUME NEW p \in Procs, SeedArchive(p) PROVE ArchInv'
    <2>1. disk' = disk /\ pc[p] = "row" /\ pc' = [pc EXCEPT ![p] = "token"]
          /\ arch' = [arch EXCEPT !.s3 = TRUE, !.vol = "zone"]
      BY <1>7 DEF SeedArchive
    <2>2. \A r \in Procs : pc'[r] \notin ArchPlaces
      BY <1>0, <2>1 DEF OnePast, Unstarted, ArchPlaces
    <2>3. arch.meta = "none"
      BY <2>1 DEF ArchInv, Attaching
    <2> QED
      BY <2>1, <2>2, <2>3 DEF ArchPlaces, ArchInv, ArchTypes, Attaching, Survives
  <1>8. ASSUME NEW p \in Procs, Attach(p) PROVE ArchInv'
    <2>1. /\ disk' = disk
          /\ \E y \in {"load", "restore", "format"} : pc' = [pc EXCEPT ![p] = y]
          /\ \A r \in Procs : pc[r] \notin Unstarted => r = p
      BY <1>0, <1>8 DEF Attach, fullElse, OnePast, Unstarted
    <2>2. CASE arch' = arch
      BY <1>0, <1>8, <2>1, <2>2 DEF Attach, ArchInv, ArchTypes, Attaching, Survives, Unstarted
    <2>3. CASE arch.meta = "none" /\ ~arch.s3 /\ arch' = [arch EXCEPT !.meta = "local"] /\ Go(p, "load")
      BY <1>0, <2>1, <2>3 DEF ArchInv, ArchTypes, Attaching, Survives, Unstarted
    <2>4. CASE /\ arch.meta = "none" /\ arch.s3 /\ arch.bucket[arch.vol] = "data"
               /\ arch.adopt /\ arch' = [arch EXCEPT !.bucket[arch.vol] = "empty"]
               /\ Go(p, "format")
      BY <1>0, <2>1, <2>4 DEF ArchInv, ArchTypes, Attaching, Survives, Unstarted
    <2>5. CASE /\ arch.meta = "none" /\ arch.s3 /\ arch.bucket[arch.vol] = "data"
               /\ arch' = [arch EXCEPT !.vol = "fresh", !.bucket.fresh = "empty"]
               /\ Go(p, "format")
      BY <1>0, <2>1, <2>5 DEF ArchInv, ArchTypes, Attaching, Survives, Unstarted
    <2> QED
      BY <1>8, <2>2, <2>3, <2>4, <2>5 DEF Attach
  <1>9. ASSUME NEW p \in Procs, Restore(p) PROVE ArchInv'
    BY <1>0, <1>9 DEF Restore, fullElse, ArchInv, ArchTypes, Attaching, Survives, OnePast, Unstarted
  <1>10. ASSUME NEW p \in Procs, Format(p) PROVE ArchInv'
    <2>1. /\ disk' = disk /\ pc[p] = "format"
          /\ \E y \in {"load", "formatted"} : pc' = [pc EXCEPT ![p] = y]
          /\ arch' \in {arch, [arch EXCEPT !.bucket[arch.vol] = "data"]}
      BY <1>10 DEF Format, fullElse
    <2> QED
      BY <1>0, <2>1 DEF ArchInv, ArchTypes, Attaching, Survives, OnePast, Unstarted
  <1>11. ASSUME NEW p \in Procs, Formatted(p) PROVE ArchInv'
    BY <1>0, <1>11 DEF Formatted, fullElse, ArchInv, ArchTypes, Attaching, Survives, OnePast, Unstarted
  <1>12. ASSUME NEW q \in Posts, PostSetup(q) \/ FormRead(q) \/ Handler(q) PROVE Quiet
    BY <1>12 DEF PostSetup, FormRead, Handler, Claim, DropToken, Unlink, LoadInSetup, DeployInSetup,
         WriteInSetup, postElse
  <1>13. ASSUME NEW s \in Specs, RemoveApp(s) PROVE Quiet
    BY <1>13 DEF RemoveApp, ownElse
  <1>14. ASSUME NEW c \in Conns, Exchange(c) \/ StorePart(c) PROVE Quiet
    BY <1>14 DEF Exchange, StorePart, ownElse
  <1>15. CASE Quiet \/ UNCHANGED vars
    BY <1>15 DEF vars, ArchInv, ArchTypes, Attaching, Survives
  <1> QED
    BY <1>1, <1>2, <1>3, <1>4, <1>5, <1>6, <1>7, <1>8, <1>9, <1>10, <1>11, <1>12, <1>13, <1>14, <1>15
       DEF Next, Router

-----------------------------------------------------------------------------
(* The default apps *)

AppsElse == UNCHANGED <<sentinel, work, apps, removed>>

LEMMA AttemptPreserves ==
    ASSUME AppsInv, NEW s \in Untried, NEW named, Attempt(s, named), UNCHANGED <<sentinel, removed>>
    PROVE  AppsInv'
  <1>1. s \in Specs /\ work[s].attempts \in 0..2
    BY DEF Untried, Terminal, AppsInv, Record, MAX_RETRY_ATTEMPTS
  <1>2. /\ apps' \in {apps, apps \cup {s}}
        /\ \/ /\ work' = [work EXCEPT ![s] = [status |-> "skipped", attempts |-> 1]] /\ s \in apps
           \/ /\ work' = [work EXCEPT ![s] = [status |-> "ok", attempts |-> 1]] /\ s \in apps'
           \/ work' = [work EXCEPT ![s] = [status |-> "failed", attempts |-> work[s].attempts + 1]]
    BY <1>1 DEF Attempt, AppsInv
  <1>3. work' \in [Specs -> Record] /\ apps' \subseteq Specs
    <2>1. /\ [status |-> "skipped", attempts |-> 1] \in Record
          /\ [status |-> "ok", attempts |-> 1] \in Record
          /\ [status |-> "failed", attempts |-> work[s].attempts + 1] \in Record
      BY <1>1 DEF Record, MAX_RETRY_ATTEMPTS
    <2>2. work \in [Specs -> Record] /\ apps \subseteq Specs
      BY DEF AppsInv
    <2> QED
      BY <1>1, <1>2, <2>1, <2>2
  <1>4. Installed(work)' /\ Installed(sentinel)'
    BY <1>1, <1>2 DEF AppsInv, Installed
  <1> QED
    BY <1>3, <1>4 DEF AppsInv

LEMMA AppsPreserved == AppsInv /\ [Next]_vars => AppsInv'
  <1> SUFFICES ASSUME AppsInv, [Next]_vars PROVE AppsInv'
    OBVIOUS
  <1> USE DEF defaults, AppsElse
  <1>1. ASSUME NEW p \in Procs, Start(p) \/ TakeLock(p) \/ ReadVersion(p) \/ Up(p) \/ Bump(p)
                 \/ Commit(p) \/ RollBack(p) \/ Proceed(p) \/ SeedDomains(p) \/ SeedIdentity(p)
                 \/ SeedAdoption(p) \/ SeedArchive(p) \/ SeedToken(p) \/ Choose(p) \/ SetupEnds(p)
                 \/ Attach(p) \/ Restore(p) \/ Format(p) \/ Formatted(p) \/ Reseed(p)
        PROVE  AppsElse
    BY <1>1 DEF Start, TakeLock, ReadVersion, Up, Bump, Commit, RollBack, Proceed,
         SeedDomains, SeedIdentity, SeedAdoption, SeedArchive, SeedToken, Choose, SetupEnds,
         Attach, Restore, Format, Formatted, Reseed
  <1>2. ASSUME NEW p \in Procs, LoadSentinel(p) PROVE AppsInv'
    BY <1>2 DEF LoadSentinel, AppsInv, Installed
  <1>3. ASSUME NEW p \in Procs, Retry(p) PROVE AppsInv'
    <2>1. CASE WriteSentinel /\ UNCHANGED <<apps, removed>>
      BY <2>1 DEF WriteSentinel, AppsInv, Installed
    <2>2. CASE (\E s \in Untried : Attempt(s, FALSE)) /\ UNCHANGED <<sentinel, removed>>
      BY <2>2, AttemptPreserves
    <2> QED
      BY <1>3, <2>1, <2>2 DEF Retry
  <1>4. ASSUME NEW q \in Posts, PostSetup(q) \/ FormRead(q) \/ Claim(q) \/ DropToken(q) \/ Unlink(q)
        PROVE  AppsElse
    BY <1>4 DEF PostSetup, FormRead, Claim, DropToken, Unlink
  <1>5. ASSUME NEW q \in Posts, LoadInSetup(q) PROVE AppsInv'
    BY <1>5 DEF LoadInSetup, AppsInv, Installed
  <1>6. ASSUME NEW q \in Posts, DeployInSetup(q) PROVE AppsInv'
    <2>1. CASE AppsElse
      BY <2>1 DEF AppsInv, Installed
    <2>2. CASE (\E s \in Untried : Attempt(s, TRUE)) /\ UNCHANGED <<sentinel, removed>>
      BY <2>2, AttemptPreserves
    <2> QED
      BY <1>6, <2>1, <2>2 DEF DeployInSetup
  <1>7. ASSUME NEW q \in Posts, WriteInSetup(q) PROVE AppsInv'
    BY <1>7 DEF WriteInSetup, WriteSentinel, AppsInv, Installed
  <1>8. ASSUME NEW s \in Specs, RemoveApp(s) PROVE AppsInv'
    BY <1>8 DEF RemoveApp, AppsInv, Installed
  <1>9. ASSUME NEW c \in Conns, Exchange(c) \/ StorePart(c) PROVE AppsElse
    BY <1>9 DEF Exchange, StorePart
  <1>10. ASSUME NEW p \in Procs, Crash(p) \/ Stop(p) PROVE AppsInv'
    BY <1>10 DEF Crash, Stop, Drop, AppsInv, Installed
  <1>11. CASE AppsElse \/ UNCHANGED vars
    BY <1>11 DEF vars, AppsInv, Installed
  <1> QED
    BY <1>1, <1>2, <1>3, <1>4, <1>5, <1>6, <1>7, <1>8, <1>9, <1>10, <1>11 DEF Next, Router, Handler

LEMMA AppsInit == Init => AppsInv
  <1> SUFFICES ASSUME Init PROVE AppsInv
    OBVIOUS
  <1>1. sentinel = [s \in Specs |-> Fresh] /\ work = sentinel /\ apps = {} /\ removed = {}
    BY DEF Init
  <1> QED
    BY <1>1 DEF AppsInv, Installed, Record, Fresh, MAX_RETRY_ATTEMPTS

-----------------------------------------------------------------------------
(* The bounds *)

CountsElse == UNCHANGED <<counts, blame>>

LEMMA CountsInit == Init => CountsInv
  BY DEF Init, CountsInv

LEMMA CountsPreserved == CountsInv /\ [Next]_vars => CountsInv'
  <1> SUFFICES ASSUME CountsInv, [Next]_vars PROVE CountsInv'
    OBVIOUS
  <1> DEFINE Faulty == Fault /\ UNCHANGED blame
  <1> USE DEF defaults, counts, CountsElse
  <1>1. ASSUME NEW p \in Procs, Start(p) PROVE CountsInv'
    BY <1>1 DEF Start, CountsInv
  <1>2. ASSUME NEW p \in Procs, TakeLock(p) \/ ReadVersion(p) \/ Up(p) \/ Bump(p)
                 \/ Commit(p) \/ RollBack(p) \/ Proceed(p) \/ SeedDomains(p) \/ SeedIdentity(p)
                 \/ SeedAdoption(p) \/ SeedArchive(p) \/ SeedToken(p) \/ Choose(p) \/ SetupEnds(p)
        PROVE  CountsElse \/ Faulty
    BY <1>2 DEF TakeLock, ReadVersion, Up, Bump, Commit, RollBack, Proceed,
         SeedDomains, SeedIdentity, SeedAdoption, SeedArchive, SeedToken, Choose, SetupEnds
  <1>3. ASSUME NEW p \in Procs, Attach(p) \/ Restore(p) \/ Format(p) \/ Formatted(p) \/ Reseed(p)
                 \/ LoadSentinel(p)
        PROVE  CountsElse \/ Faulty
    BY <1>3 DEF Attach, Restore, Format, Formatted, Reseed, LoadSentinel, fullElse
  <1>4. ASSUME NEW s \in Untried, NEW named, Attempt(s, named) PROVE CountsInv'
    <2>1. s \in Specs
      BY DEF Untried
    <2>2. CountsElse \/ (Fault /\ blame' = [blame EXCEPT ![s] = blame[s] + 1])
      BY <1>4, <2>1 DEF Attempt, CountsInv
    <2> QED
      BY <2>1, <2>2 DEF CountsInv, Fault
  <1>5. ASSUME NEW p \in Procs, Retry(p) PROVE CountsInv'
    <2>1. CASE CountsElse \/ Faulty
      BY <2>1 DEF CountsInv, Fault
    <2> QED
      BY <1>4, <1>5, <2>1 DEF Retry, WriteSentinel
  <1>6. ASSUME NEW q \in Posts, PostSetup(q) \/ FormRead(q) \/ Claim(q) \/ DropToken(q) \/ Unlink(q)
                 \/ LoadInSetup(q) \/ WriteInSetup(q)
        PROVE  CountsElse \/ Faulty
    BY <1>6 DEF PostSetup, FormRead, Claim, DropToken, Unlink, LoadInSetup, WriteInSetup, WriteSentinel
  <1>7. ASSUME NEW q \in Posts, DeployInSetup(q) PROVE CountsInv'
    <2>1. CASE CountsElse
      BY <2>1 DEF CountsInv
    <2> QED
      BY <1>4, <1>7, <2>1 DEF DeployInSetup
  <1>8. ASSUME NEW s \in Specs, RemoveApp(s) PROVE CountsElse
    BY <1>8 DEF RemoveApp, ownElse
  <1>9. ASSUME NEW c \in Conns, Exchange(c) \/ StorePart(c) PROVE CountsElse
    BY <1>9 DEF Exchange, StorePart, ownElse
  <1>10. ASSUME NEW p \in Procs, Crash(p) \/ Stop(p) PROVE CountsInv'
    BY <1>10 DEF Crash, Stop, Drop, CountsInv
  <1>11. CASE CountsElse \/ Faulty \/ UNCHANGED vars
    BY <1>11 DEF vars, CountsInv, Fault
  <1> QED
    BY <1>1, <1>2, <1>3, <1>5, <1>6, <1>7, <1>8, <1>9, <1>10, <1>11 DEF Next, Router, Handler

-----------------------------------------------------------------------------

IInv == SchemaInv /\ ClaimInv /\ CredInv /\ ArchInv /\ AppsInv /\ CountsInv

LEMMA Inductive == Spec => []IInv
  <1>1. Init => IInv
    BY SchemaInit, ClaimInit, CredInit, ArchInit, AppsInit, CountsInit DEF IInv
  <1>2. IInv /\ [Next]_vars => IInv'
    BY SchemaPreserved, ClaimPreserved, CredPreserved, ArchPreserved, AppsPreserved, CountsPreserved
       DEF IInv
  <1> QED
    BY <1>1, <1>2, PTL DEF Spec

\* A set without two different members has at most one.
LEMMA Lone ==
    ASSUME NEW S, \A u, v \in S : u = v
    PROVE  Cardinality(S) <= 1
  <1>1. CASE S = {}
    BY <1>1, FS_EmptySet
  <1>2. CASE S # {}
    <2>1. PICK u \in S : S = {u}
      BY <1>2
    <2>2. Cardinality(S) = 1
      BY <2>1, FS_Singleton
    <2> QED
      BY <2>2
  <1> QED
    BY <1>1, <1>2

\* Every state of a start, of a claim and of the owner's later calls is well
\* typed: in particular one process at most is past the migrations.
THEOREM BootTypeCorrect == Spec => []TypeOK
  <1>1. IInv => TypeOK
    <2> SUFFICES ASSUME IInv PROVE TypeOK
      OBVIOUS
    <2>1. Cardinality(Past) <= 1
      BY Lone DEF IInv, SchemaInv, OnePast, Past
    <2>2. staged.by # None => flock = staged.by
      BY DEF IInv, SchemaInv, SchemaTypes, LockHeld, Locked, InTransaction
    <2>3. blame \in [Specs -> 0..MaxFaults]
      BY DEF IInv, CountsInv
    <2>4. {sentinel, work} \subseteq [Specs -> Record] /\ apps \subseteq Specs /\ removed \subseteq Specs
      BY DEF IInv, AppsInv
    <2>5. SchemaTypes /\ ClaimTypes /\ CredTypes /\ ArchTypes
      BY DEF IInv, SchemaInv, ClaimInv, CredInv, ArchInv
    <2>6. counts \in (0..MaxStarts) \X (0..MaxCrash) \X (0..MaxFaults)
      BY DEF IInv, CountsInv, counts
    <2>7. {domains, tok, legacy, torn, stuck} \subseteq BOOLEAN
      BY <2>5 DEF ClaimTypes, CredTypes
    <2> QED
      BY <2>1, <2>2, <2>3, <2>4, <2>5, <2>6, <2>7
         DEF TypeOK, SchemaTypes, ClaimTypes, CredTypes, ArchTypes, Record, PostPlaces
  <1> QED
    BY <1>1, Inductive, PTL

\* Whatever process dies at whatever statement of a migration, and whoever else
\* is starting: the tables are those of the version that is recorded, unless
\* nobody has touched them, and every process past init_db is on its own schema.
THEOREM SchemaIsOurs == Spec => []SchemaAgrees
  <1>1. IInv => SchemaAgrees
    BY DEF IInv, SchemaInv, Done, SchemaAgrees, Served
  <1> QED
    BY <1>1, Inductive, PTL

\* However many requests POST /setup together and wherever the process dies, a
\* space that asks for a token is claimed once, and until then it has the token
\* it was given.
THEOREM ClaimedOnceAndClaimable == Spec => []ClaimWorks
  <1>1. IInv => ClaimWorks
    <2> SUFFICES ASSUME IInv PROVE ClaimWorks
      OBVIOUS
    <2>1. ClaimedOnce
      BY Lone DEF IInv, ClaimInv, TokenGuards, ClaimedOnce
    <2>2. Claimable
      BY DEF IInv, ClaimInv, TokenKept, Given, SetupUp, Claimable
    <2> QED
      BY <2>1, <2>2 DEF ClaimWorks
  <1> QED
    BY <1>1, Inductive, PTL

\* The three commits of a credential, by the seed and by any number of
\* callbacks, and a death between them: unless two were written at once or one
\* was cut, what is stored is the last one connected, or else the seed.
THEOREM CredentialIsLatest == Spec => []CredentialKept
  <1>1. IInv => CredentialKept
    <2> SUFFICES ASSUME IInv, ~torn, Writing = {}, NEW p \in Procs, pc[p] \in {"setup", "main"}
                 PROVE  \A i \in Parts : ident[i] = latest
      BY DEF CredentialKept
    <2>1. Stored \/ ~Seeding
      BY DEF IInv, CredInv, Seeded, Unstarted
    <2> QED
      BY <2>1 DEF IInv, CredInv, Whole, Stored, Parts
  <1> QED
    BY <1>1, Inductive, PTL

\* The first boots of an instance, killed anywhere, on a bucket that has been
\* used: a backup is never overwritten and is what the volume becomes, and data
\* that was not handed over by name stays.
THEOREM ArchiveSurvives == Spec => []ArchiveRestored
  <1>1. IInv => ArchiveRestored
    BY DEF IInv, ArchInv, Survives, ArchiveRestored
  <1> QED
    BY <1>1, Inductive, PTL

\* The list of default apps never calls an app done that no attempt installed.
THEOREM DoneWasInstalled == Spec => []DoneIsInstalled
  <1>1. IInv => DoneIsInstalled
    BY DEF IInv, AppsInv, Installed, DoneIsInstalled
  <1> QED
    BY <1>1, Inductive, PTL
=============================================================================
