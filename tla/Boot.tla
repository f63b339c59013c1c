-------------------------------- MODULE Boot --------------------------------
(* From the start of the router's process to the page it serves: the schema  *)
(* migrations, the seeds of first_boot.toml, the setup app that makes the    *)
(* owner, the archive volume of a new instance, the default apps, and the    *)
(* Imbue credential that first boot seeds and "Connect to Imbue" replaces.   *)
(*                                                                           *)
(* A process may die at every step, and a second one may be started beside   *)
(* it.  Everything the router keeps over a death is in a variable of its own *)
(* (db, domains, users, tok, ident, arch, sentinel, apps, legacy); the rest  *)
(* is lost.  The database is committed at each action that writes it.        *)
EXTENDS Naturals, FiniteSets

CONSTANTS
    Procs,      \* router processes
    Posts,      \* POST /setup requests
    Names,      \* usernames a claim may ask for
    Specs,      \* config.default_apps
    Conns,      \* "Connect to Imbue" callbacks
    Disks,      \* what a machine may look like before its first start
    MaxVersion, \* the highest schema version any release knows
    MaxStarts, MaxCrash, MaxFaults,
    None

Parts == 1..3                  \* issuer URL, client id and secret
MAX_RETRY_ATTEMPTS == 3

\* A disk: the database's tables and its recorded version, whether an owner
\* and domains are in it, first_boot.toml (domain, claim token, identity,
\* archive backend with the volume's name given or not), the legacy claim-token
\* file, config.claim_token_required, the local volume and the bucket.
Disk == [shape : 0..MaxVersion, stamp : 0..MaxVersion, owned : BOOLEAN,
         file : BOOLEAN, token : BOOLEAN, identity : BOOLEAN,
         s3 : BOOLEAN, named : BOOLEAN, legacy : BOOLEAN, required : BOOLEAN,
         meta : {"none", "local"}, bucket : {"empty", "data", "dump"}]

ASSUME DisksAssumption == Disks \subseteq Disk
ASSUME VersionAssumption == MaxVersion \in Nat \ {0}
ASSUME BoundsAssumption == {MaxStarts, MaxCrash, MaxFaults} \subseteq Nat
ASSUME NoneAssumption == None \notin Procs \cup Posts \cup Conns
ASSUME ConnsAssumption == Conns \cap {"none", "seed"} = {}

VARIABLES
    disk,       \* the disk the machine was born with; its files do not change
    db,         \* committed: the shape of the tables and the recorded version
    staged,     \* the open migration transaction, lost with its process
    flock,      \* the holder of <db>.migrate.lock
    pc, code,   \* per process: where it is, and the schema version of its release
    domains,    \* whether the domains table has rows: it is never emptied (Domains)
    tok,        \* whether settings holds the claim token
    legacy,     \* whether the claim-token file exists
    ident,      \* whose each part of the stored credential is
    users,      \* the users table
    arch,       \* the archive_backend row, the local meta DB and the bucket
    post,       \* the setup requests
    sentinel, work,  \* default_apps.json, and its copy in memory
    apps,       \* the default apps that have a row
    removed,    \* those their owner removed
    conn,       \* the callbacks: 0 not yet, then the part to write, 4 over
    latest,     \* history: the last one connected in full, or else the seeded one
    torn,       \* history: writes of two credentials overlapped, or one was cut
    stuck,      \* history: the setup handler failed after it made the owner
    blame,      \* history: attempts per default app that failed by a fault
    nstart, ncrash, nfault

schema == <<db, staged, flock, code>>
seeds == <<domains, tok, legacy, users>>
creds == <<ident, conn, latest, torn>>
defaults == <<sentinel, work, apps, removed, blame>>
counts == <<nstart, ncrash, nfault>>
vars == <<disk, schema, pc, seeds, creds, arch, post, defaults, stuck, counts>>

Unstarted == {"off", "lock", "read", "up", "bump", "commit", "ready"}
Bootstrap == {"domains", "identity", "archive", "row", "token", "choose"}
Full == {"attach", "restore", "format", "formatted", "load", "retry", "reseed"}
Places == Unstarted \cup Bootstrap \cup Full \cup {"setup", "main"}

Fresh == [status |-> "none", attempts |-> 0]
Closed == [by |-> None, shape |-> 0, stamp |-> 0]

Init ==
    /\ disk \in Disks
    /\ db = [shape |-> disk.shape, stamp |-> disk.stamp]
    /\ staged = Closed /\ flock = None
    /\ pc = [p \in Procs |-> "off"]
    /\ code = [p \in Procs |-> 1]
    /\ domains = disk.owned
    /\ tok = FALSE /\ legacy = disk.legacy
    /\ users \in IF disk.owned THEN {{n} : n \in Names} ELSE {{}}
    /\ ident = [i \in Parts |-> "none"] /\ latest = "none" /\ torn = FALSE
    /\ conn = [c \in Conns |-> 0]
    /\ arch = [s3 |-> FALSE, adopt |-> FALSE, vol |-> "zone", meta |-> disk.meta,
               bucket |-> [zone |-> disk.bucket, fresh |-> "empty"]]
    /\ post = [q \in Posts |-> "new"]
    /\ sentinel = [s \in Specs |-> Fresh] /\ work = sentinel
    /\ apps = {} /\ removed = {}
    /\ blame = [s \in Specs |-> 0]
    /\ stuck = FALSE
    /\ nstart = 0 /\ ncrash = 0 /\ nfault = 0

-----------------------------------------------------------------------------
(* Migrations: db/versioned/runner.py, under the lock of apply_migrations    *)

At(p, place) == pc[p] = place
Go(p, place) == pc' = [pc EXCEPT ![p] = place]
Alive == {p \in Procs : pc[p] # "off"}
Past == {p \in Procs : pc[p] \notin Unstarted}

End(p) == Go(p, "off") /\ code' = [code EXCEPT ![p] = 1]

Fault == nfault < MaxFaults /\ nfault' = nfault + 1 /\ UNCHANGED <<nstart, ncrash>>

\* A release is swapped only while no router runs (SystemUpdate), so processes
\* that are alive together run the same code.
Start(p) ==
    /\ At(p, "off") /\ nstart < MaxStarts
    /\ \E v \in 1..MaxVersion :
          /\ \A r \in Alive : code[r] = v
          /\ code' = [code EXCEPT ![p] = v]
    /\ Go(p, "lock")
    /\ nstart' = nstart + 1
    /\ UNCHANGED <<disk, db, staged, flock, seeds, creds, arch, post, defaults, stuck,
                   ncrash, nfault>>

TakeLock(p) ==
    /\ At(p, "lock") /\ flock = None
    /\ flock' = p
    /\ Go(p, "read")
    /\ UNCHANGED <<disk, db, staged, code, seeds, creds, arch, post, defaults, stuck, counts>>

Refuses(p) == db.stamp > code[p] \/ (db.shape > 0 /\ db.stamp = 0)

ReadVersion(p) ==
    /\ At(p, "read")
    /\ \/ Refuses(p) /\ End(p) /\ flock' = None
       \/ /\ ~Refuses(p) /\ db.shape > 0 /\ db.stamp = code[p]
          /\ Go(p, "ready") /\ flock' = None /\ UNCHANGED code
       \/ /\ ~Refuses(p) /\ (db.shape = 0 \/ db.stamp < code[p])
          /\ Go(p, "up") /\ UNCHANGED <<flock, code>>
    /\ UNCHANGED <<disk, db, staged, seeds, creds, arch, post, defaults, stuck, counts>>

\* An empty database goes to the release's schema.sql at once; every other one
\* goes one version at a time.  The loop's own copy of the version is that of
\* the database as long as the lock is held.
Target(p) == IF db.shape = 0 THEN code[p] ELSE db.stamp + 1

\* The body of the transaction: BEGIN EXCLUSIVE and the tables.
Up(p) ==
    /\ At(p, "up")
    /\ staged' = [by |-> p, shape |-> Target(p), stamp |-> db.stamp]
    /\ Go(p, "bump")
    /\ UNCHANGED <<disk, db, flock, code, seeds, creds, arch, post, defaults, stuck, counts>>

\* The mutant: the tables are committed before the version is recorded.
BumpApart(p) ==
    /\ At(p, "bump")
    /\ db' = [db EXCEPT !.shape = staged.shape]
    /\ staged' = [staged EXCEPT !.stamp = staged.shape]
    /\ Go(p, "commit")
    /\ UNCHANGED <<disk, flock, code, seeds, creds, arch, post, defaults, stuck, counts>>

Bump(p) ==
    /\ At(p, "bump")
    /\ staged' = [staged EXCEPT !.stamp = staged.shape]
    /\ Go(p, "commit")
    /\ UNCHANGED <<disk, db, flock, code, seeds, creds, arch, post, defaults, stuck, counts>>

Commit(p) ==
    /\ At(p, "commit")
    /\ db' = [shape |-> staged.shape, stamp |-> staged.stamp]
    /\ staged' = Closed
    /\ IF staged.stamp = code[p]
         THEN Go(p, "ready") /\ flock' = None
         ELSE Go(p, "up") /\ UNCHANGED flock
    /\ UNCHANGED <<disk, code, seeds, creds, arch, post, defaults, stuck, counts>>

\* A statement fails: ROLLBACK, and the exception ends the process.
RollBack(p) ==
    /\ pc[p] \in {"bump", "commit"}
    /\ Fault
    /\ staged' = Closed /\ flock' = None
    /\ End(p)
    /\ UNCHANGED <<disk, db, seeds, creds, arch, post, defaults, stuck>>

-----------------------------------------------------------------------------
(* Seeds: core/first_boot.py                                                 *)

bootElse == <<disk, db, staged, flock>>
schemaElse == <<bootElse, code>>

\* Only apply_migrations is guarded against a second process: systemd runs one
\* router, and a second finds the ports taken.
Proceed(p) ==
    /\ At(p, "ready")
    /\ \/ Past = {} /\ Go(p, "domains") /\ UNCHANGED code
       \/ Past # {} /\ End(p)
    /\ UNCHANGED <<bootElse, seeds, creds, arch, post, defaults, stuck, counts>>

SeedDomains(p) ==
    /\ At(p, "domains")
    /\ domains' = (domains \/ disk.file)
    /\ Go(p, IF disk.file THEN "identity" ELSE "token")
    /\ UNCHANGED <<schemaElse, tok, legacy, users, creds, arch, post, defaults, stuck, counts>>

\* get_stored_instance_identity: a credential is all three parts or none.
Stored == \A i \in Parts : ident[i] # "none"

\* The mutant: what first_boot.toml says is written at every boot.
SeedsAlways == disk.identity /\ \E i \in Parts : ident[i] # "seed"

SeedsIdentity == disk.identity /\ ~Stored

\* set_instance_identity commits each part on its own.
NextPart(who) == CHOOSE i \in Parts : ident[i] # who /\ \A j \in 1..(i - 1) : ident[j] = who

SeedIdentity(p) ==
    /\ At(p, "identity")
    /\ IF SeedsIdentity
         THEN LET i == NextPart("seed") IN
              /\ ident' = [ident EXCEPT ![i] = "seed"]
              /\ latest' = IF i = 3 /\ latest = "none" THEN "seed" ELSE latest
              /\ torn' = IF i = 3 THEN FALSE ELSE torn
              /\ UNCHANGED pc
         ELSE Go(p, "archive") /\ UNCHANGED <<ident, latest, torn>>
    /\ UNCHANGED <<schemaElse, seeds, conn, arch, post, defaults, stuck, counts>>

\* seed_preconfigured_s3: before the claim only, and only while no volume
\* exists; the adoption mark and the row are two commits.
SeedAdoption(p) ==
    /\ At(p, "archive")
    /\ IF disk.s3 /\ users = {} /\ arch.meta = "none"
         THEN arch' = [arch EXCEPT !.adopt = disk.named] /\ Go(p, "row")
         ELSE Go(p, "token") /\ UNCHANGED arch
    /\ UNCHANGED <<schemaElse, seeds, creds, post, defaults, stuck, counts>>

SeedArchive(p) ==
    /\ At(p, "row")
    /\ arch' = [arch EXCEPT !.s3 = TRUE, !.vol = "zone"]
    /\ Go(p, "token")
    /\ UNCHANGED <<schemaElse, seeds, creds, post, defaults, stuck, counts>>

\* The claim token of the file, or else of the legacy file, until the claim.
TokenSeeded ==
    tok \/ (users = {} /\ ((disk.file /\ disk.token) \/ legacy))

SeedToken(p) ==
    /\ At(p, "token")
    /\ tok' = TokenSeeded
    /\ Go(p, "choose")
    /\ UNCHANGED <<schemaElse, domains, legacy, users, creds, arch, post, defaults, stuck, counts>>

\* _require_configured_domain, then the setup app or the full one.
Choose(p) ==
    /\ At(p, "choose")
    /\ \/ ~domains /\ End(p)
       \/ domains /\ users = {} /\ Go(p, "setup") /\ UNCHANGED code
       \/ domains /\ users # {} /\ Go(p, "attach") /\ UNCHANGED code
    /\ UNCHANGED <<bootElse, seeds, creds, arch, post, defaults, stuck, counts>>

-----------------------------------------------------------------------------
(* The claim: web/setup_app.py.  After its form has arrived the handler      *)
(* holds the event loop to the end of the default apps.                      *)

postElse == <<schemaElse, creds, arch>>
Holding == {q \in Posts : post[q] \in {"insert", "drop", "unlink", "load", "deploy", "write"}}
SetupUp == \E p \in Procs : pc[p] = "setup"
GoPost(q, place) == post' = [post EXCEPT ![q] = place]

PostSetup(q) ==
    /\ SetupUp /\ Holding = {} /\ post[q] = "new"
    /\ GoPost(q, "form")
    /\ UNCHANGED <<postElse, pc, seeds, defaults, stuck, counts>>

\* The form is read, the token is verified, the password is checked.  A wrong
\* token and a bad password are answers that change nothing.
VerifiedEarly(valid) == disk.required => valid   \* the mutant: before its form is read

Verified(valid) == disk.required => tok /\ valid

FormRead(q) ==
    /\ SetupUp /\ Holding = {} /\ post[q] = "form"
    /\ \E valid, sound \in BOOLEAN :
          GoPost(q, IF Verified(valid) /\ sound THEN "insert" ELSE "done")
    /\ UNCHANGED <<postElse, pc, seeds, defaults, stuck, counts>>

\* INSERT INTO users and the session, one commit; a username that is taken is
\* an IntegrityError.
Claim(q) ==
    /\ post[q] = "insert"
    /\ \E name \in Names :
          IF name \in users
            THEN GoPost(q, "done") /\ UNCHANGED users
            ELSE GoPost(q, "drop") /\ users' = users \cup {name}
    /\ UNCHANGED <<postElse, pc, domains, tok, legacy, defaults, stuck, counts>>

\* delete_setting, a second commit; if it fails the request ends in a 500 with
\* the owner made and the setup app still up.
DropToken(q) ==
    /\ post[q] = "drop"
    /\ \/ GoPost(q, "unlink") /\ tok' = FALSE /\ UNCHANGED <<stuck, counts>>
       \/ Fault /\ GoPost(q, "done") /\ stuck' = TRUE /\ UNCHANGED tok
    /\ UNCHANGED <<postElse, pc, domains, legacy, users, defaults>>

\* os.remove of the legacy file, best effort.
Unlink(q) ==
    /\ post[q] = "unlink"
    /\ legacy' \in {FALSE, legacy}
    /\ GoPost(q, "load")
    /\ UNCHANGED <<postElse, pc, domains, tok, users, defaults, stuck, counts>>

-----------------------------------------------------------------------------
(* The default apps: core/default_apps.py, run by the setup handler and at   *)
(* every boot of the full app, with the event loop held.                     *)

Terminal(r) == r.status \in {"ok", "skipped"} \/ r.attempts >= MAX_RETRY_ATTEMPTS
Untried == {s \in Specs : ~Terminal(work[s]) /\ work[s] = sentinel[s]}

\* The mutant: an installation that failed is taken for one that exists.
AttemptTrusting(s, named) ==
    \/ /\ s \in apps
       /\ work' = [work EXCEPT ![s] = [status |-> "skipped", attempts |-> 1]]
       /\ UNCHANGED <<apps, blame, counts>>
    \/ /\ s \notin apps /\ named
       /\ apps' = apps \cup {s}
       /\ work' = [work EXCEPT ![s] = [status |-> "ok", attempts |-> 1]]
       /\ UNCHANGED <<blame, counts>>
    \/ /\ s \notin apps /\ ~named
       /\ work' = [work EXCEPT ![s] = [status |-> "failed", attempts |-> @.attempts + 1]]
       /\ UNCHANGED <<apps, blame, counts>>
    \/ /\ s \notin apps
       /\ Fault
       /\ apps' \in IF named THEN {apps, apps \cup {s}} ELSE {apps}
       /\ work' = [work EXCEPT ![s] = [status |-> "skipped", attempts |-> 1]]
       /\ blame' = [blame EXCEPT ![s] = @ + 1]

\* _install_one.  Clone, validation, space and ports may fail for a reason of
\* their own, and the grants after the commit too.  insert_and_deploy reads
\* rows by column name, which only the setup handler's connection allows: that
\* of retry_pending_default_apps returns tuples, so there a row is never made.
Attempt(s, named) ==
    \/ /\ s \in apps
       /\ work' = [work EXCEPT ![s] = [status |-> "skipped", attempts |-> 1]]
       /\ UNCHANGED <<apps, blame, counts>>
    \/ /\ s \notin apps /\ named
       /\ apps' = apps \cup {s}
       /\ work' = [work EXCEPT ![s] = [status |-> "ok", attempts |-> 1]]
       /\ UNCHANGED <<blame, counts>>
    \/ /\ s \notin apps /\ ~named
       /\ work' = [work EXCEPT ![s] = [status |-> "failed", attempts |-> @.attempts + 1]]
       /\ UNCHANGED <<apps, blame, counts>>
    \/ /\ s \notin apps
       /\ Fault
       /\ apps' \in IF named THEN {apps, apps \cup {s}} ELSE {apps}
       /\ work' = [work EXCEPT ![s] = [status |-> "failed", attempts |-> @.attempts + 1]]
       /\ blame' = [blame EXCEPT ![s] = @ + 1]

\* _write_sentinel replaces the file as a whole; a failure is only logged.
WriteSentinel ==
    /\ \/ sentinel' = work /\ UNCHANGED counts
       \/ Fault /\ UNCHANGED sentinel
    /\ work' = sentinel'

LoadInSetup(q) ==
    /\ post[q] = "load"
    /\ work' = sentinel
    /\ GoPost(q, "deploy")
    /\ UNCHANGED <<postElse, pc, seeds, sentinel, apps, removed, blame, stuck, counts>>

DeployInSetup(q) ==
    /\ post[q] = "deploy"
    /\ IF Untried = {}
         THEN GoPost(q, "write") /\ UNCHANGED <<work, apps, blame, counts>>
         ELSE (\E s \in Untried : Attempt(s, TRUE)) /\ UNCHANGED post
    /\ UNCHANGED <<postElse, pc, seeds, sentinel, removed, stuck>>

WriteInSetup(q) ==
    /\ post[q] = "write"
    /\ WriteSentinel
    /\ GoPost(q, "answered")
    /\ UNCHANGED <<postElse, pc, seeds, apps, removed, blame, stuck>>

\* The background task of the response: trigger_restart ends the setup app and
\* main goes on to the full one; requests without an answer are dropped.
SetupEnds(p) ==
    /\ At(p, "setup") /\ Holding = {}
    /\ \E q \in Posts : post[q] = "answered"
    /\ Go(p, "attach")
    /\ post' = [q \in Posts |-> IF post[q] = "new" THEN "new" ELSE "done"]
    /\ UNCHANGED <<schemaElse, seeds, creds, arch, defaults, stuck, counts>>

-----------------------------------------------------------------------------
(* The archive of a new instance: attach_on_startup.  A failure leaves a     *)
(* message and the boot goes on.                                             *)

fullElse == <<schemaElse, seeds, creds, post, stuck>>

\* What is in the bucket: a metadata backup is restored; a volume without one
\* is cleared if it was adopted by name and left alone otherwise.
Attach(p) ==
    /\ At(p, "attach")
    /\ \/ /\ arch.meta # "none"
          /\ Go(p, "load") /\ UNCHANGED <<arch, counts>>
       \/ /\ arch.meta = "none" /\ ~arch.s3
          /\ arch' = [arch EXCEPT !.meta = "local"]
          /\ Go(p, "load") /\ UNCHANGED counts
       \/ /\ arch.meta = "none" /\ arch.s3 /\ arch.bucket[arch.vol] = "dump"
          /\ Go(p, "restore") /\ UNCHANGED <<arch, counts>>
       \/ /\ arch.meta = "none" /\ arch.s3 /\ arch.bucket[arch.vol] = "data"
          /\ arch' = IF arch.adopt
                       THEN [arch EXCEPT !.bucket[arch.vol] = "empty"]
                       ELSE [arch EXCEPT !.vol = "fresh", !.bucket.fresh = "empty"]
          /\ Go(p, "format") /\ UNCHANGED counts
       \/ /\ arch.meta = "none" /\ arch.s3 /\ arch.bucket[arch.vol] = "empty"
          /\ Go(p, "format") /\ UNCHANGED <<arch, counts>>
       \/ Fault /\ arch.meta = "none" /\ Go(p, "load") /\ UNCHANGED arch
    /\ UNCHANGED <<fullElse, defaults>>

\* The mutant: a backup that cannot be loaded is given up for a new volume.
RestoreOrFormat(p) ==
    /\ At(p, "restore")
    /\ \/ arch' = [arch EXCEPT !.meta = "old"] /\ Go(p, "load") /\ UNCHANGED counts
       \/ Fault /\ Go(p, "format") /\ UNCHANGED arch
    /\ UNCHANGED <<fullElse, defaults>>
\* The backup is loaded into a scratch database, which replaces the local one
\* only when it is complete.
Restore(p) ==
    /\ At(p, "restore")
    /\ \/ arch' = [arch EXCEPT !.meta = "old"] /\ UNCHANGED counts
       \/ Fault /\ UNCHANGED arch
    /\ Go(p, "load")
    /\ UNCHANGED <<fullElse, defaults>>

\* juicefs format writes to the bucket before the local database says that
\* there is a volume.
Format(p) ==
    /\ At(p, "format")
    /\ \/ arch' = [arch EXCEPT !.bucket[arch.vol] = "data"] /\ Go(p, "formatted") /\ UNCHANGED counts
       \/ Fault /\ Go(p, "load") /\ arch' \in {arch, [arch EXCEPT !.bucket[arch.vol] = "data"]}
    /\ UNCHANGED <<fullElse, defaults>>

Formatted(p) ==
    /\ At(p, "formatted")
    /\ arch' = [arch EXCEPT !.meta = "new"]
    /\ Go(p, "load")
    /\ UNCHANGED <<fullElse, defaults, counts>>

-----------------------------------------------------------------------------
(* The rest of the full app's start: web/app.py                              *)

LoadSentinel(p) ==
    /\ At(p, "load")
    /\ work' = sentinel
    /\ Go(p, "retry")
    /\ UNCHANGED <<fullElse, arch, sentinel, apps, removed, blame, counts>>

Retry(p) ==
    /\ At(p, "retry")
    /\ IF Untried = {}
         THEN WriteSentinel /\ Go(p, "reseed") /\ UNCHANGED <<apps, blame>>
         ELSE (\E s \in Untried : Attempt(s, FALSE)) /\ UNCHANGED <<pc, sentinel>>
    /\ UNCHANGED <<fullElse, arch, removed>>

\* seed_first_boot once more, in the process that has just been through it:
\* with an owner there is nothing left for it to write.
Reseed(p) ==
    /\ At(p, "reseed")
    /\ domains' = (domains \/ disk.file)
    /\ tok' = TokenSeeded
    /\ Go(p, "main")
    /\ UNCHANGED <<schemaElse, legacy, users, creds, arch, post, defaults, stuck, counts>>

-----------------------------------------------------------------------------
(* What the owner does later                                                 *)

MainUp == \E p \in Procs : pc[p] = "main"
ownElse == <<schemaElse, pc, post, arch, stuck, counts>>

RemoveApp(s) ==
    /\ MainUp /\ s \in apps
    /\ apps' = apps \ {s}
    /\ removed' = removed \cup {s}
    /\ UNCHANGED <<ownElse, seeds, creds, sentinel, work, blame>>

\* connect_imbue_callback runs in a thread of its own: the state is popped,
\* the code exchanged or refused, and the three parts are written one by one.
Exchange(c) ==
    /\ MainUp /\ conn[c] = 0
    /\ \E next \in {1, 4} : conn' = [conn EXCEPT ![c] = next]
    /\ UNCHANGED <<ownElse, seeds, ident, latest, torn, defaults>>

Writing == {c \in Conns : conn[c] \in 2..3}

StorePart(c) ==
    /\ conn[c] \in Parts
    /\ ident' = [ident EXCEPT ![conn[c]] = c]
    /\ conn' = [conn EXCEPT ![c] = @ + 1]
    /\ latest' = IF conn[c] = 3 THEN c ELSE latest
    /\ torn' = IF conn[c] = 3 /\ Writing = {c} THEN \E i \in 1..2 : ident[i] # c
               ELSE torn \/ Writing \ {c} # {}
    /\ UNCHANGED <<ownElse, seeds, defaults>>

\* A credential whose writing is cut stays as it is until the next one.
Cut == conn' = [c \in Conns |-> IF conn[c] = 0 THEN 0 ELSE 4]
       /\ torn' = (torn \/ Writing # {})

-----------------------------------------------------------------------------
(* The end of a process                                                      *)

Drop(p) ==
    /\ End(p)
    /\ work' = sentinel
    /\ flock' = IF flock = p THEN None ELSE flock
    /\ staged' = IF staged.by = p THEN Closed ELSE staged
    /\ IF pc[p] \in Unstarted
         THEN UNCHANGED <<post, conn, torn>>
         ELSE /\ post' = [q \in Posts |-> IF post[q] = "new" THEN "new" ELSE "done"]
              /\ Cut
    /\ UNCHANGED <<disk, db, seeds, ident, latest, arch, sentinel, apps, removed, blame, stuck>>

\* Killed at any step.
Crash(p) ==
    /\ pc[p] # "off" /\ ncrash < MaxCrash
    /\ ncrash' = ncrash + 1 /\ UNCHANGED <<nstart, nfault>>
    /\ Drop(p)

\* A signal or a requested restart, once the event loop is free.
Stop(p) ==
    /\ pc[p] \in {"setup", "main"} /\ Holding = {}
    /\ UNCHANGED counts
    /\ Drop(p)

-----------------------------------------------------------------------------
Router(p) ==
    \/ TakeLock(p) \/ ReadVersion(p) \/ Up(p) \/ Bump(p) \/ Commit(p) \/ RollBack(p)
    \/ Proceed(p) \/ SeedDomains(p) \/ SeedIdentity(p) \/ SeedAdoption(p) \/ SeedArchive(p)
    \/ SeedToken(p) \/ Choose(p) \/ SetupEnds(p)
    \/ Attach(p) \/ Restore(p) \/ Format(p) \/ Formatted(p)
    \/ LoadSentinel(p) \/ Retry(p) \/ Reseed(p)

Handler(q) ==
    \/ Claim(q) \/ DropToken(q) \/ Unlink(q)
    \/ LoadInSetup(q) \/ DeployInSetup(q) \/ WriteInSetup(q)

Next ==
    \/ \E p \in Procs : Start(p) \/ Router(p) \/ Crash(p) \/ Stop(p)
    \/ \E q \in Posts : PostSetup(q) \/ FormRead(q) \/ Handler(q)
    \/ \E s \in Specs : RemoveApp(s)
    \/ \E c \in Conns : Exchange(c) \/ StorePart(c)

Spec == Init /\ [][Next]_vars

-----------------------------------------------------------------------------
(* Properties *)

TypeOK ==
    /\ disk \in Disks
    /\ db \in [shape : 0..MaxVersion, stamp : 0..MaxVersion]
    /\ staged \in [by : Procs \cup {None}, shape : 0..MaxVersion, stamp : 0..MaxVersion]
    /\ flock \in Procs \cup {None} /\ (staged.by # None => flock = staged.by)
    /\ pc \in [Procs -> Places] /\ Cardinality(Past) <= 1
    /\ code \in [Procs -> 1..MaxVersion]
    /\ {domains, tok, legacy, torn, stuck} \subseteq BOOLEAN
    /\ ident \in [Parts -> {"none", "seed"} \cup Conns]
    /\ latest \in {"none", "seed"} \cup Conns
    /\ conn \in [Conns -> 0..4]
    /\ users \subseteq Names
    /\ arch \in [s3 : BOOLEAN, adopt : BOOLEAN, vol : {"zone", "fresh"},
                 meta : {"none", "local", "old", "new"},
                 bucket : [{"zone", "fresh"} -> {"empty", "data", "dump"}]]
    /\ post \in [Posts -> {"new", "form", "insert", "drop", "unlink", "load", "deploy",
                           "write", "answered", "done"}]
    /\ {sentinel, work} \subseteq
         [Specs -> [status : {"none", "ok", "skipped", "failed"}, attempts : 0..MAX_RETRY_ATTEMPTS]]
    /\ apps \subseteq Specs /\ removed \subseteq Specs
    /\ blame \in [Specs -> 0..MaxFaults]
    /\ counts \in (0..MaxStarts) \X (0..MaxCrash) \X (0..MaxFaults)

\* The tables are those of the version the database records, whatever died in
\* the middle of a migration and whoever else was starting; the one exception
\* is a database older than the versions, which nobody touches.  And whoever is
\* past init_db works on the schema of its own release.
SchemaAgrees ==
    /\ db.shape = db.stamp \/ db = [shape |-> disk.shape, stamp |-> disk.stamp]
    /\ \A p \in Procs : pc[p] \in (Places \ Unstarted) \cup {"ready"} => db.stamp = code[p]

\* Where a claim token is required the space is claimed once, although the
\* setup app still serves requests between the claim and its own end; a claim
\* whose token could not be deleted is the exception.
ClaimedOnce == disk.required /\ ~stuck => Cardinality(users) <= 1

\* And it can be claimed: as long as there is no owner, the setup app knows the
\* token the instance was given, whatever died in an earlier claim.
Claimable ==
    SetupUp /\ Holding = {} /\ users = {} /\ ((disk.file /\ disk.token) \/ disk.legacy) => tok

\* The claim works once and works at all.
ClaimWorks == ClaimedOnce /\ Claimable

\* The stored credential is the last one connected in full, or else the seeded
\* one: first_boot.toml never comes back over one the owner connected, and a
\* seed that was cut leaves no mixture.
CredentialKept ==
    ~torn /\ Writing = {} /\ (\A p \in Procs : pc[p] # "identity")
        /\ (\E p \in Procs : pc[p] \in {"setup", "main"}) =>
      \A i \in Parts : ident[i] = latest

\* A previous instance's archive survives the first boots of the next: one with
\* a backup is restored and never cleared, one that was not handed over by name
\* is never written to.
ArchiveRestored ==
    /\ disk.bucket = "dump" =>
         /\ arch.bucket["zone"] = "dump"
         /\ arch.s3 /\ arch.vol = "zone" => arch.meta \in {"none", "old"}
    /\ disk.bucket = "data" /\ ~disk.named => arch.bucket["zone"] = "data"

\* What default_apps.json calls done was installed, whatever failed or died
\* between an installation and the end of the list: nothing that is missing is
\* left out of the retries.
DoneIsInstalled ==
    \A s \in Specs : sentinel[s].status \in {"ok", "skipped"} => s \in apps \cup removed

\* retry_pending_default_apps: "Retry failed default-app installs on each
\* boot."  So an app that is still missing failed for a reason of its own each
\* time.  The code does not keep this (see Attempt).
RetriesInstall ==
    \A s \in Specs : sentinel[s].status = "failed" => sentinel[s].attempts <= blame[s]
=============================================================================
