-------------------------- MODULE ArchiveMigration --------------------------
(***************************************************************************)
(* The archive tier: one JuiceFS volume whose metadata stays on the        *)
(* machine while its objects live in a store, the local disk or an S3      *)
(* bucket.  configure_backend moves it to another bucket: sync the         *)
(* objects, re-point the volume, restart the mount, flip the row of        *)
(* archive_backend, reclaim the source.  Each command of that worker is a  *)
(* step, so an app, a FUSE restart or a crash may fall between any two.    *)
(* JuiceFS and systemd are modelled from how the code uses them.           *)
(***************************************************************************)
EXTENDS Naturals, FiniteSets

CONSTANTS
    Apps,       \* apps that use the archive
    Objects,    \* objects (chunks of files) apps write, each under a key of its own
    Buckets,    \* S3 buckets
    VolNames,   \* volume names: the prefix of every object key
    Local,      \* the local object store
    None,       \* SQL NULL / no value
    Default,    \* DEFAULT_VOLUME_NAME, the legacy shared name
    Zone,       \* default_volume_name_for_zone
    Starts,     \* which zones to start from: "fresh", "legacy", "disabled"
    MaxOps,     \* bound: migrations the owner asks for
    MaxCrash,   \* bound: crashes of the router and reboots
    MaxFlap     \* bound: deaths of the FUSE process

ASSUME StoresAssumption == Local \notin Buckets /\ None \notin Buckets \cup {Local}
ASSUME VolNamesAssumption == Default \in VolNames /\ Zone \in VolNames /\ None \notin VolNames
ASSUME ArchiveBoundsAssumption == MaxOps \in Nat /\ MaxCrash \in Nat /\ MaxFlap \in Nat
ASSUME StartsAssumption == Starts \subseteq {"fresh", "legacy", "disabled"}

VARIABLES
    proc,     \* the router: attaching the archive at start-up, or up
    row,      \* the archive_backend row
    message,  \* whether the row has a state_message
    vol,      \* the volume's own record in the meta DB: store and name
    mnt,      \* the store the live FUSE process talks to
    unit,     \* whether the openhost-juicefs unit is enabled
    store,    \* the objects in each store, by volume prefix
    files,    \* the objects the metadata refers to
    app,      \* apps that use the archive
    op,       \* the configure worker (one at a time: the operation lock)
    nops,     \* migrations asked for
    ncrash,   \* crashes so far
    nflap,    \* deaths of the FUSE process so far
    raced,    \* history: objects written during a migration's sync or past it
    strayed,  \* history: objects written while row, volume and mount disagreed
    renamed,  \* history: a migration synced under a name that is not the volume's
    torn      \* history: a migration was cut short between re-point and flip

disk == <<row, message, vol, store, files>>
fuse == <<mnt, unit>>
counters == <<nops, ncrash, nflap>>
history == <<raced, strayed, renamed, torn>>
vars == <<proc, disk, fuse, app, op, counters, history>>

-----------------------------------------------------------------------------
(* Types *)

Stores == Buckets \cup {Local}

Row == [backend : {"local", "disabled", "s3"}, bucket : Buckets \cup {None}, name : VolNames]

Volume == [store : Stores \cup {None}, name : VolNames \cup {None}]
Unformatted == [store |-> None, name |-> None]

\* "dead": the row says running, the container is gone.
AppStates == {"stopped", "starting", "running", "dead"}

\* Steps of configure_backend up to the flip, with the listed objects in both
\* stores from "repoint" on, and the steps of its handler.
Forward == {"format", "mount", "quiesce", "sync", "copy", "repoint", "umount", "remount", "flip"}
Synced == {"repoint", "umount", "remount", "flip"}
Undo == {"undopoint", "undoumount", "undomount"}

Op == [pc : Forward \cup Undo \cup {"idle", "reclaim", "resume"},
       src : Row, dst : Buckets \cup {None}, name : VolNames, quiesced : SUBSET Apps,
       listed : SUBSET Objects]

TypeOK ==
    /\ proc \in {"attach", "up"}
    /\ row \in Row
    /\ message \in BOOLEAN
    /\ vol \in Volume
    /\ mnt \in Stores \cup {None}
    /\ unit \in BOOLEAN
    /\ store \in [Stores -> [VolNames -> SUBSET Objects]]
    /\ files \subseteq Objects
    /\ app \in [Apps -> AppStates]
    /\ op \in Op
    /\ nops \in 0..MaxOps /\ ncrash \in 0..MaxCrash /\ nflap \in 0..MaxFlap
    /\ raced \subseteq Objects /\ strayed \subseteq Objects
    /\ renamed \in BOOLEAN /\ torn \in BOOLEAN

LocalRow == [backend |-> "local", bucket |-> None, name |-> Default]
IdleOp == [pc |-> "idle", src |-> LocalRow, dst |-> None, name |-> Default, quiesced |-> {},
           listed |-> {}]

\* A fresh zone has no volume, a legacy one a volume under the shared name, and
\* a disabled one no archive at all.
Init ==
    /\ proc = "attach"
    /\ \/ "fresh" \in Starts /\ row = LocalRow /\ vol = Unformatted
       \/ "legacy" \in Starts /\ row = LocalRow /\ vol = [store |-> Local, name |-> Default]
       \/ /\ "disabled" \in Starts
          /\ row = [LocalRow EXCEPT !.backend = "disabled"] /\ vol = Unformatted
    /\ message = FALSE
    /\ mnt = None /\ unit = FALSE
    /\ store = [s \in Stores |-> [v \in VolNames |-> {}]]
    /\ files = {}
    /\ app = [a \in Apps |-> "stopped"]
    /\ op = IdleOp
    /\ nops = 0 /\ ncrash = 0 /\ nflap = 0
    /\ raced = {} /\ strayed = {} /\ renamed = FALSE /\ torn = FALSE

-----------------------------------------------------------------------------
(* JuiceFS and systemd *)

RowStore(r) == CASE r.backend = "local" -> Local
                 [] r.backend = "s3" -> r.bucket
                 [] OTHER -> None

Formatted == vol.store # None

\* mount() does nothing to a live mount; otherwise it enables and starts the
\* unit, whose process reads the store from the metadata.
MountWorks ==
    IF mnt # None THEN UNCHANGED fuse ELSE mnt' = vol.store /\ unit' = TRUE

MountFails == mnt = None /\ mnt' = None /\ unit' \in {unit, TRUE}

\* umount() stops and disables the unit.
UmountWorks == mnt' = None /\ unit' \in {FALSE, unit /\ mnt = None}

UmountFails == mnt' \in {mnt, None} /\ unit' = unit

\* systemd restarts the FUSE process of an enabled unit: it then reads the
\* store from the metadata, whatever it talked to before.
FuseDown ==
    /\ mnt # None /\ nflap < MaxFlap
    /\ mnt' = None
    /\ nflap' = nflap + 1
    /\ UNCHANGED <<proc, disk, unit, app, op, nops, ncrash, history>>

FuseUp ==
    /\ unit /\ mnt = None /\ Formatted
    /\ mnt' = vol.store
    /\ UNCHANGED <<proc, disk, unit, app, op, counters, history>>

-----------------------------------------------------------------------------
(* Apps *)

Live(a) == app[a] \in {"starting", "running"}

appElse == <<proc, disk, fuse, op, counters, history>>

\* run_app_image refuses to start an app while the archive is not mounted.
Launch(a) ==
    /\ proc = "up" /\ ~Live(a) /\ mnt # None
    /\ app' = [app EXCEPT ![a] = "starting"]
    /\ UNCHANGED appElse

Ready(a) ==
    /\ app[a] = "starting"
    /\ app' = [app EXCEPT ![a] = "running"]
    /\ UNCHANGED appElse

StopApp(a) ==
    /\ proc = "up" /\ app[a] # "stopped"
    /\ app' = [app EXCEPT ![a] = "stopped"]
    /\ UNCHANGED appElse

\* Row, volume and mount name one store.
Agreed == vol.store = RowStore(row) /\ mnt = RowStore(row)

\* A live app writes: metadata locally, the object where the mount says.
Write(a, o) ==
    /\ Live(a) /\ mnt # None /\ Formatted /\ o \notin files
    /\ files' = files \cup {o}
    /\ store' = [store EXCEPT ![mnt][vol.name] = @ \cup {o}]
    /\ raced' = IF op.pc \in {"copy"} \cup Synced \cup Undo THEN raced \cup {o} ELSE raced
    /\ strayed' = IF Agreed THEN strayed ELSE strayed \cup {o}
    /\ UNCHANGED <<proc, row, message, vol, fuse, app, op, counters, renamed, torn>>

-----------------------------------------------------------------------------
(* configure_backend *)

\* The volume name (object prefix) of this configuration; the owner may ask for
\* one, or the zone's default is taken.
PickName(r, asked) ==
    IF r.backend = "s3" \/ (r.backend = "local" /\ r.name # Default) THEN r.name ELSE asked

\* configure_archive_backend takes the operation lock; the worker reads the row.
Configure(b, asked) ==
    /\ proc = "up" /\ op.pc = "idle" /\ nops < MaxOps
    /\ nops' = nops + 1
    /\ op' = [pc |-> IF row.backend = "s3" THEN "mount" ELSE "format",
              src |-> row, dst |-> b, name |-> PickName(row, asked), quiesced |-> {},
              listed |-> {}]
    /\ UNCHANGED <<proc, disk, fuse, app, ncrash, nflap, history>>

OpAt(p) == op.pc = p
OpGoto(p) == op' = [op EXCEPT !.pc = p]

\* Any exception before the flip is committed ends in the handler.
Abort == OpGoto(IF op.src.backend = "disabled" THEN "undoumount" ELSE "undopoint")

\* _ensure_local_volume_formatted, or format_s3_volume for a disabled zone:
\* formatting again is refused under another name, and otherwise harmless.
Format ==
    /\ OpAt("format")
    /\ \/ /\ OpGoto("mount")
          /\ IF op.src.backend = "local"
             THEN vol' = IF Formatted THEN vol ELSE [store |-> Local, name |-> op.name]
             ELSE /\ Formatted => vol.name = op.name
                  /\ vol' = [store |-> op.dst, name |-> op.name]
       \/ Abort /\ UNCHANGED vol
    /\ UNCHANGED <<proc, row, message, store, files, fuse, app, counters, history>>

EnsureMounted ==
    /\ OpAt("mount")
    /\ \/ MountWorks /\ OpGoto(IF op.src.backend = "disabled" THEN "flip" ELSE "quiesce")
       \/ MountFails /\ Abort
    /\ UNCHANGED <<proc, disk, app, counters, history>>

\* stop_running_archive_apps looks at rows that say running, and at no other;
\* it raises if a container of theirs survives.
Quiesce ==
    /\ OpAt("quiesce")
    /\ LET running == {a \in Apps : app[a] \in {"running", "dead"}}
       IN \/ \E survivors \in SUBSET {a \in running : app[a] = "running"} :
               /\ app' = [a \in Apps |-> IF a \in running \ survivors THEN "dead" ELSE app[a]]
               /\ op' = [op EXCEPT !.quiesced = running,
                                   !.pc = IF survivors = {} THEN "sync" ELSE "undopoint"]
          \/ Abort /\ UNCHANGED app
    /\ UNCHANGED <<proc, disk, fuse, counters, history>>

Source == RowStore(op.src)

\* juicefs sync of <source>/<name>/ to <bucket>/<name>/ lists the source, and
\* then copies for up to hours, while an app that was starting may write.
SyncStart ==
    /\ OpAt("sync")
    /\ op' = [op EXCEPT !.pc = "copy", !.listed = store[Source][op.name]]
    /\ renamed' = (renamed \/ op.name # vol.name)
    /\ UNCHANGED <<proc, disk, fuse, app, counters, raced, strayed, torn>>

\* Mutant: the sync moves the objects instead of copying them.
SyncMoves(o) ==
    /\ OpAt("copy") /\ o \in store[Source][op.name] \ store[op.dst][op.name]
    /\ store' = [store EXCEPT ![op.dst][op.name] = @ \cup {o}, ![Source][op.name] = @ \ {o}]
    /\ UNCHANGED <<proc, row, message, vol, files, fuse, app, op, counters, history>>

\* An object written after the listing may be copied as well, or may not.
SyncCopy(o) ==
    /\ OpAt("copy") /\ o \in store[Source][op.name] \ store[op.dst][op.name]
    /\ store' = [store EXCEPT ![op.dst][op.name] = @ \cup {o}]
    /\ UNCHANGED <<proc, row, message, vol, files, fuse, app, op, counters, history>>

\* The command succeeds when all that was listed is there; it may fail at any time.
SyncEnd ==
    /\ OpAt("copy")
    /\ \/ op.listed \subseteq store[op.dst][op.name] /\ OpGoto("repoint")
       \/ Abort
    /\ UNCHANGED <<proc, disk, fuse, app, counters, history>>

\* juicefs config: the volume's data is in the bucket from here on.  A command
\* that fails or times out may have taken effect.
Repoint ==
    /\ OpAt("repoint")
    /\ \/ OpGoto("umount") /\ vol' = [vol EXCEPT !.store = op.dst]
       \/ Abort /\ vol' \in {vol, [vol EXCEPT !.store = op.dst]}
    /\ UNCHANGED <<proc, row, message, store, files, fuse, app, counters, history>>

Umount ==
    /\ OpAt("umount")
    /\ \/ UmountWorks /\ OpGoto("remount")
       \/ UmountFails /\ Abort
    /\ UNCHANGED <<proc, disk, app, counters, history>>

Remount ==
    /\ OpAt("remount")
    /\ \/ MountWorks /\ OpGoto("flip")
       \/ MountFails /\ Abort
    /\ UNCHANGED <<proc, disk, app, counters, history>>

\* Mutant: the row names the kind of store, not the backend.
FlipToJuicefs ==
    /\ OpAt("flip")
    /\ row' = [backend |-> "juicefs", bucket |-> op.dst, name |-> op.name]
    /\ message' = FALSE /\ torn' = FALSE
    /\ OpGoto("reclaim")
    /\ UNCHANGED <<proc, vol, store, files, fuse, app, counters, raced, strayed, renamed>>

\* The row is committed, or the database refuses.
Flip ==
    /\ OpAt("flip")
    /\ \/ /\ row' = [backend |-> "s3", bucket |-> op.dst, name |-> op.name]
          /\ message' = FALSE /\ torn' = FALSE
          /\ OpGoto("reclaim")
       \/ Abort /\ UNCHANGED <<row, message, torn>>
    /\ UNCHANGED <<proc, vol, store, files, fuse, app, counters, raced, strayed, renamed>>

\* Mutant: reclaim does not ask whether source and target are one place.
ReclaimBlindly ==
    /\ OpAt("reclaim")
    /\ store' = IF op.src.backend = "disabled" THEN store
                ELSE [store EXCEPT ![Source][op.name] = {}]
    /\ OpGoto("resume")
    /\ UNCHANGED <<proc, row, message, vol, files, fuse, app, counters, history>>

\* The source's objects are deleted, all or some: the local directory whole, a
\* bucket's under the prefix unless it is the bucket we moved to.
Reclaim ==
    /\ OpAt("reclaim")
    /\ \/ /\ op.src.backend = "local"
          /\ \E left \in [VolNames -> SUBSET Objects] :
                /\ \A v \in VolNames : left[v] \in {{}, store[Local][v]}
                /\ store' = [store EXCEPT ![Local] = left]
       \/ /\ op.src.backend = "s3" /\ op.src.bucket # op.dst
          /\ \E left \in SUBSET store[Source][op.name] :
                store' = [store EXCEPT ![Source][op.name] = left]
       \/ /\ op.src.backend = "disabled" \/ (op.src.backend = "s3" /\ op.src.bucket = op.dst)
          /\ UNCHANGED store
    /\ OpGoto("resume")
    /\ UNCHANGED <<proc, row, message, vol, files, fuse, app, counters, history>>

-----------------------------------------------------------------------------
(* The handler: fail open *)

\* Mutant: the handler remounts without pointing the volume back.
UndoNothing ==
    /\ OpAt("undopoint")
    /\ OpGoto("undoumount")
    /\ UNCHANGED <<proc, disk, fuse, app, counters, history>>

\* juicefs config back to the source; if that fails a message says so.
UndoPoint ==
    /\ OpAt("undopoint")
    /\ \/ /\ Formatted /\ vol' = [vol EXCEPT !.store = Source]
          /\ OpGoto("undoumount")
          /\ UNCHANGED message
       \/ /\ vol' = vol \/ (Formatted /\ vol' = [vol EXCEPT !.store = Source])
          /\ message' \in {message, TRUE}
          /\ OpGoto("resume")
    /\ torn' = (vol'.store # Source)
    /\ UNCHANGED <<proc, row, store, files, fuse, app, counters, raced, strayed, renamed>>

UndoUmount ==
    /\ OpAt("undoumount")
    /\ \/ /\ UmountWorks
          /\ OpGoto(IF op.src.backend = "disabled" THEN "resume" ELSE "undomount")
          /\ UNCHANGED message
       \/ /\ UmountFails
          /\ OpGoto("resume")
          /\ message' \in IF op.src.backend = "disabled" THEN {message} ELSE {message, TRUE}
    /\ UNCHANGED <<proc, row, vol, store, files, app, counters, history>>

UndoMount ==
    /\ OpAt("undomount")
    /\ OpGoto("resume")
    /\ \/ MountWorks /\ UNCHANGED message
       \/ MountFails /\ message' \in {message, TRUE}
    /\ UNCHANGED <<proc, row, vol, store, files, app, counters, history>>

\* _run's finally: restart the quiesced apps if the archive is mounted.
Resume ==
    /\ OpAt("resume")
    /\ \E after \in [Apps -> AppStates] :
          /\ \A a \in Apps : IF mnt # None /\ a \in op.quiesced
                             THEN after[a] \in {"starting", "stopped", "dead"}
                             ELSE after[a] = app[a]
          /\ app' = after
    /\ op' = IdleOp
    /\ UNCHANGED <<proc, disk, fuse, counters, history>>

OpStep ==
    \/ Format \/ EnsureMounted \/ Quiesce \/ SyncStart \/ SyncEnd \/ Repoint \/ Umount \/ Remount
    \/ Flip \/ Reclaim \/ UndoPoint \/ UndoUmount \/ UndoMount \/ Resume
    \/ \E o \in Objects : SyncCopy(o)

-----------------------------------------------------------------------------
(* The router dies and comes back *)

\* The mount and the containers survive the router, but not a reboot.
Crash(reboot) ==
    /\ proc = "up" /\ ncrash < MaxCrash
    /\ proc' = "attach" /\ ncrash' = ncrash + 1
    /\ op' = IdleOp
    /\ torn' = (torn \/ op.pc \in Synced \cup Undo)
    /\ mnt' = IF reboot THEN None ELSE mnt
    /\ app' = IF reboot THEN [a \in Apps |-> IF Live(a) THEN "dead" ELSE app[a]] ELSE app
    /\ UNCHANGED <<disk, unit, nops, nflap, raced, strayed, renamed>>

\* attach_on_startup gets as far as done of its steps: naming a fresh volume,
\* formatting it, mounting it.
AttachOnStartup(done) ==
    /\ proc = "attach" /\ proc' = "up"
    /\ LET naming == row.backend = "local" /\ ~Formatted
           name == IF naming /\ row.name = Default /\ done >= 1 THEN Zone ELSE row.name
       IN /\ row' = [row EXCEPT !.name = name]
          /\ vol' = IF naming /\ done >= 2 THEN [store |-> Local, name |-> name] ELSE vol
    /\ IF row.backend = "disabled" THEN UNCHANGED <<message, fuse>>
       ELSE /\ message' = (done < 3)
            /\ IF done < 3 THEN mnt' = mnt /\ unit' \in {unit, unit \/ (done = 2 /\ mnt = None)}
               ELSE IF mnt # None THEN UNCHANGED fuse
               ELSE mnt' = vol'.store /\ unit' = TRUE
    /\ UNCHANGED <<store, files, app, op, counters, history>>

-----------------------------------------------------------------------------

Next ==
    \/ OpStep
    \/ \E b \in Buckets, asked \in VolNames : Configure(b, asked)
    \/ \E a \in Apps : Launch(a) \/ Ready(a) \/ StopApp(a)
    \/ \E a \in Apps, o \in Objects : Write(a, o)
    \/ FuseDown \/ FuseUp
    \/ \E reboot \in BOOLEAN : Crash(reboot)
    \/ \E done \in 0..3 : AttachOnStartup(done)

Spec == Init /\ [][Next]_vars

-----------------------------------------------------------------------------
(* Properties *)

\* The objects of S are in the store the volume names and in the one the live
\* mount talks to, under the volume's prefix.
Readable(S) ==
    \A s \in {vol.store, mnt} \ {None} : S \subseteq store[s][vol.name]

\* configure_backend's fail-open contract: whatever step fails, and wherever the
\* router, the machine or the mount dies, every file stays readable and no copy
\* is deleted that the volume still needs.  Excused are the objects written from
\* the listing of a migration's sync on, those written while row and volume
\* disagreed after a crash, and a sync under a foreign name.
ArchiveKept == ~renamed => Readable(files \ (raced \cup strayed))

\* "the volume is left pointing at the intact SOURCE store": once no migration
\* is under way, row and volume name the same store, unless the router died
\* half-way or the handler could not point the volume back.
FailOpen ==
    op.pc = "idle" /\ ~torn /\ Formatted /\ row.backend # "disabled" =>
        vol.store = RowStore(row)

\* "The source objects are deleted only after the switch has been committed and
\* the mount restarted against the new store."
ReclaimedLast ==
    [][\A s \in Stores : Formatted /\ ~(store[s][vol.name] \subseteq store'[s][vol.name]) =>
          /\ row.backend = "s3" /\ row.bucket # s /\ vol.store = row.bucket
          /\ mnt # s]_vars
=============================================================================
