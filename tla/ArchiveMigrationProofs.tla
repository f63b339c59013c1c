----------------------- MODULE ArchiveMigrationProofs -----------------------
(***************************************************************************)
(* Proofs about ArchiveMigration, for any number of apps, objects, buckets *)
(* and volume names, any number of migrations, crashes and FUSE restarts.  *)
(***************************************************************************)
EXTENDS ArchiveMigration, TLAPS

\* The objects ArchiveKept is about.
Good == files \ (raced \cup strayed)

-----------------------------------------------------------------------------
(* The inductive invariant *)

\* Nothing is mounted, written or moved before there is a volume.
Shape ==
    /\ mnt # None => Formatted
    /\ Formatted => vol.name \in VolNames
    /\ ~Formatted => files = {}
    /\ row.backend = "s3" => Formatted /\ row.bucket \in Buckets
    /\ proc = "attach" => op.pc = "idle"

\* What the worker has established when it gets to a step.
Worker ==
    /\ op.pc \in Forward \cup Undo => op.src = row
    /\ op.pc \in Forward \cup Undo \cup {"reclaim"} => op.dst \in Buckets
    /\ op.pc \in {"quiesce", "sync", "copy", "repoint", "umount", "remount", "undopoint",
                 "undomount"} =>
         op.src.backend # "disabled"
    /\ op.pc = "format" => op.src.backend # "s3"
    /\ op.pc \in Forward \ {"format"} => Formatted
    /\ op.pc \in {"umount", "remount", "flip"} => vol.store = op.dst
    /\ op.pc = "mount" /\ op.src.backend = "disabled" =>
         vol.store = op.dst /\ vol.name = op.name
    /\ op.pc \in {"remount", "flip"} /\ op.src.backend # "disabled" => mnt \in {None, op.dst}
    /\ op.pc = "reclaim" =>
         /\ row.backend = "s3" /\ row.bucket = op.dst
         /\ vol.store = op.dst
         /\ op.src.backend # "disabled" => mnt \in {None, op.dst}
         /\ op.src.backend = "s3" => op.src.bucket \in Buckets

\* From the listing of the sync on the worker's prefix is the volume's.
Named == ~renamed => (op.pc \in {"copy"} \cup Synced => op.name = vol.name)

\* The row's store has every good object; the sync lists them all, and past it
\* the target has them too.
Held ==
    ~renamed =>
        /\ row.backend # "disabled" /\ Formatted => Good \subseteq store[RowStore(row)][vol.name]
        /\ row.backend = "disabled" => Good = {}
        /\ op.pc = "copy" => Good \subseteq op.listed
        /\ op.pc \in Synced => Good \subseteq store[op.dst][vol.name]
        /\ Readable(Good)

\* Row and volume name one store, except between re-point and flip.
Pointed ==
    op.pc \notin Synced \cup {"undopoint"} /\ ~torn /\ Formatted /\ row.backend # "disabled" =>
        vol.store = RowStore(row)

IInv == TypeOK /\ Shape /\ Worker /\ Named /\ Held /\ Pointed

-----------------------------------------------------------------------------
(* Stores *)

StoreType == [Stores -> [VolNames -> SUBSET Objects]]

\* Writing one prefix of one store leaves every other alone.
LEMMA OnePrefix ==
    ASSUME NEW st \in StoreType, NEW s \in Stores, NEW v \in VolNames, NEW X \in SUBSET Objects
    PROVE  /\ [st EXCEPT ![s][v] = X] \in StoreType
           /\ [st EXCEPT ![s][v] = X][s][v] = X
           /\ \A s2 \in Stores, v2 \in VolNames :
                s2 # s \/ v2 # v => [st EXCEPT ![s][v] = X][s2][v2] = st[s2][v2]
  BY DEF StoreType

\* A row that is not disabled names a store.
LEMMA RowStoreIsStore ==
    ASSUME TypeOK, Shape, row.backend # "disabled"
    PROVE  RowStore(row) \in Stores /\ RowStore(row) # None
  BY StoresAssumption DEF TypeOK, Shape, RowStore, Row, Stores

LEMMA InitInv ==
    ASSUME Init
    PROVE  IInv
  <1> USE StoresAssumption, VolNamesAssumption, ArchiveBoundsAssumption, StartsAssumption
  <1>1. row \in Row /\ vol \in Volume /\ op \in Op /\ row.backend # "s3"
    BY DEF Init, LocalRow, Row, Volume, Unformatted, Op, IdleOp, Stores
  <1>2. TypeOK
    <2>1. store \in [Stores -> [VolNames -> SUBSET Objects]] /\ app \in [Apps -> AppStates]
      BY DEF Init, AppStates
    <2>2. nops \in 0..MaxOps /\ ncrash \in 0..MaxCrash /\ nflap \in 0..MaxFlap
      BY DEF Init
    <2> QED BY <1>1, <2>1, <2>2 DEF Init, TypeOK
  <1>3. Shape
    BY <1>1 DEF Init, Shape, Formatted, LocalRow, Unformatted, IdleOp
  <1>4. Worker /\ Named
    BY DEF Init, Worker, Named, IdleOp, Forward, Undo, Synced
  <1>5. Held
    BY DEF Init, Held, Good, Readable, IdleOp, Synced
  <1>6. Pointed
    BY DEF Init, Pointed, LocalRow, Unformatted, Formatted, RowStore
  <1> QED BY <1>2, <1>3, <1>4, <1>5, <1>6 DEF IInv

-----------------------------------------------------------------------------
(* The steps *)

OpPcs == Forward \cup Undo \cup {"idle", "reclaim", "resume"}

\* The worker goes on to p, or into its handler.
LEMMA GotoOp ==
    ASSUME TypeOK, NEW p \in OpPcs, OpGoto(p)
    PROVE  op' \in Op /\ op'.pc = p
  BY DEF TypeOK, OpGoto, Op, OpPcs

LEMMA AbortOp ==
    ASSUME TypeOK, Abort
    PROVE  op' \in Op
  BY GotoOp DEF Abort, OpPcs, Undo

\* What mount and umount leave behind.
LEMMA MountTypes ==
    ASSUME TypeOK, MountWorks \/ MountFails
    PROVE  mnt' \in Stores \cup {None} /\ unit' \in BOOLEAN
  <1>1. mnt' \in Stores \cup {None}
    BY DEF TypeOK, MountWorks, MountFails, Volume, fuse
  <1>2. unit' \in BOOLEAN
    BY Zenon DEF TypeOK, MountWorks, MountFails, fuse
  <1> QED BY <1>1, <1>2

LEMMA UmountTypes ==
    ASSUME TypeOK, UmountWorks \/ UmountFails
    PROVE  mnt' \in Stores \cup {None} /\ unit' \in BOOLEAN
  <1>1. mnt' \in Stores \cup {None}
    BY DEF TypeOK, UmountWorks, UmountFails
  <1>2. unit' \in BOOLEAN
    <2>1. (unit /\ mnt = None) \in BOOLEAN
      OBVIOUS
    <2> QED BY <2>1, Zenon DEF TypeOK, UmountWorks, UmountFails
  <1> QED BY <1>1, <1>2

LEMMA LaunchInv ==
    ASSUME IInv, NEW a \in Apps, Launch(a)
    PROVE  IInv'
  <1> USE StoresAssumption, VolNamesAssumption, ArchiveBoundsAssumption
  <1> USE DEF IInv
  <1>1. TypeOK'
    BY DEF TypeOK, Launch, Live, appElse, disk, fuse, counters, history, Row, Volume, Op, AppStates, Stores, Forward, Undo, Formatted, Worker, RowStore, Synced
  <1>2. Shape'
    BY DEF TypeOK, Shape, Worker, Launch, Live, appElse, disk, fuse, counters, history, Formatted, Row, Volume, Op, Stores, Forward, Undo, RowStore
  <1>3. Worker'
    BY DEF TypeOK, Shape, Worker, Launch, Live, appElse, disk, fuse, counters, history, Formatted, Row, Op, Volume, Forward, Undo, Synced, RowStore
  <1>4. Named'
    BY DEF TypeOK, Worker, Named, Launch, Live, appElse, disk, fuse, counters, history, Op, Synced
  <1>5. Held'
    BY RowStoreIsStore DEF TypeOK, Shape, Worker, Named, Held, Good, Readable, Launch, Live, appElse, disk, fuse, counters, history, Formatted, Row, Volume, Op, Stores, Forward, Synced, RowStore, Undo
  <1>6. Pointed'
    BY DEF TypeOK, Shape, Worker, Pointed, Launch, Live, appElse, disk, fuse, counters, history, Formatted, Row, Volume, Op, Synced, RowStore, Forward, Undo
  <1> QED BY <1>1, <1>2, <1>3, <1>4, <1>5, <1>6

LEMMA ReadyInv ==
    ASSUME IInv, NEW a \in Apps, Ready(a)
    PROVE  IInv'
  <1> USE StoresAssumption, VolNamesAssumption, ArchiveBoundsAssumption
  <1> USE DEF IInv
  <1>1. TypeOK'
    BY DEF TypeOK, Ready, appElse, disk, fuse, counters, history, Row, Volume, Op, AppStates, Stores, Forward, Undo, Formatted, Worker, RowStore, Synced
  <1>2. Shape'
    BY DEF TypeOK, Shape, Worker, Ready, appElse, disk, fuse, counters, history, Formatted, Row, Volume, Op, Stores, Forward, Undo, RowStore
  <1>3. Worker'
    BY DEF TypeOK, Shape, Worker, Ready, appElse, disk, fuse, counters, history, Formatted, Row, Op, Volume, Forward, Undo, Synced, RowStore
  <1>4. Named'
    BY DEF TypeOK, Worker, Named, Ready, appElse, disk, fuse, counters, history, Op, Synced
  <1>5. Held'
    BY RowStoreIsStore DEF TypeOK, Shape, Worker, Named, Held, Good, Readable, Ready, appElse, disk, fuse, counters, history, Formatted, Row, Volume, Op, Stores, Forward, Synced, RowStore, Undo
  <1>6. Pointed'
    BY DEF TypeOK, Shape, Worker, Pointed, Ready, appElse, disk, fuse, counters, history, Formatted, Row, Volume, Op, Synced, RowStore, Forward, Undo
  <1> QED BY <1>1, <1>2, <1>3, <1>4, <1>5, <1>6

LEMMA StopAppInv ==
    ASSUME IInv, NEW a \in Apps, StopApp(a)
    PROVE  IInv'
  <1> USE StoresAssumption, VolNamesAssumption, ArchiveBoundsAssumption
  <1> USE DEF IInv
  <1>1. TypeOK'
    BY DEF TypeOK, StopApp, appElse, disk, fuse, counters, history, Row, Volume, Op, AppStates, Stores, Forward, Undo, Formatted, Worker, RowStore, Synced
  <1>2. Shape'
    BY DEF TypeOK, Shape, Worker, StopApp, appElse, disk, fuse, counters, history, Formatted, Row, Volume, Op, Stores, Forward, Undo, RowStore
  <1>3. Worker'
    BY DEF TypeOK, Shape, Worker, StopApp, appElse, disk, fuse, counters, history, Formatted, Row, Op, Volume, Forward, Undo, Synced, RowStore
  <1>4. Named'
    BY DEF TypeOK, Worker, Named, StopApp, appElse, disk, fuse, counters, history, Op, Synced
  <1>5. Held'
    BY RowStoreIsStore DEF TypeOK, Shape, Worker, Named, Held, Good, Readable, StopApp, appElse, disk, fuse, counters, history, Formatted, Row, Volume, Op, Stores, Forward, Synced, RowStore, Undo
  <1>6. Pointed'
    BY DEF TypeOK, Shape, Worker, Pointed, StopApp, appElse, disk, fuse, counters, history, Formatted, Row, Volume, Op, Synced, RowStore, Forward, Undo
  <1> QED BY <1>1, <1>2, <1>3, <1>4, <1>5, <1>6

LEMMA FuseDownInv ==
    ASSUME IInv, FuseDown
    PROVE  IInv'
  <1> USE StoresAssumption, VolNamesAssumption, ArchiveBoundsAssumption
  <1> USE DEF IInv
  <1>1. TypeOK'
    BY DEF TypeOK, FuseDown, disk, fuse, counters, history, Row, Volume, Op, AppStates, Stores, Forward, Undo, Formatted, Worker, RowStore, Synced
  <1>2. Shape'
    BY DEF TypeOK, Shape, Worker, FuseDown, disk, fuse, counters, history, Formatted, Row, Volume, Op, Stores, Forward, Undo, RowStore
  <1>3. Worker'
    BY DEF TypeOK, Shape, Worker, FuseDown, disk, fuse, counters, history, Formatted, Row, Op, Volume, Forward, Undo, Synced, RowStore
  <1>4. Named'
    BY DEF TypeOK, Worker, Named, FuseDown, disk, fuse, counters, history, Op, Synced
  <1>5. Held'
    BY RowStoreIsStore DEF TypeOK, Shape, Worker, Named, Held, Good, Readable, FuseDown, disk, fuse, counters, history, Formatted, Row, Volume, Op, Stores, Forward, Synced, RowStore, Undo
  <1>6. Pointed'
    BY DEF TypeOK, Shape, Worker, Pointed, FuseDown, disk, fuse, counters, history, Formatted, Row, Volume, Op, Synced, RowStore, Forward, Undo
  <1> QED BY <1>1, <1>2, <1>3, <1>4, <1>5, <1>6

LEMMA FuseUpInv ==
    ASSUME IInv, FuseUp
    PROVE  IInv'
  <1> USE StoresAssumption, VolNamesAssumption, ArchiveBoundsAssumption
  <1> USE DEF IInv
  <1>1. TypeOK'
    BY DEF TypeOK, FuseUp, disk, fuse, counters, history, Row, Volume, Op, AppStates, Stores, Forward, Undo, Formatted, Worker, RowStore, Synced
  <1>2. Shape'
    BY DEF TypeOK, Shape, Worker, FuseUp, disk, fuse, counters, history, Formatted, Row, Volume, Op, Stores, Forward, Undo, RowStore
  <1>3. Worker'
    BY DEF TypeOK, Shape, Worker, FuseUp, disk, fuse, counters, history, Formatted, Row, Op, Volume, Forward, Undo, Synced, RowStore
  <1>4. Named'
    BY DEF TypeOK, Worker, Named, FuseUp, disk, fuse, counters, history, Op, Synced
  <1>5. Held'
    BY RowStoreIsStore DEF TypeOK, Shape, Worker, Named, Held, Good, Readable, FuseUp, disk, fuse, counters, history, Formatted, Row, Volume, Op, Stores, Forward, Synced, RowStore, Undo
  <1>6. Pointed'
    BY DEF TypeOK, Shape, Worker, Pointed, FuseUp, disk, fuse, counters, history, Formatted, Row, Volume, Op, Synced, RowStore, Forward, Undo
  <1> QED BY <1>1, <1>2, <1>3, <1>4, <1>5, <1>6

LEMMA WriteInv ==
    ASSUME IInv, NEW a \in Apps, NEW o \in Objects, Write(a, o)
    PROVE  IInv'
  <1> USE StoresAssumption, VolNamesAssumption, ArchiveBoundsAssumption
  <1> USE DEF IInv
  <1>1. TypeOK'
    <2>1. store' \in [Stores -> [VolNames -> SUBSET Objects]]
      BY DEF TypeOK, Shape, Write
    <2> QED BY <2>1 DEF TypeOK, Write, fuse, counters
  <1>2. Shape'
    BY DEF TypeOK, Shape, Worker, Write, Live, Agreed, disk, fuse, counters, history, Formatted, Row, Volume, Op, Stores, Forward, Undo, RowStore
  <1>3. Worker'
    BY DEF TypeOK, Shape, Worker, Write, Live, Agreed, disk, fuse, counters, history, Formatted, Row, Op, Volume, Forward, Undo, Synced, RowStore
  <1>4. Named'
    BY DEF TypeOK, Worker, Named, Write, Live, Agreed, disk, fuse, counters, history, Op, Synced
  <1>5. Held'
    BY RowStoreIsStore DEF TypeOK, Shape, Worker, Named, Held, Good, Readable, Write, Live, Agreed, disk, fuse, counters, history, Formatted, Row, Volume, Op, Stores, Forward, Synced, RowStore, Undo
  <1>6. Pointed'
    BY DEF TypeOK, Shape, Worker, Pointed, Write, Live, Agreed, disk, fuse, counters, history, Formatted, Row, Volume, Op, Synced, RowStore, Forward, Undo
  <1> QED BY <1>1, <1>2, <1>3, <1>4, <1>5, <1>6

LEMMA ConfigureInv ==
    ASSUME IInv, NEW b \in Buckets, NEW asked \in VolNames, Configure(b, asked)
    PROVE  IInv'
  <1> USE StoresAssumption, VolNamesAssumption, ArchiveBoundsAssumption
  <1> USE DEF IInv
  <1>1. TypeOK'
    BY DEF TypeOK, Configure, PickName, disk, fuse, counters, history, Row, Volume, Op, AppStates, Stores, Forward, Undo, Formatted, Worker, RowStore, Synced
  <1>2. Shape'
    BY DEF TypeOK, Shape, Worker, Configure, PickName, disk, fuse, counters, history, Formatted, Row, Volume, Op, Stores, Forward, Undo, RowStore
  <1>3. Worker'
    BY DEF TypeOK, Shape, Worker, Configure, PickName, disk, fuse, counters, history, Formatted, Row, Op, Volume, Forward, Undo, Synced, RowStore
  <1>4. Named'
    BY DEF TypeOK, Worker, Named, Configure, PickName, disk, fuse, counters, history, Op, Synced
  <1>5. Held'
    BY RowStoreIsStore DEF TypeOK, Shape, Worker, Named, Held, Good, Readable, Configure, PickName, disk, fuse, counters, history, Formatted, Row, Volume, Op, Stores, Forward, Synced, RowStore, Undo
  <1>6. Pointed'
    BY DEF TypeOK, Shape, Worker, Pointed, Configure, PickName, disk, fuse, counters, history, Formatted, Row, Volume, Op, Synced, RowStore, Forward, Undo
  <1> QED BY <1>1, <1>2, <1>3, <1>4, <1>5, <1>6

LEMMA FormatInv ==
    ASSUME IInv, Format
    PROVE  IInv'
  <1> USE StoresAssumption, VolNamesAssumption, ArchiveBoundsAssumption
  <1> USE DEF IInv
  <1>1. TypeOK'
    BY DEF TypeOK, Format, disk, fuse, counters, history, OpAt, OpGoto, Abort, Row, Volume, Op, AppStates, Stores, Forward, Undo, Formatted, Worker, RowStore, Synced
  <1>2. Shape'
    BY DEF TypeOK, Shape, Worker, Format, disk, fuse, counters, history, OpAt, OpGoto, Abort, Formatted, Row, Volume, Op, Stores, Forward, Undo, RowStore
  <1>3. Worker'
    BY DEF TypeOK, Shape, Worker, Format, disk, fuse, counters, history, OpAt, OpGoto, Abort, Formatted, Row, Op, Volume, Forward, Undo, Synced, RowStore
  <1>4. Named'
    BY DEF TypeOK, Worker, Named, Format, disk, fuse, counters, history, OpAt, OpGoto, Abort, Op, Synced
  <1>5. Held'
    <2>1. CASE vol' = vol
      BY <2>1, <1>3 DEF Format, Held, Good, Readable, Formatted, OpAt, OpGoto, Abort, Synced, fuse, history, TypeOK, Op
    <2>2. CASE ~Formatted
      BY <2>2, <1>1, <1>2, <1>3, RowStoreIsStore DEF Format, Held, Good, Readable, Formatted, Shape, OpAt, OpGoto, Abort, Synced, fuse, history, TypeOK, Op
    <2>3. CASE Formatted /\ vol' # vol
      <3>1. op.src.backend = "disabled" /\ row.backend = "disabled" /\ op'.pc = "mount"
        BY <2>3 DEF Format, Worker, OpAt, OpGoto, Abort, TypeOK, Op, Row, Forward
      <3> QED BY <3>1 DEF Format, Held, Good, Readable, Synced, history
    <2> QED BY <2>1, <2>2, <2>3
  <1>6. Pointed'
    <2>1. op.src = row /\ op.pc = "format"
      BY DEF Format, Worker, OpAt, Forward
    <2>2. CASE row.backend = "disabled"
      BY <2>2 DEF Format, Pointed
    <2>3. CASE row.backend = "local"
      BY <2>1, <2>3 DEF Format, Pointed, RowStore, Formatted, OpGoto, Abort, Synced, history, TypeOK, Op
    <2>4. CASE row.backend = "s3"
      BY <2>1, <2>4 DEF Format, Worker, Pointed
    <2> QED BY <2>2, <2>3, <2>4 DEF TypeOK, Row
  <1> QED BY <1>1, <1>2, <1>3, <1>4, <1>5, <1>6

LEMMA EnsureMountedInv ==
    ASSUME IInv, EnsureMounted
    PROVE  IInv'
  <1> USE StoresAssumption, VolNamesAssumption, ArchiveBoundsAssumption
  <1> USE DEF IInv
  <1>1. TypeOK'
    <2>1. op' \in Op
      BY GotoOp, AbortOp DEF EnsureMounted, OpPcs, Forward
    <2> QED BY <2>1, MountTypes DEF TypeOK, EnsureMounted, disk, counters, history
  <1>2. Shape'
    BY DEF TypeOK, Shape, Worker, EnsureMounted, MountWorks, MountFails, disk, fuse, counters, history, OpAt, OpGoto, Abort, Formatted, Row, Volume, Op, Stores, Forward, Undo, RowStore
  <1>3. Worker'
    <2>1. op.src = row /\ op.dst \in Buckets /\ op.pc = "mount" /\ Formatted
      BY DEF EnsureMounted, Worker, OpAt, Forward
    <2>2. op' = [op EXCEPT !.pc = op'.pc] /\ row' = row /\ vol' = vol
      BY DEF EnsureMounted, OpGoto, Abort, TypeOK, Op, disk
    <2>3. CASE row.backend = "disabled"
      <3>1. op'.pc \in {"flip", "undoumount"}
        BY <2>1, <2>3 DEF EnsureMounted, OpGoto, Abort, TypeOK, Op
      <3> QED BY <2>1, <2>2, <2>3, <3>1 DEF Worker, Formatted, Forward, Undo, TypeOK, Op
    <2>4. CASE row.backend # "disabled"
      <3>1. op'.pc \in {"quiesce", "undopoint"}
        BY <2>1, <2>4 DEF EnsureMounted, OpGoto, Abort, TypeOK, Op
      <3> QED BY <2>1, <2>2, <2>4, <3>1 DEF Worker, Formatted, Forward, Undo, TypeOK, Op
    <2> QED BY <2>3, <2>4
  <1>4. Named'
    BY DEF TypeOK, Worker, Named, EnsureMounted, MountWorks, MountFails, disk, fuse, counters, history, OpAt, OpGoto, Abort, Op, Synced
  <1>5. Held'
    <2>1. op.src = row /\ mnt' \in {mnt, vol.store, None}
      BY DEF EnsureMounted, Worker, MountWorks, MountFails, OpAt, Forward, fuse
    <2>2. op'.pc \in Synced \cup {"copy"} => row.backend = "disabled"
      BY <2>1 DEF EnsureMounted, OpGoto, Abort, Synced, TypeOK, Op
    <2> QED BY <2>1, <2>2 DEF EnsureMounted, Held, Good, Readable, Formatted, disk, history
  <1>6. Pointed'
    BY DEF TypeOK, Shape, Worker, Pointed, EnsureMounted, MountWorks, MountFails, disk, fuse, counters, history, OpAt, OpGoto, Abort, Formatted, Row, Volume, Op, Synced, RowStore, Forward, Undo
  <1> QED BY <1>1, <1>2, <1>3, <1>4, <1>5, <1>6

LEMMA QuiesceInv ==
    ASSUME IInv, Quiesce
    PROVE  IInv'
  <1> USE StoresAssumption, VolNamesAssumption, ArchiveBoundsAssumption
  <1> USE DEF IInv
  <1>1. TypeOK'
    <2>1. op' \in Op
      <3>1. CASE Abort
        BY <3>1, AbortOp
      <3>2. CASE ~Abort
        <4> DEFINE running == {x \in Apps : app[x] \in {"running", "dead"}}
        <4>1. PICK q \in {"sync", "undopoint"} : op' = [op EXCEPT !.quiesced = running, !.pc = q]
          BY <3>2 DEF Quiesce
        <4>2. running \in SUBSET Apps /\ q \in OpPcs
          BY DEF OpPcs, Forward, Undo
        <4> QED BY <4>1, <4>2 DEF TypeOK, Op, OpPcs
      <3> QED BY <3>1, <3>2
    <2>2. app' \in [Apps -> AppStates]
      BY DEF Quiesce, TypeOK, AppStates
    <2> QED BY <2>1, <2>2 DEF TypeOK, Quiesce, disk, fuse, counters, history
  <1>2. Shape'
    BY DEF TypeOK, Shape, Worker, Quiesce, disk, fuse, counters, history, OpAt, OpGoto, Abort, Formatted, Row, Volume, Op, Stores, Forward, Undo, RowStore
  <1>3. Worker'
    <2>1. op.src.backend # "disabled" /\ op.pc = "quiesce"
      BY DEF Worker, Quiesce, OpAt
    <2>2. op'.pc \in {"sync", "undopoint"} /\ op'.src = op.src /\ op'.dst = op.dst
      <3>1. CASE Abort
        BY <2>1, <3>1 DEF TypeOK, OpGoto, Abort, Op
      <3>2. CASE ~Abort
        <4> DEFINE running == {x \in Apps : app[x] \in {"running", "dead"}}
        <4>1. PICK q \in {"sync", "undopoint"} : op' = [op EXCEPT !.quiesced = running, !.pc = q]
          BY <3>2 DEF Quiesce
        <4> QED BY <4>1 DEF TypeOK, Op
      <3> QED BY <3>1, <3>2
    <2>3. UNCHANGED <<row, vol, mnt>>
      BY DEF Quiesce, disk, fuse
    <2>4. op.src = row /\ op.dst \in Buckets /\ Formatted
      BY <2>1 DEF Worker, Forward
    <2> QED BY <2>1, <2>2, <2>3, <2>4 DEF Worker, Formatted, Forward, Undo
  <1>4. Named'
    BY DEF TypeOK, Worker, Named, Quiesce, disk, fuse, counters, history, OpAt, OpGoto, Abort, Op, Synced
  <1>5. Held'
    <2>1. op'.pc \notin Synced \cup {"copy"}
      BY DEF Quiesce, OpGoto, Abort, Synced, TypeOK, Op
    <2> QED BY <2>1 DEF Quiesce, Held, Good, Readable, Formatted, disk, fuse, history
  <1>6. Pointed'
    BY DEF TypeOK, Shape, Worker, Pointed, Quiesce, disk, fuse, counters, history, OpAt, OpGoto, Abort, Formatted, Row, Volume, Op, Synced, RowStore, Forward, Undo
  <1> QED BY <1>1, <1>2, <1>3, <1>4, <1>5, <1>6

LEMMA SyncStartInv ==
    ASSUME IInv, SyncStart
    PROVE  IInv'
  <1> USE StoresAssumption, VolNamesAssumption, ArchiveBoundsAssumption
  <1> USE DEF IInv
  <1>0. /\ op.pc = "sync" /\ op.src = row /\ op.dst \in Buckets /\ Formatted
        /\ row.backend # "disabled" /\ Source = RowStore(row)
        /\ Source \in Stores /\ op.name \in VolNames
    BY RowStoreIsStore DEF SyncStart, Worker, Source, OpAt, Forward, TypeOK, Op
  <1>1. TypeOK'
    <2>1. store[Source][op.name] \in SUBSET Objects
      BY <1>0 DEF TypeOK
    <2>2. op' \in Op
      BY <2>1 DEF SyncStart, TypeOK, Op, Forward
    <2>3. renamed' \in BOOLEAN
      BY Zenon DEF SyncStart, TypeOK
    <2> QED BY <2>2, <2>3 DEF TypeOK, SyncStart, disk, fuse, counters
  <1>2. Shape'
    BY <1>0 DEF SyncStart, Shape, Formatted, disk, fuse, TypeOK, Op
  <1>3. Worker'
    BY <1>0 DEF SyncStart, Worker, Formatted, Forward, Undo, disk, fuse, TypeOK, Op
  <1>4. Named'
    BY <1>0 DEF SyncStart, Named, Synced, disk, TypeOK, Op
  <1>5. Held'
    <2>1. op'.pc = "copy" /\ op'.listed = store[Source][op.name]
      BY DEF SyncStart, TypeOK, Op
    <2>2. UNCHANGED <<row, vol, mnt, store, Good>> /\ (~renamed' => ~renamed /\ op.name = vol.name)
      BY DEF SyncStart, Good, disk, fuse
    <2> QED BY <1>0, <2>1, <2>2 DEF Held, Readable, Formatted, RowStore, Synced
  <1>6. Pointed'
    BY <1>0 DEF SyncStart, Pointed, Formatted, RowStore, Synced, disk, TypeOK, Op
  <1> QED BY <1>1, <1>2, <1>3, <1>4, <1>5, <1>6

\* A copy adds to the target, and takes nothing from anywhere.
LEMMA SyncCopyAdds ==
    ASSUME IInv, NEW o \in Objects, SyncCopy(o)
    PROVE  /\ store' \in [Stores -> [VolNames -> SUBSET Objects]]
           /\ \A s \in Stores, v \in VolNames : store[s][v] \subseteq store'[s][v]
  <1>1. op.dst \in Stores /\ op.name \in VolNames /\ store \in StoreType
    BY DEF IInv, SyncCopy, Worker, OpAt, Forward, Stores, TypeOK, Op, StoreType
  <1>2. store[op.dst][op.name] \cup {o} \in SUBSET Objects
    BY <1>1 DEF StoreType
  <1>3. store' = [store EXCEPT ![op.dst][op.name] = store[op.dst][op.name] \cup {o}]
    BY DEF SyncCopy
  <1> QED BY <1>1, <1>2, <1>3, OnePrefix DEF StoreType

LEMMA SyncCopyInv ==
    ASSUME IInv, NEW o \in Objects, SyncCopy(o)
    PROVE  IInv'
  <1> USE StoresAssumption, VolNamesAssumption, ArchiveBoundsAssumption
  <1> USE DEF IInv
  <1>1. TypeOK'
    BY SyncCopyAdds DEF TypeOK, SyncCopy, fuse, counters, history
  <1>2. Shape' /\ Worker' /\ Named' /\ Pointed'
    BY DEF SyncCopy, Shape, Worker, Named, Pointed, Formatted, RowStore, fuse, history
  <1>3. Held'
    <2>1. UNCHANGED <<row, vol, mnt, op, Good, renamed>>
      BY DEF SyncCopy, Good, fuse, history
    <2>2. /\ row.backend # "disabled" => RowStore(row) \in Stores
          /\ Formatted => vol.name \in VolNames
          /\ \A s \in {vol.store, mnt} \ {None} : s \in Stores /\ Formatted
          /\ op.pc = "copy"
      BY RowStoreIsStore DEF TypeOK, Volume, Shape, Formatted, SyncCopy, OpAt
    <2> QED BY <2>1, <2>2, SyncCopyAdds DEF Held, Readable, Formatted, RowStore, Synced
  <1> QED BY <1>1, <1>2, <1>3

LEMMA SyncEndInv ==
    ASSUME IInv, SyncEnd
    PROVE  IInv'
  <1> USE StoresAssumption, VolNamesAssumption, ArchiveBoundsAssumption
  <1> USE DEF IInv
  <1>0. /\ op.pc = "copy" /\ op.src = row /\ op.dst \in Buckets /\ Formatted
        /\ op.src.backend # "disabled"
    BY DEF SyncEnd, Worker, OpAt, Forward
  <1>1. /\ op'.pc \in {"repoint", "undopoint"}
        /\ op'.pc = "repoint" => op.listed \subseteq store[op.dst][op.name]
        /\ op'.src = op.src /\ op'.dst = op.dst /\ op'.name = op.name
    BY <1>0 DEF SyncEnd, OpGoto, Abort, TypeOK, Op
  <1>2. TypeOK'
    BY GotoOp, AbortOp DEF SyncEnd, OpPcs, Forward, TypeOK, disk, fuse, counters, history
  <1>3. Shape' /\ Worker' /\ Named' /\ Pointed'
    BY <1>0, <1>1 DEF SyncEnd, Shape, Worker, Named, Pointed, Formatted, RowStore, Forward, Undo,
       Synced, disk, fuse, history
  <1>4. Held'
    BY <1>0, <1>1 DEF SyncEnd, Held, Good, Readable, Formatted, RowStore, Named, Synced, disk, fuse, history
  <1> QED BY <1>2, <1>3, <1>4

LEMMA RepointInv ==
    ASSUME IInv, Repoint
    PROVE  IInv'
  <1> USE StoresAssumption, VolNamesAssumption, ArchiveBoundsAssumption
  <1> USE DEF IInv
  <1>1. TypeOK'
    BY DEF TypeOK, Repoint, disk, fuse, counters, history, OpAt, OpGoto, Abort, Row, Volume, Op, AppStates, Stores, Forward, Undo, Formatted, Worker, RowStore, Synced
  <1>2. Shape'
    BY DEF TypeOK, Shape, Worker, Repoint, disk, fuse, counters, history, OpAt, OpGoto, Abort, Formatted, Row, Volume, Op, Stores, Forward, Undo, RowStore
  <1>3. Worker'
    BY DEF TypeOK, Shape, Worker, Repoint, disk, fuse, counters, history, OpAt, OpGoto, Abort, Formatted, Row, Op, Volume, Forward, Undo, Synced, RowStore
  <1>4. Named'
    BY DEF TypeOK, Worker, Named, Repoint, history, OpAt, OpGoto, Abort, Op, Synced, Volume
  <1>5. Held'
    BY RowStoreIsStore DEF TypeOK, Shape, Worker, Named, Held, Good, Readable, Repoint, disk, fuse, counters, history, OpAt, OpGoto, Abort, Formatted, Row, Volume, Op, Stores, Forward, Synced, RowStore, Undo
  <1>6. Pointed'
    BY DEF TypeOK, Shape, Worker, Pointed, Repoint, disk, fuse, counters, history, OpAt, OpGoto, Abort, Formatted, Row, Volume, Op, Synced, RowStore, Forward, Undo
  <1> QED BY <1>1, <1>2, <1>3, <1>4, <1>5, <1>6

LEMMA UmountInv ==
    ASSUME IInv, Umount
    PROVE  IInv'
  <1> USE StoresAssumption, VolNamesAssumption, ArchiveBoundsAssumption
  <1> USE DEF IInv
  <1>1. TypeOK'
    <2>1. op' \in Op
      BY GotoOp, AbortOp DEF Umount, OpPcs, Forward
    <2> QED BY <2>1, UmountTypes DEF TypeOK, Umount, disk, counters, history
  <1>2. Shape'
    BY DEF TypeOK, Shape, Worker, Umount, UmountWorks, UmountFails, disk, fuse, counters, history, OpAt, OpGoto, Abort, Formatted, Row, Volume, Op, Stores, Forward, Undo, RowStore
  <1>3. Worker'
    BY ZenonT(60) DEF TypeOK, Shape, Worker, Umount, UmountWorks, UmountFails, disk, fuse, counters, history, OpAt, OpGoto, Abort, Formatted, Row, Op, Volume, Forward, Undo, Synced, RowStore
  <1>4. Named'
    BY DEF TypeOK, Worker, Named, Umount, UmountWorks, UmountFails, disk, fuse, counters, history, OpAt, OpGoto, Abort, Op, Synced
  <1>5. Held'
    BY RowStoreIsStore, ZenonT(60) DEF TypeOK, Shape, Worker, Named, Held, Good, Readable, Umount, UmountWorks, UmountFails, disk, fuse, counters, history, OpAt, OpGoto, Abort, Formatted, Row, Volume, Op, Stores, Forward, Synced, RowStore, Undo
  <1>6. Pointed'
    BY DEF TypeOK, Shape, Worker, Pointed, Umount, UmountWorks, UmountFails, disk, fuse, counters, history, OpAt, OpGoto, Abort, Formatted, Row, Volume, Op, Synced, RowStore, Forward, Undo
  <1> QED BY <1>1, <1>2, <1>3, <1>4, <1>5, <1>6

LEMMA RemountInv ==
    ASSUME IInv, Remount
    PROVE  IInv'
  <1> USE StoresAssumption, VolNamesAssumption, ArchiveBoundsAssumption
  <1> USE DEF IInv
  <1>1. TypeOK'
    <2>1. op' \in Op
      BY GotoOp, AbortOp DEF Remount, OpPcs, Forward
    <2> QED BY <2>1, MountTypes DEF TypeOK, Remount, disk, counters, history
  <1>2. Shape'
    BY DEF TypeOK, Shape, Worker, Remount, MountWorks, MountFails, disk, fuse, counters, history, OpAt, OpGoto, Abort, Formatted, Row, Volume, Op, Stores, Forward, Undo, RowStore
  <1>3. Worker'
    BY ZenonT(60) DEF TypeOK, Shape, Worker, Remount, MountWorks, MountFails, disk, fuse, counters, history, OpAt, OpGoto, Abort, Formatted, Row, Op, Volume, Forward, Undo, Synced, RowStore
  <1>4. Named'
    BY DEF TypeOK, Worker, Named, Remount, MountWorks, MountFails, disk, fuse, counters, history, OpAt, OpGoto, Abort, Op, Synced
  <1>5. Held'
    BY RowStoreIsStore, ZenonT(60) DEF TypeOK, Shape, Worker, Named, Held, Good, Readable, Remount, MountWorks, MountFails, disk, fuse, counters, history, OpAt, OpGoto, Abort, Formatted, Row, Volume, Op, Stores, Forward, Synced, RowStore, Undo
  <1>6. Pointed'
    BY DEF TypeOK, Shape, Worker, Pointed, Remount, MountWorks, MountFails, disk, fuse, counters, history, OpAt, OpGoto, Abort, Formatted, Row, Volume, Op, Synced, RowStore, Forward, Undo
  <1> QED BY <1>1, <1>2, <1>3, <1>4, <1>5, <1>6

LEMMA FlipInv ==
    ASSUME IInv, Flip
    PROVE  IInv'
  <1> USE StoresAssumption, VolNamesAssumption, ArchiveBoundsAssumption
  <1> USE DEF IInv
  <1>1. TypeOK'
    <2>1. op' \in Op
      BY GotoOp, AbortOp DEF Flip, OpPcs
    <2>2. row' \in Row
      BY DEF Flip, TypeOK, Row, Op, Worker, OpAt, Forward
    <2>3. message' \in BOOLEAN /\ torn' \in BOOLEAN
      BY Zenon DEF Flip, TypeOK
    <2> QED BY <2>1, <2>2, <2>3 DEF TypeOK, Flip, fuse, counters
  <1>2. Shape'
    BY DEF TypeOK, Shape, Worker, Flip, disk, fuse, counters, history, OpAt, OpGoto, Abort, Formatted, Row, Volume, Op, Stores, Forward, Undo, RowStore
  <1>3. Worker'
    BY DEF TypeOK, Shape, Worker, Flip, disk, fuse, counters, history, OpAt, OpGoto, Abort, Formatted, Row, Op, Volume, Forward, Undo, Synced, RowStore
  <1>4. Named'
    BY DEF TypeOK, Worker, Named, Flip, disk, fuse, counters, history, OpAt, OpGoto, Abort, Op, Synced
  <1>5. Held'
    BY RowStoreIsStore DEF TypeOK, Shape, Worker, Named, Held, Good, Readable, Flip, disk, fuse, counters, history, OpAt, OpGoto, Abort, Formatted, Row, Volume, Op, Stores, Forward, Synced, RowStore, Undo
  <1>6. Pointed'
    BY DEF TypeOK, Shape, Worker, Pointed, Flip, disk, fuse, counters, history, OpAt, OpGoto, Abort, Formatted, Row, Volume, Op, Synced, RowStore, Forward, Undo
  <1> QED BY <1>1, <1>2, <1>3, <1>4, <1>5, <1>6

\* Reclaiming touches neither the store of the committed row nor the mount's.
LEMMA ReclaimDeletes ==
    ASSUME IInv, Reclaim
    PROVE  /\ store' \in [Stores -> [VolNames -> SUBSET Objects]]
           /\ \A s \in Stores : ~(store[s][vol.name] = store'[s][vol.name]) =>
                row.bucket # s /\ mnt # s
  <1> USE StoresAssumption DEF IInv
  <1>1. /\ row.backend = "s3" /\ row.bucket = op.dst /\ op.dst \in Buckets
        /\ op.src.backend # "disabled" => mnt \in {None, op.dst}
        /\ op.name \in VolNames /\ vol.name \in VolNames /\ op.src \in Row
        /\ store \in StoreType
    BY DEF Reclaim, OpAt, Worker, TypeOK, Op, Shape, StoreType
  <1>2. CASE op.src.backend = "local"
    <2>1. PICK left \in [VolNames -> SUBSET Objects] : store' = [store EXCEPT ![Local] = left]
      BY <1>2 DEF Reclaim
    <2> QED BY <1>1, <1>2, <2>1 DEF Stores, StoreType
  <1>3. CASE op.src.backend = "s3" /\ op.src.bucket # op.dst
    <2>1. Source = op.src.bucket /\ Source \in Stores
      BY <1>3 DEF Source, RowStore, Reclaim, OpAt, Worker, Stores
    <2>2. PICK left \in SUBSET store[Source][op.name] : store' = [store EXCEPT ![Source][op.name] = left]
      BY <1>3 DEF Reclaim
    <2>3. left \in SUBSET Objects
      BY <1>1, <2>1, <2>2 DEF StoreType
    <2>4. \A s \in Stores : s # Source => store'[s][vol.name] = store[s][vol.name]
      BY <1>1, <2>1, <2>2, <2>3, OnePrefix
    <2>5. store' \in StoreType
      BY <1>1, <2>1, <2>2, <2>3, OnePrefix
    <2> QED BY <1>1, <1>3, <2>1, <2>4, <2>5 DEF StoreType, Stores
  <1>4. CASE store' = store
    BY <1>1, <1>4 DEF StoreType
  <1> QED BY <1>1, <1>2, <1>3, <1>4 DEF Reclaim, Row

LEMMA ReclaimInv ==
    ASSUME IInv, Reclaim
    PROVE  IInv'
  <1> USE StoresAssumption, VolNamesAssumption, ArchiveBoundsAssumption
  <1> USE DEF IInv
  <1>1. TypeOK'
    <2>1. op' \in Op
      BY GotoOp DEF Reclaim, OpPcs
    <2> QED BY <2>1, ReclaimDeletes DEF TypeOK, Reclaim, fuse, counters, history
  <1>2. Shape'
    BY DEF TypeOK, Shape, Worker, Reclaim, Source, disk, fuse, counters, history, OpAt, OpGoto, Abort, Formatted, Row, Volume, Op, Stores, Forward, Undo, RowStore
  <1>3. Worker'
    BY DEF TypeOK, Shape, Worker, Reclaim, Source, disk, fuse, counters, history, OpAt, OpGoto, Abort, Formatted, Row, Op, Volume, Forward, Undo, Synced, RowStore
  <1>4. Named'
    BY DEF TypeOK, Worker, Named, Reclaim, Source, disk, fuse, counters, history, OpAt, OpGoto, Abort, Op, Synced
  <1>5. Held'
    <2>1. op'.pc \notin Synced \cup {"copy"} /\ Good' = Good /\ row' = row /\ vol' = vol /\ mnt' = mnt /\ renamed' = renamed
      BY DEF Reclaim, OpGoto, Synced, Good, TypeOK, Op, fuse, history
    <2>2. Formatted /\ vol.name \in VolNames /\ row.backend = "s3" /\ vol.store = row.bucket
      BY DEF Reclaim, OpAt, Shape, Worker
    <2>3. \A s \in Stores : s = row.bucket \/ s = mnt => store'[s][vol.name] = store[s][vol.name]
      BY <2>2, ReclaimDeletes
    <2>4. row.bucket \in Stores /\ (mnt # None => mnt \in Stores)
      BY <2>2 DEF Shape, TypeOK, Stores
    <2> QED BY <2>1, <2>2, <2>3, <2>4 DEF Held, Readable, RowStore, Formatted
  <1>6. Pointed'
    BY DEF TypeOK, Shape, Worker, Pointed, Reclaim, Source, disk, fuse, counters, history, OpAt, OpGoto, Abort, Formatted, Row, Volume, Op, Synced, RowStore, Forward, Undo
  <1> QED BY <1>1, <1>2, <1>3, <1>4, <1>5, <1>6

LEMMA UndoPointInv ==
    ASSUME IInv, UndoPoint
    PROVE  IInv'
  <1> USE StoresAssumption, VolNamesAssumption, ArchiveBoundsAssumption
  <1> USE DEF IInv
  <1>1. TypeOK'
    <2>1. op' \in Op
      BY GotoOp DEF UndoPoint, OpPcs, Undo
    <2>2. Source \in Stores
      BY RowStoreIsStore DEF UndoPoint, Worker, Source, OpAt, Undo
    <2>3. vol' \in Volume
      BY <2>2 DEF UndoPoint, TypeOK, Volume
    <2>4. message' \in BOOLEAN /\ torn' \in BOOLEAN
      BY Zenon DEF UndoPoint, TypeOK
    <2> QED BY <2>1, <2>3, <2>4 DEF TypeOK, UndoPoint, fuse, counters
  <1>2. Shape'
    <2>1. Source # None
      BY RowStoreIsStore DEF UndoPoint, Worker, Source, OpAt, Undo
    <2>2. vol'.name = vol.name /\ Formatted' = Formatted
      BY <2>1 DEF UndoPoint, TypeOK, Volume, Formatted
    <2> QED BY <2>2 DEF UndoPoint, Shape, OpAt, OpGoto, fuse, TypeOK, Op
  <1>3. Worker'
    BY ZenonT(60) DEF TypeOK, Shape, Worker, UndoPoint, Source, disk, fuse, counters, history, OpAt, OpGoto, Abort, Formatted, Row, Op, Volume, Forward, Undo, Synced, RowStore
  <1>4. Named'
    BY DEF TypeOK, Worker, Named, UndoPoint, Source, disk, fuse, counters, history, OpAt, OpGoto, Abort, Op, Synced
  <1>5. Held'
    <2>1. Source = RowStore(row) /\ Source # None /\ row.backend # "disabled"
      BY RowStoreIsStore DEF UndoPoint, Worker, Source, OpAt, Undo
    <2>2. vol'.name = vol.name /\ Formatted' = Formatted /\ vol'.store \in {vol.store, Source}
      BY <2>1 DEF UndoPoint, TypeOK, Volume, Formatted
    <2>3. vol'.store # None => Formatted
      BY <2>2 DEF Formatted
    <2>4. op'.pc \notin Synced \cup {"copy"} /\ Good' = Good /\ row' = row /\ mnt' = mnt /\ store' = store /\ renamed' = renamed
      BY DEF UndoPoint, OpGoto, Synced, Good, TypeOK, Op, fuse
    <2> QED BY <2>1, <2>2, <2>3, <2>4 DEF Held, Readable, RowStore
  <1>6. Pointed'
    BY DEF TypeOK, Shape, Worker, Pointed, UndoPoint, Source, disk, fuse, counters, history, OpAt, OpGoto, Abort, Formatted, Row, Volume, Op, Synced, RowStore, Forward, Undo
  <1> QED BY <1>1, <1>2, <1>3, <1>4, <1>5, <1>6

LEMMA UndoUmountInv ==
    ASSUME IInv, UndoUmount
    PROVE  IInv'
  <1> USE StoresAssumption, VolNamesAssumption, ArchiveBoundsAssumption
  <1> USE DEF IInv
  <1>1. TypeOK'
    <2>1. op' \in Op
      BY GotoOp DEF UndoUmount, OpPcs, Undo
    <2>2. message' \in BOOLEAN
      BY Zenon DEF UndoUmount, TypeOK
    <2> QED BY <2>1, <2>2, UmountTypes DEF TypeOK, UndoUmount, counters, history
  <1>2. Shape'
    BY DEF TypeOK, Shape, Worker, UndoUmount, UmountWorks, UmountFails, disk, fuse, counters, history, OpAt, OpGoto, Abort, Formatted, Row, Volume, Op, Stores, Forward, Undo, RowStore
  <1>3. Worker'
    BY ZenonT(60) DEF TypeOK, Shape, Worker, UndoUmount, UmountWorks, UmountFails, disk, fuse, counters, history, OpAt, OpGoto, Abort, Formatted, Row, Op, Volume, Forward, Undo, Synced, RowStore
  <1>4. Named'
    BY DEF TypeOK, Worker, Named, UndoUmount, UmountWorks, UmountFails, disk, fuse, counters, history, OpAt, OpGoto, Abort, Op, Synced
  <1>5. Held'
    <2>1. op'.pc \notin Synced \cup {"copy"} /\ mnt' \in {mnt, None}
      BY DEF UndoUmount, OpGoto, Synced, TypeOK, Op, UmountWorks, UmountFails
    <2> QED BY <2>1 DEF UndoUmount, Held, Good, Readable, Formatted, history
  <1>6. Pointed'
    BY DEF TypeOK, Shape, Worker, Pointed, UndoUmount, UmountWorks, UmountFails, disk, fuse, counters, history, OpAt, OpGoto, Abort, Formatted, Row, Volume, Op, Synced, RowStore, Forward, Undo
  <1> QED BY <1>1, <1>2, <1>3, <1>4, <1>5, <1>6

LEMMA UndoMountInv ==
    ASSUME IInv, UndoMount
    PROVE  IInv'
  <1> USE StoresAssumption, VolNamesAssumption, ArchiveBoundsAssumption
  <1> USE DEF IInv
  <1>1. TypeOK'
    <2>1. op' \in Op
      BY GotoOp DEF UndoMount, OpPcs
    <2>2. message' \in BOOLEAN
      BY Zenon DEF UndoMount, TypeOK
    <2> QED BY <2>1, <2>2, MountTypes DEF TypeOK, UndoMount, counters, history
  <1>2. Shape'
    BY DEF TypeOK, Shape, Worker, UndoMount, MountWorks, MountFails, disk, fuse, counters, history, OpAt, OpGoto, Abort, Formatted, Row, Volume, Op, Stores, Forward, Undo, RowStore
  <1>3. Worker'
    BY DEF TypeOK, Shape, Worker, UndoMount, MountWorks, MountFails, disk, fuse, counters, history, OpAt, OpGoto, Abort, Formatted, Row, Op, Volume, Forward, Undo, Synced, RowStore
  <1>4. Named'
    BY DEF TypeOK, Worker, Named, UndoMount, MountWorks, MountFails, disk, fuse, counters, history, OpAt, OpGoto, Abort, Op, Synced
  <1>5. Held'
    BY RowStoreIsStore DEF TypeOK, Shape, Worker, Named, Held, Good, Readable, UndoMount, MountWorks, MountFails, disk, fuse, counters, history, OpAt, OpGoto, Abort, Formatted, Row, Volume, Op, Stores, Forward, Synced, RowStore, Undo
  <1>6. Pointed'
    BY DEF TypeOK, Shape, Worker, Pointed, UndoMount, MountWorks, MountFails, disk, fuse, counters, history, OpAt, OpGoto, Abort, Formatted, Row, Volume, Op, Synced, RowStore, Forward, Undo
  <1> QED BY <1>1, <1>2, <1>3, <1>4, <1>5, <1>6

LEMMA ResumeInv ==
    ASSUME IInv, Resume
    PROVE  IInv'
  <1> USE StoresAssumption, VolNamesAssumption, ArchiveBoundsAssumption
  <1> USE DEF IInv
  <1>1. TypeOK'
    BY DEF TypeOK, Resume, IdleOp, LocalRow, disk, fuse, counters, history, OpAt, OpGoto, Abort, Row, Volume, Op, AppStates, Stores, Forward, Undo, Formatted, Worker, RowStore, Synced
  <1>2. Shape'
    BY DEF TypeOK, Shape, Worker, Resume, IdleOp, LocalRow, disk, fuse, counters, history, OpAt, OpGoto, Abort, Formatted, Row, Volume, Op, Stores, Forward, Undo, RowStore
  <1>3. Worker'
    BY DEF TypeOK, Shape, Worker, Resume, IdleOp, LocalRow, disk, fuse, counters, history, OpAt, OpGoto, Abort, Formatted, Row, Op, Volume, Forward, Undo, Synced, RowStore
  <1>4. Named'
    BY DEF TypeOK, Worker, Named, Resume, IdleOp, LocalRow, disk, fuse, counters, history, OpAt, OpGoto, Abort, Op, Synced
  <1>5. Held'
    BY RowStoreIsStore DEF TypeOK, Shape, Worker, Named, Held, Good, Readable, Resume, IdleOp, LocalRow, disk, fuse, counters, history, OpAt, OpGoto, Abort, Formatted, Row, Volume, Op, Stores, Forward, Synced, RowStore, Undo
  <1>6. Pointed'
    BY DEF TypeOK, Shape, Worker, Pointed, Resume, IdleOp, LocalRow, disk, fuse, counters, history, OpAt, OpGoto, Abort, Formatted, Row, Volume, Op, Synced, RowStore, Forward, Undo
  <1> QED BY <1>1, <1>2, <1>3, <1>4, <1>5, <1>6

LEMMA CrashInv ==
    ASSUME IInv, NEW reboot \in BOOLEAN, Crash(reboot)
    PROVE  IInv'
  <1> USE StoresAssumption, VolNamesAssumption, ArchiveBoundsAssumption
  <1> USE DEF IInv
  <1>1. TypeOK'
    BY DEF TypeOK, Crash, Live, IdleOp, LocalRow, disk, fuse, counters, history, Row, Volume, Op, AppStates, Stores, Forward, Undo, Formatted, Worker, RowStore, Synced
  <1>2. Shape'
    BY DEF TypeOK, Shape, Worker, Crash, Live, IdleOp, LocalRow, disk, fuse, counters, history, Formatted, Row, Volume, Op, Stores, Forward, Undo, RowStore
  <1>3. Worker'
    BY DEF TypeOK, Shape, Worker, Crash, Live, IdleOp, LocalRow, disk, fuse, counters, history, Formatted, Row, Op, Volume, Forward, Undo, Synced, RowStore
  <1>4. Named'
    BY DEF TypeOK, Worker, Named, Crash, Live, IdleOp, LocalRow, disk, fuse, counters, history, Op, Synced
  <1>5. Held'
    BY RowStoreIsStore DEF TypeOK, Shape, Worker, Named, Held, Good, Readable, Crash, Live, IdleOp, LocalRow, disk, fuse, counters, history, Formatted, Row, Volume, Op, Stores, Forward, Synced, RowStore, Undo
  <1>6. Pointed'
    BY DEF TypeOK, Shape, Worker, Pointed, Crash, Live, IdleOp, LocalRow, disk, fuse, counters, history, Formatted, Row, Volume, Op, Synced, RowStore, Forward, Undo
  <1> QED BY <1>1, <1>2, <1>3, <1>4, <1>5, <1>6

LEMMA AttachOnStartupInv ==
    ASSUME IInv, NEW done \in 0..3, AttachOnStartup(done)
    PROVE  IInv'
  <1> USE StoresAssumption, VolNamesAssumption, ArchiveBoundsAssumption
  <1> USE DEF IInv
  <1>1. TypeOK'
    <2>1. row' \in Row
      BY DEF AttachOnStartup, TypeOK, Row
    <2>2. vol' \in Volume
      BY DEF AttachOnStartup, TypeOK, Row, Volume, Stores
    <2>3. mnt' \in Stores \cup {None}
      BY <2>2 DEF AttachOnStartup, TypeOK, Volume, fuse
    <2>4. message' \in BOOLEAN
      <3>1. (done < 3) \in BOOLEAN
        OBVIOUS
      <3> QED BY <3>1, Zenon DEF AttachOnStartup, TypeOK
    <2>5. (unit \/ (done = 2 /\ mnt = None)) \in BOOLEAN
      OBVIOUS
    <2>6. unit' \in BOOLEAN
      BY <2>5, Zenon DEF AttachOnStartup, TypeOK, fuse
    <2> QED BY <2>1, <2>2, <2>3, <2>4, <2>6 DEF AttachOnStartup, TypeOK, counters, history
  <1>2. Shape'
    BY DEF TypeOK, Shape, Worker, AttachOnStartup, disk, fuse, counters, history, Formatted, Row, Volume, Op, Stores, Forward, Undo, RowStore
  <1>3. Worker'
    BY DEF TypeOK, Shape, Worker, AttachOnStartup, disk, fuse, counters, history, Formatted, Row, Op, Volume, Forward, Undo, Synced, RowStore
  <1>4. Named'
    BY DEF AttachOnStartup, Shape, Named, Synced
  <1>5. Held'
    BY RowStoreIsStore DEF TypeOK, Shape, Worker, Named, Held, Good, Readable, AttachOnStartup, disk, fuse, counters, history, Formatted, Row, Volume, Op, Stores, Forward, Synced, RowStore, Undo
  <1>6. Pointed'
    BY DEF TypeOK, Shape, Worker, Pointed, AttachOnStartup, disk, fuse, counters, history, Formatted, Row, Volume, Op, Synced, RowStore, Forward, Undo
  <1> QED BY <1>1, <1>2, <1>3, <1>4, <1>5, <1>6

-----------------------------------------------------------------------------
(* Theorems *)

LEMMA StepInv ==
    ASSUME IInv, [Next]_vars
    PROVE  IInv'
  <1>1. CASE UNCHANGED vars
    BY <1>1 DEF IInv, TypeOK, Shape, Worker, Named, Held, Pointed, Good, Readable, RowStore,
                Formatted, vars, disk, fuse, counters, history
  <1>2. CASE OpStep
    BY <1>2, FormatInv, EnsureMountedInv, QuiesceInv, SyncStartInv, SyncCopyInv, SyncEndInv, RepointInv, UmountInv, RemountInv,
       FlipInv, ReclaimInv, UndoPointInv, UndoUmountInv, UndoMountInv, ResumeInv DEF OpStep
  <1>3. ASSUME NEW b \in Buckets, NEW asked \in VolNames, Configure(b, asked) PROVE IInv'
    BY <1>3, ConfigureInv
  <1>4. ASSUME NEW a \in Apps, Launch(a) \/ Ready(a) \/ StopApp(a) PROVE IInv'
    BY <1>4, LaunchInv, ReadyInv, StopAppInv
  <1>5. ASSUME NEW a \in Apps, NEW o \in Objects, Write(a, o) PROVE IInv'
    BY <1>5, WriteInv
  <1>6. CASE FuseDown \/ FuseUp
    BY <1>6, FuseDownInv, FuseUpInv
  <1>7. ASSUME NEW reboot \in BOOLEAN, Crash(reboot) PROVE IInv'
    BY <1>7, CrashInv
  <1>8. ASSUME NEW done \in 0..3, AttachOnStartup(done) PROVE IInv'
    BY <1>8, AttachOnStartupInv
  <1> QED BY <1>1, <1>2, <1>3, <1>4, <1>5, <1>6, <1>7, <1>8 DEF Next

LEMMA Inductive == Spec => []IInv
  <1>1. Init => IInv
    BY InitInv
  <1>2. IInv /\ [Next]_vars => IInv'
    BY StepInv
  <1> QED BY <1>1, <1>2, PTL DEF Spec

\* Type correctness of the archive model.
THEOREM ArchiveTypeCorrect == Spec => []TypeOK
  <1>1. IInv => TypeOK
    BY DEF IInv
  <1> QED BY <1>1, Inductive, PTL

\* configure_backend, its handler and attach_on_startup never make a file of the
\* archive unreadable, however many migrations, crashes and FUSE restarts there
\* are, but for the three excuses of ArchiveKept.
THEOREM ArchiveSafe == Spec => []ArchiveKept
  <1>1. IInv => ArchiveKept
    BY DEF IInv, Held, Good, ArchiveKept
  <1> QED BY <1>1, Inductive, PTL

\* The handler of configure_backend leaves row and volume agreeing.
THEOREM FailsOpen == Spec => []FailOpen
  <1>1. IInv => FailOpen
    BY DEF IInv, Pointed, FailOpen, Synced
  <1> QED BY <1>1, Inductive, PTL

\* No step but the last of a committed migration deletes an object of the volume,
\* and that step deletes none in the store of the row or of the mount.
THEOREM SourceReclaimedLast == Spec => ReclaimedLast
  <1> DEFINE Deletes == \A s \in Stores :
        Formatted /\ ~(store[s][vol.name] \subseteq store'[s][vol.name]) =>
          /\ row.backend = "s3" /\ row.bucket # s /\ vol.store = row.bucket
          /\ mnt # s
  <1>1. ASSUME IInv, [Next]_vars PROVE [Deletes]_vars
    <2>1. CASE store' = store
      BY <2>1
    <2>2. ASSUME NEW a \in Apps, NEW o \in Objects, Write(a, o) PROVE Deletes
      <3>1. mnt \in Stores /\ vol.name \in VolNames /\ store \in StoreType
        BY <1>1, <2>2 DEF IInv, TypeOK, Shape, Write, StoreType
      <3>2. store' = [store EXCEPT ![mnt][vol.name] = store[mnt][vol.name] \cup {o}]
        BY <2>2 DEF Write
      <3>3. store[mnt][vol.name] \cup {o} \in SUBSET Objects
        BY <3>1, <2>2 DEF StoreType
      <3> QED BY <3>1, <3>2, <3>3, OnePrefix
    <2>3. ASSUME NEW o \in Objects, SyncCopy(o) PROVE Deletes
      <3>1. Formatted /\ vol.name \in VolNames
        BY <1>1, <2>3 DEF IInv, SyncCopy, Worker, OpAt, Forward, Shape
      <3> QED BY <1>1, <2>3, <3>1, SyncCopyAdds
    <2>4. CASE Reclaim
      <3>1. row.backend = "s3" /\ vol.store = row.bucket
        BY <1>1, <2>4 DEF IInv, Worker, Reclaim, OpAt
      <3> QED BY <1>1, <2>4, <3>1, ReclaimDeletes
    <2> QED
      BY <1>1, <2>1, <2>2, <2>3, <2>4
         DEF Next, OpStep, vars, disk, appElse, Configure, Launch, Ready, StopApp, FuseDown, FuseUp,
             Crash, AttachOnStartup, Format, EnsureMounted, Quiesce, SyncStart, SyncEnd, Repoint, Umount,
             Remount, Flip,
             UndoPoint, UndoUmount, UndoMount, Resume
  <1> QED BY <1>1, Inductive, PTL DEF Spec, ReclaimedLast
=============================================================================
