---------------------------- MODULE AppLifecycle ----------------------------
(***************************************************************************)
(* The life of an app in the router: its row of the apps table, its podman *)
(* container, and everybody who changes them.  Request handlers run on one *)
(* event loop and are atomic between awaits; deploys, reloads, removals    *)
(* and start-up recovery run in daemon threads with connections of their   *)
(* own; the storage guard is one more thread.  Each SQL statement and each *)
(* podman command of a thread is a step of its own, so the steps of the    *)
(* others may fall between any two of them.                                *)
(***************************************************************************)
EXTENDS Naturals, FiniteSets

CONSTANTS
    Apps,         \* app ids (random, never reused)
    Names,        \* app names: they key the container and the image
    NameOf,       \* the name under which an app id is installed
    Threads,      \* slots for worker threads
    Reqs,         \* slots for requests of the owner
    Cids,         \* podman container ids
    Events,       \* what happens: requests of the owner, low disk space
    None,         \* SQL NULL / no value
    Untold,       \* a live container whose id podman never got to tell the router
    MaxReq,       \* bound: requests the owner issues
    MaxCrash,     \* bound: crashes and reboots of the router
    StopMayFail   \* whether the stop of a container, or the write after it, may fail

ASSUME NamesAssumption == NameOf \in [Apps -> Names]
ASSUME NoneAssumption == None \notin Cids \cup Apps \cup Reqs
ASSUME UntoldAssumption == Untold \notin Cids \cup {None}
ASSUME BoundsAssumption == MaxReq \in Nat /\ MaxCrash \in Nat
ASSUME StopAssumption == StopMayFail \in BOOLEAN
ASSUME EventsAssumption ==
    Events \subseteq {"add", "stop", "reload", "update", "remove", "promote", "lowdisk"}

VARIABLES
    proc,       \* the router process: setup server, booting, scanning, up, down
    quitting,   \* the shutdown event is set: the process is about to exit
    minted,     \* app ids handed out so far
    row,        \* the apps table
    podman,     \* the live container of each name
    image,      \* whether the image of a name exists
    mine,       \* rows created by this process (created_at >= process start)
    snap,       \* the rows start-up selected and is looking at
    thr,        \* worker threads
    req,        \* requests in flight
    loop,       \* the request that holds the event loop between two awaits
    grd,        \* the storage guard's pass over the rows it selected
    redirected, \* apps whose update was sent through the OAuth flow
    nreq,       \* requests issued
    ncrash,     \* crashes so far
    overlap,    \* history: names on which two actors overlapped, or one crashed,
                \*   and which have had no launch of their own since
    forgotten,  \* history: apps start-up took for being deployed when they were not,
                \*   or whose launcher could not write how it ended
    abandoned   \* history: removals whose worker ended with the router, or without
                \*   being able to write that it failed

history == <<overlap, forgotten, abandoned>>

vars == <<proc, quitting, minted, row, podman, image, mine, snap, thr, req, loop,
          grd, redirected, nreq, ncrash, history>>

db == <<row, minted, mine, snap>>
box == <<podman, image>>

-----------------------------------------------------------------------------
(* Types *)

Statuses == {"building", "starting", "running", "stopped", "error", "removing"}

\* error_message, as far as the code reads it: NULL, the promotion marker, the
\* build-cache corruption marker, any other text.
Errors == {"null", "marker", "corrupt", "other"}

Cid == Cids \cup {None}

Rows == [status : Statuses \cup {"none"}, cid : Cid, err : Errors]
NoRow == [status |-> "none", cid |-> None, err |-> "null"]
NoRows == [a \in Apps |-> NoRow]

LauncherKinds == {"deploy", "reload", "recover", "sync"}

LauncherPcs == {"check", "reload", "start", "mark", "restart", "build", "select",
                "prepare", "rm", "run", "record", "wait", "ready", "unready",
                "cleanup", "excwrite", "fail"}

Pcs == LauncherPcs \cup {"idle", "next", "rmread", "rmstop", "purge", "delete"}

Thread == [kind : LauncherKinds \cup {"remove", "none"}, pc : Pcs,
           app : Apps \cup {None}, cid : Cid, keep : Cid, err : Errors,
           todo : SUBSET (Apps \X BOOLEAN)]

IdleThread == [kind |-> "none", pc |-> "idle", app |-> None, cid |-> None,
               keep |-> None, err |-> "null", todo |-> {}]

Request == [pc : {"idle", "stopcid", "stopname", "stopwrite", "pull", "claim", "stopold"},
            app : Apps \cup {None}, cid : Cid, oauth : BOOLEAN]

IdleReq == [pc |-> "idle", app |-> None, cid |-> None, oauth |-> FALSE]

Guard == [pc : {"idle", "stop", "write"}, todo : SUBSET (Apps \X Cid),
          app : Apps \cup {None}]

IdleGuard == [pc |-> "idle", todo |-> {}, app |-> None]

TypeOK ==
    /\ proc \in {"setup", "init", "scan", "sync", "up", "down"}
    /\ quitting \in BOOLEAN
    /\ minted \subseteq Apps
    /\ row \in [Apps -> Rows]
    /\ podman \in [Names -> Cid \cup {Untold}]
    /\ image \in [Names -> BOOLEAN]
    /\ mine \subseteq Apps
    /\ snap \in [Apps -> Rows]
    /\ thr \in [Threads -> Thread]
    /\ req \in [Reqs -> Request]
    /\ loop \in Reqs \cup {None}
    /\ grd \in Guard
    /\ redirected \subseteq Apps
    /\ nreq \in 0..MaxReq
    /\ ncrash \in 0..MaxCrash
    /\ overlap \subseteq Names
    /\ forgotten \subseteq Apps
    /\ abandoned \subseteq Apps

Init ==
    /\ proc = "setup"
    /\ quitting = FALSE
    /\ minted = {}
    /\ row = NoRows
    /\ podman = [n \in Names |-> None]
    /\ image = [n \in Names |-> FALSE]
    /\ mine = {}
    /\ snap = NoRows
    /\ thr = [t \in Threads |-> IdleThread]
    /\ req = [r \in Reqs |-> IdleReq]
    /\ loop = None
    /\ grd = IdleGuard
    /\ redirected = {}
    /\ nreq = 0
    /\ ncrash = 0
    /\ overlap = {}
    /\ forgotten = {}
    /\ abandoned = {}

-----------------------------------------------------------------------------
(* Who is at work on what *)

Present(a) == row[a].status # "none"
Busy(a) == row[a].status \in {"building", "starting"}

\* A thread that is launching a, or has a in its recovery list.
Launches(t, a) ==
    \/ thr[t].kind \in LauncherKinds /\ thr[t].pc \in LauncherPcs /\ thr[t].app = a
    \/ \E b \in BOOLEAN : <<a, b>> \in thr[t].todo

\* Somebody who will still write a final status of a.
Owned(a) ==
    \/ \E t \in Threads : Launches(t, a)
    \/ \E r \in Reqs : req[r].pc = "stopold" /\ req[r].app = a

Lists(t, a) == \E b \in BOOLEAN : <<a, b>> \in thr[t].todo
Handles(a) ==
    \/ \E r \in Reqs : req[r].app = a
    \/ grd.app = a \/ \E c \in Cid : <<a, c>> \in grd.todo

Touches(a) == (\E t \in Threads : thr[t].app = a \/ Lists(t, a)) \/ Handles(a)

InFlight(n) == \E a \in Apps : NameOf[a] = n /\ Touches(a)

\* Nobody but thread t is at work on the name of its app, and the row says so
\* (before its scan is over, start-up is at work on all of them).
Undisturbed(t) ==
    /\ proc \in {"sync", "up"}
    /\ row[thr[t].app].status = "starting"
    /\ \A a \in Apps : NameOf[a] = NameOf[thr[t].app] =>
          /\ \A s \in Threads : ~Lists(s, a) /\ (thr[s].app = a => s = t)
          /\ ~Handles(a)

\* History: an actor starts on the apps of S.
StartOn(S) ==
    overlap' = overlap \cup {NameOf[a] : a \in {b \in S : InFlight(NameOf[b])}}

-----------------------------------------------------------------------------
(* SQL and podman *)

\* UPDATE apps SET ... WHERE app_id = a: nothing happens to a deleted row.
UpdateRow(a, r) == row' = [row EXCEPT ![a] = IF Present(a) THEN r ELSE @]

\* Mutant: a status the schema does not know.
MarkLaunching(a) ==
    UpdateRow(a, [row[a] EXCEPT !.status = "launching", !.err = IF @ = "marker" THEN @ ELSE "null"])

\* _mark_app_starting: unconditional, and keeps the promotion marker.
MarkStarting(a) ==
    UpdateRow(a, [row[a] EXCEPT !.status = "starting",
                                !.err = IF @ = "marker" THEN @ ELSE "null"])

\* stop_container on the container id an actor holds; idempotent.
Kill(n, c) ==
    \/ podman' = [podman EXCEPT ![n] = IF @ = c THEN None ELSE @]
    \/ StopMayFail /\ podman' = podman

\* Container ids nobody remembers any more stand for fresh ones.
FreshCids ==
    Cids \ ({podman[n] : n \in Names} \cup {row[a].cid : a \in Apps}
            \cup {thr[t].cid : t \in Threads} \cup {thr[t].keep : t \in Threads}
            \cup {req[r].cid : r \in Reqs} \cup {x[2] : x \in grd.todo})

-----------------------------------------------------------------------------
(* Worker threads: control *)

\* A thread may step: recovery in the background starts once the apps marked by
\* a promotion have been recovered synchronously.
At(t, p) ==
    /\ thr[t].pc = p
    /\ thr[t].kind = "recover" => proc = "up"

Goto(t, p) == thr' = [thr EXCEPT ![t].pc = p]

\* The exception that unwinds to the thread's outermost handler.
Raise(t, p, e) == thr' = [thr EXCEPT ![t].pc = p, ![t].err = e]

\* A thread of _restart_apps_sequential with the list q before it.
RecoveryThread(k, q) == [IdleThread EXCEPT !.kind = k, !.pc = "next", !.todo = q]

\* The thread's work on its app is over: a recovery goes on with its list.
Finished(t) ==
    IF thr[t].kind \in {"recover", "sync"}
    THEN RecoveryThread(thr[t].kind, thr[t].todo)
    ELSE IdleThread

Finish(t) == thr' = [thr EXCEPT ![t] = Finished(t)]

Spawn(t, k, a, p) ==
    /\ thr[t].pc = "idle"
    /\ thr' = [thr EXCEPT ![t] = [IdleThread EXCEPT !.kind = k, !.app = a, !.pc = p]]

threadElse == <<proc, quitting, minted, mine, snap, req, loop, grd, redirected, nreq, ncrash>>

-----------------------------------------------------------------------------
(* Launching an app *)

\* deploy_app_background: the storage check before the first build.
DeployCheck(t) ==
    /\ At(t, "check")
    /\ Goto(t, "build") \/ Raise(t, "fail", "other")
    /\ UNCHANGED <<row, box, threadElse, history>>

\* reload_app_background: the row may be gone; re-copying the source may raise.
ReloadRead(t) ==
    /\ At(t, "reload")
    /\ IF Present(thr[t].app)
       THEN Goto(t, "start") \/ Raise(t, "fail", "other")
       ELSE Finish(t)
    /\ UNCHANGED <<row, box, threadElse, history>>

\* start_app_process reads the row, checks storage and parses the manifest ...
StartRead(t) ==
    /\ At(t, "start")
    /\ \/ Present(thr[t].app) /\ Goto(t, "mark")
       \/ Raise(t, "fail", "other")
    /\ UNCHANGED <<row, box, threadElse, history>>

\* ... marks the row starting, and builds.
StartMark(t) ==
    /\ At(t, "mark")
    /\ MarkStarting(thr[t].app)
    /\ Goto(t, "build")
    /\ UNCHANGED <<box, threadElse, history>>

\* restart_app_process: the same without a build.
RestartRead(t) ==
    /\ At(t, "restart")
    /\ \/ Present(thr[t].app) /\ Goto(t, "select")
       \/ Raise(t, "fail", "other")
    /\ UNCHANGED <<row, box, threadElse, history>>

\* _build_then_run_app: all the attempts at build_image, and their outcome.
Build(t) ==
    /\ At(t, "build")
    /\ \/ Goto(t, "select") /\ image' = [image EXCEPT ![NameOf[thr[t].app]] = TRUE]
       \/ \E e \in {"corrupt", "other"} : Raise(t, "fail", e) /\ UNCHANGED image
    /\ UNCHANGED <<row, podman, threadElse, history>>

\* run_app_image reads the row; without one it raises before its own handler.
SelectRow(t) ==
    /\ At(t, "select")
    /\ IF Present(thr[t].app)
       THEN thr' = [thr EXCEPT ![t].pc = "prepare", ![t].keep = row[thr[t].app].cid]
       ELSE Raise(t, "fail", "other")
    /\ UNCHANGED <<row, box, threadElse, history>>

\* Archive check, environment, token, services, then the row is marked starting.
\* An exception before that keeps the container id read from the row.
Prepare(t) ==
    /\ At(t, "prepare")
    /\ \/ /\ MarkStarting(thr[t].app)
          /\ thr' = [thr EXCEPT ![t].pc = "rm", ![t].keep = None]
       \/ Raise(t, "excwrite", "other") /\ UNCHANGED row
    /\ UNCHANGED <<box, threadElse, history>>

\* run_container: podman rm -f of whatever has the name (what earlier overlaps
\* left behind ends here, if this launch is on its own) ...
PodmanRm(t) ==
    /\ At(t, "rm")
    /\ Kill(NameOf[thr[t].app], podman[NameOf[thr[t].app]])
    /\ Goto(t, "run")
    /\ overlap' = IF Undisturbed(t) THEN overlap \ {NameOf[thr[t].app]} ELSE overlap
    /\ UNCHANGED <<row, image, forgotten, abandoned, threadElse>>

\* ... and podman run, which fails if the name is in use again, or is given up
\* after its timeout with the container started or not.
PodmanRun(t) ==
    /\ At(t, "run")
    /\ \/ /\ podman[NameOf[thr[t].app]] = None
          /\ \E c \in FreshCids :
                /\ podman' = [podman EXCEPT ![NameOf[thr[t].app]] = c]
                /\ thr' = [thr EXCEPT ![t].pc = "record", ![t].cid = c]
       \/ /\ podman[NameOf[thr[t].app]] = None
          /\ podman' = [podman EXCEPT ![NameOf[thr[t].app]] = Untold]
          /\ Raise(t, "excwrite", "other")
       \/ Raise(t, "excwrite", "other") /\ UNCHANGED podman
    /\ UNCHANGED <<row, image, threadElse, history>>

\* UPDATE container_id, or a database error.
Record(t) ==
    /\ At(t, "record")
    /\ \/ /\ UpdateRow(thr[t].app, [row[thr[t].app] EXCEPT !.cid = thr[t].cid])
          /\ Goto(t, "wait")
       \/ Raise(t, "cleanup", "other") /\ UNCHANGED row
    /\ UNCHANGED <<box, threadElse, history>>

\* wait_for_ready polls the app's port: any container of that name may answer.
WaitForReady(t) ==
    /\ At(t, "wait")
    /\ \/ podman[NameOf[thr[t].app]] # None /\ Goto(t, "ready")
       \/ Goto(t, "unready")
       \/ Raise(t, "cleanup", "other")
    /\ UNCHANGED <<row, box, threadElse, history>>

WriteRunning(t) ==
    /\ At(t, "ready")
    /\ \/ /\ UpdateRow(thr[t].app, [row[thr[t].app] EXCEPT !.status = "running", !.err = "null"])
          /\ Finish(t)
       \/ Raise(t, "cleanup", "other") /\ UNCHANGED row
    /\ UNCHANGED <<box, threadElse, history>>

WriteUnready(t) ==
    /\ At(t, "unready")
    /\ \/ /\ UpdateRow(thr[t].app, [row[thr[t].app] EXCEPT !.status = "error", !.err = "other"])
          /\ Finish(t)
       \/ Raise(t, "cleanup", "other") /\ UNCHANGED row
    /\ UNCHANGED <<box, threadElse, history>>

\* Mutant: the handler forgets the container it started.
CleanupLeak(t) ==
    /\ At(t, "cleanup")
    /\ Goto(t, "excwrite")
    /\ UNCHANGED <<row, box, threadElse, history>>

\* run_app_image's handler stops the container it started; if that fails the
\* row keeps its id.
Cleanup(t) ==
    /\ At(t, "cleanup")
    /\ \/ /\ Kill(NameOf[thr[t].app], thr[t].cid)
          /\ Goto(t, "excwrite")
       \/ /\ StopMayFail
          /\ thr' = [thr EXCEPT ![t].pc = "excwrite", ![t].keep = thr[t].cid]
          /\ UNCHANGED podman
    /\ UNCHANGED <<row, image, threadElse, history>>

\* The handler's own UPDATE; a database error here is logged.
ExcWrite(t) ==
    /\ At(t, "excwrite")
    /\ \/ UpdateRow(thr[t].app, [status |-> "error", cid |-> thr[t].keep, err |-> thr[t].err])
       \/ UNCHANGED row
    /\ Goto(t, "fail")
    /\ UNCHANGED <<box, threadElse, history>>

\* Mutant: a thread whose exception is only logged.
FailSilently(t) ==
    /\ At(t, "fail")
    /\ Finish(t)
    /\ UNCHANGED <<row, box, threadElse, history>>

\* The outermost handler of every launching thread writes the error once more.
WriteFail(t) ==
    /\ At(t, "fail")
    /\ UpdateRow(thr[t].app, [row[thr[t].app] EXCEPT !.status = "error", !.err = thr[t].err])
    /\ Finish(t)
    /\ UNCHANGED <<box, threadElse, history>>

\* Or cannot: the exception ends the thread, and a recovery with the rest of its
\* list.  (In the synchronous recovery it ends the router, see Crash.)
LoseFail(t) ==
    /\ At(t, "fail")
    /\ thr[t].kind # "sync"
    /\ thr' = [thr EXCEPT ![t] = IdleThread]
    /\ forgotten' = forgotten \cup {thr[t].app} \cup {x[1] : x \in thr[t].todo}
    /\ UNCHANGED <<row, box, overlap, abandoned, threadElse>>

\* _restart_apps_sequential: the next app of the list, or the end of it.
NextRecovery(t) ==
    /\ At(t, "next")
    /\ \/ /\ thr[t].todo = {}
          /\ thr' = [thr EXCEPT ![t] = IdleThread]
          /\ proc' = IF thr[t].kind = "sync" THEN "up" ELSE proc
       \/ /\ \E x \in thr[t].todo :
                thr' = [thr EXCEPT ![t].todo = @ \ {x}, ![t].app = x[1],
                                   ![t].pc = IF x[2] THEN "start" ELSE "restart"]
          /\ UNCHANGED proc
    /\ UNCHANGED <<db, box, quitting, req, loop, grd, redirected, nreq, ncrash, history>>

-----------------------------------------------------------------------------
(* remove_app_background *)

RemoveRead(t) ==
    /\ At(t, "rmread")
    /\ IF Present(thr[t].app)
       THEN thr' = [thr EXCEPT ![t].pc = "rmstop", ![t].keep = row[thr[t].app].cid]
       ELSE Finish(t)
    /\ UNCHANGED <<row, box, threadElse, history>>

RemoveStop(t) ==
    /\ At(t, "rmstop")
    /\ Kill(NameOf[thr[t].app], thr[t].keep)
    /\ Goto(t, "purge")
    /\ UNCHANGED <<row, image, threadElse, history>>

\* remove_image (podman refuses one that is in use) and the data directories.
RemovePurge(t) ==
    /\ At(t, "purge")
    /\ image' \in {image, [image EXCEPT ![NameOf[thr[t].app]] = FALSE]}
    /\ Goto(t, "delete")
    /\ UNCHANGED <<row, podman, threadElse, history>>

\* Mutant: no handler around the DELETE.
RemoveDeleteUnguarded(t) ==
    /\ At(t, "delete")
    /\ row' = [row EXCEPT ![thr[t].app] = NoRow] \/ UNCHANGED row
    /\ Finish(t)
    /\ UNCHANGED <<box, threadElse, history>>

\* DELETE of the row; if that raises, the outer handler records an error; if that
\* raises too, it is logged and the worker ends.
RemoveDelete(t) ==
    /\ At(t, "delete")
    /\ \/ /\ row' = [row EXCEPT ![thr[t].app] = NoRow]
          /\ UNCHANGED abandoned
       \/ /\ UpdateRow(thr[t].app, [row[thr[t].app] EXCEPT !.status = "error", !.err = "other"])
          /\ UNCHANGED abandoned
       \/ /\ abandoned' = abandoned \cup {thr[t].app}
          /\ UNCHANGED row
    /\ Finish(t)
    /\ UNCHANGED <<box, overlap, forgotten, threadElse>>

ThreadStep(t) ==
    \/ DeployCheck(t) \/ ReloadRead(t) \/ StartRead(t) \/ StartMark(t)
    \/ RestartRead(t) \/ Build(t) \/ SelectRow(t) \/ Prepare(t)
    \/ PodmanRm(t) \/ PodmanRun(t) \/ Record(t) \/ WaitForReady(t)
    \/ WriteRunning(t) \/ WriteUnready(t) \/ Cleanup(t) \/ ExcWrite(t)
    \/ WriteFail(t) \/ LoseFail(t) \/ NextRecovery(t)
    \/ RemoveRead(t) \/ RemoveStop(t) \/ RemovePurge(t) \/ RemoveDelete(t)

-----------------------------------------------------------------------------
(* Requests of the owner *)

\* A handler runs when no other one holds the event loop.
Serving(event, phases) ==
    /\ event \in Events
    /\ proc \in phases
    /\ ~quitting
    /\ loop = None
    /\ nreq < MaxReq
    /\ nreq' = nreq + 1

\* insert_and_deploy, from add_app or, during setup, from the default apps.
AddApp(a, t) ==
    /\ Serving("add", {"setup", "up"})
    /\ a \notin minted
    /\ \A b \in Apps : Present(b) => NameOf[b] # NameOf[a]
    /\ Spawn(t, "deploy", a, "check")
    /\ row' = [row EXCEPT ![a] = [status |-> "building", cid |-> None, err |-> "null"]]
    /\ minted' = minted \cup {a}
    /\ mine' = mine \cup {a}
    /\ StartOn({a})
    /\ UNCHANGED <<proc, quitting, snap, box, req, loop, grd, redirected, ncrash, forgotten, abandoned>>

\* stop_app never awaits: it holds the loop, but not the worker threads.
StopApp(r, a) ==
    /\ Serving("stop", {"up"})
    /\ req[r].pc = "idle"
    /\ Present(a) /\ row[a].status # "removing"
    /\ req' = [req EXCEPT ![r] = [pc |-> "stopcid", app |-> a, cid |-> row[a].cid, oauth |-> FALSE]]
    /\ loop' = r
    /\ StartOn({a})
    /\ UNCHANGED <<proc, quitting, db, box, thr, grd, redirected, ncrash, forgotten, abandoned>>

reqElse == <<proc, quitting, minted, mine, snap, image, grd, nreq, ncrash, history>>

StopByCid(r) ==
    /\ req[r].pc = "stopcid"
    /\ Kill(NameOf[req[r].app], req[r].cid)
    /\ req' = [req EXCEPT ![r].pc = "stopname"]
    /\ UNCHANGED <<row, thr, loop, redirected, reqElse>>

\* stop_container by name; a podman timeout here leaves the handler.
StopByName(r) ==
    /\ req[r].pc = "stopname"
    /\ \/ /\ Kill(NameOf[req[r].app], podman[NameOf[req[r].app]])
          /\ req' = [req EXCEPT ![r].pc = "stopwrite"]
          /\ UNCHANGED loop
       \/ /\ StopMayFail
          /\ req' = [req EXCEPT ![r] = IdleReq]
          /\ loop' = None
          /\ UNCHANGED podman
    /\ UNCHANGED <<row, thr, redirected, reqElse>>

StopWrite(r) ==
    /\ req[r].pc = "stopwrite"
    /\ \/ UpdateRow(req[r].app, [row[req[r].app] EXCEPT !.status = "stopped", !.cid = None])
       \/ StopMayFail /\ UNCHANGED row
    /\ req' = [req EXCEPT ![r] = IdleReq]
    /\ loop' = None
    /\ UNCHANGED <<podman, thr, redirected, reqElse>>

\* _reload_app_impl up to its first await.  A plain reload has none before the
\* claim; an update pulls first, or records that there is no repository.
\* continue_oauth is the browser coming back from the OAuth flow.
ReloadApp(r, a, update, oauth) ==
    /\ Serving(IF update THEN "update" ELSE "reload", {"up"})
    /\ req[r].pc = "idle"
    /\ Present(a) /\ row[a].status # "removing"
    /\ oauth => update /\ a \in redirected
    /\ \/ /\ req' = [req EXCEPT ![r] = [pc |-> IF update THEN "pull" ELSE "claim",
                                        app |-> a, cid |-> row[a].cid, oauth |-> oauth]]
          /\ loop' = IF update THEN None ELSE r
          /\ UNCHANGED row
       \/ /\ update
          /\ UpdateRow(a, [row[a] EXCEPT !.status = "error", !.err = "other"])
          /\ UNCHANGED <<req, loop>>
    /\ StartOn({a})
    /\ UNCHANGED <<proc, quitting, minted, mine, snap, box, thr, grd, redirected, ncrash, forgotten, abandoned>>

\* The pull is over: go on to the claim, or stop at the OAuth redirect or the
\* refused review, or record a failure.
PullDone(r) ==
    /\ req[r].pc = "pull" /\ loop = None
    /\ \/ /\ req' = [req EXCEPT ![r].pc = "claim"]
          /\ loop' = r
          /\ UNCHANGED <<row, redirected>>
       \/ /\ req' = [req EXCEPT ![r] = IdleReq]
          /\ redirected' \in {redirected, redirected \cup {req[r].app}}
          /\ UNCHANGED <<row, loop>>
       \/ /\ req' = [req EXCEPT ![r] = IdleReq]
          /\ UpdateRow(req[r].app, [row[req[r].app] EXCEPT !.status = "error", !.err = "other"])
          /\ UNCHANGED <<redirected, loop>>
    /\ UNCHANGED <<podman, thr, reqElse>>

\* UPDATE ... WHERE status NOT IN (building, starting, removing).
Claimable(a) == Present(a) /\ row[a].status \notin {"building", "starting", "removing"}

Claim(r) ==
    /\ req[r].pc = "claim"
    /\ \/ /\ Claimable(req[r].app)
          /\ row' = [row EXCEPT ![req[r].app] = [status |-> "building", cid |-> None, err |-> "null"]]
          /\ req' = [req EXCEPT ![r].pc = "stopold"]
       \/ /\ ~Claimable(req[r].app)
          /\ req' = [req EXCEPT ![r] = IF req[r].oauth THEN [@ EXCEPT !.pc = "stopold"] ELSE IdleReq]
          /\ UNCHANGED row
    /\ loop' = None
    /\ UNCHANGED <<podman, thr, redirected, reqElse>>

\* Stop the container read at the beginning, then start the worker.
StopOld(r, t) ==
    /\ req[r].pc = "stopold" /\ loop = None
    /\ Kill(NameOf[req[r].app], req[r].cid)
    /\ Spawn(t, "reload", req[r].app, "reload")
    /\ req' = [req EXCEPT ![r] = IdleReq]
    /\ UNCHANGED <<row, loop, redirected, reqElse>>

ReqStep(r) ==
    \/ StopByCid(r) \/ StopByName(r) \/ StopWrite(r)
    \/ PullDone(r) \/ Claim(r) \/ \E t \in Threads : StopOld(r, t)

\* remove_app: the claim and the spawn, which may fail, and so may the UPDATE
\* that would take the claim back.
RemoveApp(a, t) ==
    /\ Serving("remove", {"up"})
    /\ Present(a) /\ row[a].status # "removing"
    /\ \/ /\ Spawn(t, "remove", a, "rmread")
          /\ row' = [row EXCEPT ![a].status = "removing", ![a].err = "null"]
          /\ abandoned' = abandoned \ {a}
       \/ /\ row' = [row EXCEPT ![a].status = "error", ![a].err = "other"]
          /\ UNCHANGED <<thr, abandoned>>
       \/ /\ row' = [row EXCEPT ![a].status = "removing", ![a].err = "null"]
          /\ abandoned' = abandoned \cup {a}
          /\ UNCHANGED thr
    /\ StartOn({a})
    /\ UNCHANGED <<proc, quitting, minted, mine, snap, box, req, loop, grd, redirected, ncrash, forgotten>>

\* set_primary_domain's transaction, then trigger_restart.
PromoteDomain ==
    /\ Serving("promote", {"up"})
    /\ \A a \in Apps : row[a].status \notin {"building", "starting", "removing"}
    /\ LET marked == {a \in Apps : \/ row[a].status = "running"
                                   \/ row[a].status = "error" /\ row[a].cid # None}
       IN /\ row' = [a \in Apps |-> IF a \in marked
                                    THEN [row[a] EXCEPT !.status = "starting", !.err = "marker"]
                                    ELSE row[a]]
          /\ StartOn(marked)
    /\ quitting' = TRUE
    /\ UNCHANGED <<proc, minted, mine, snap, box, thr, req, loop, grd, redirected, ncrash, forgotten, abandoned>>

-----------------------------------------------------------------------------
(* enforce_storage_guard: one SELECT, then a stop and an UPDATE per row *)

GuardSelect ==
    /\ "lowdisk" \in Events /\ proc = "up" /\ grd.pc = "idle"
    /\ LET S == {a \in Apps : row[a].status \in {"running", "starting"}}
       IN /\ S # {}
          /\ grd' = [pc |-> "stop", todo |-> {<<a, row[a].cid>> : a \in S}, app |-> None]
          /\ StartOn(S)
    /\ UNCHANGED <<proc, quitting, db, box, thr, req, loop, redirected, nreq, ncrash, forgotten, abandoned>>

GuardStop ==
    /\ grd.pc = "stop"
    /\ \E x \in grd.todo :
          /\ Kill(NameOf[x[1]], x[2])
          /\ grd' = [pc |-> "write", todo |-> grd.todo \ {x}, app |-> x[1]]
    /\ UNCHANGED <<proc, quitting, db, image, thr, req, loop, redirected, nreq, ncrash, history>>

\* An UPDATE that raises ends the pass.
GuardWrite ==
    /\ grd.pc = "write"
    /\ \/ /\ UpdateRow(grd.app, [status |-> "error", cid |-> None, err |-> "other"])
          /\ grd' = IF grd.todo = {} THEN IdleGuard ELSE [grd EXCEPT !.pc = "stop", !.app = None]
       \/ /\ StopMayFail
          /\ grd' = IdleGuard
          /\ UNCHANGED row
    /\ UNCHANGED <<proc, quitting, minted, mine, snap, box, thr, req, loop, redirected, nreq, ncrash, history>>

GuardStep == GuardStop \/ GuardWrite

-----------------------------------------------------------------------------
(* The process: exit, crash, reboot, boot *)

\* Every thread and request dies; the containers survive the process but not a
\* reboot of the machine.
Die ==
    /\ proc' = "down"
    /\ quitting' = FALSE
    /\ mine' = {}
    /\ snap' = NoRows
    /\ thr' = [t \in Threads |-> IdleThread]
    /\ req' = [r \in Reqs |-> IdleReq]
    /\ loop' = None
    /\ grd' = IdleGuard
    /\ overlap' = overlap \cup {n \in Names : InFlight(n)}
    /\ forgotten' = {}
    /\ abandoned' = abandoned \cup {a \in Apps : \E t \in Threads : thr[t].kind = "remove" /\ thr[t].app = a}
    /\ UNCHANGED <<minted, row, image, redirected, nreq>>

Exit ==
    /\ quitting /\ Die
    /\ UNCHANGED <<podman, ncrash>>

Crash ==
    /\ proc # "down" /\ ncrash < MaxCrash
    /\ Die
    /\ podman' \in {podman, [n \in Names |-> None]}
    /\ ncrash' = ncrash + 1

Boot ==
    /\ proc = "down" /\ proc' = "init"
    /\ UNCHANGED <<quitting, db, box, thr, req, loop, grd, redirected, nreq, ncrash, history>>

-----------------------------------------------------------------------------
(* check_app_status: one SELECT, then a look at each row of it and, in one   *)
(* transaction, the UPDATEs.  The deploy threads of the setup server go on   *)
(* between the two.  The repositories of the apps in lost are missing.       *)

Alive(a) == snap[a].cid # None /\ podman[NameOf[a]] = snap[a].cid
PromotionRestart(a) == snap[a].status = "starting" /\ snap[a].err = "marker"
NeedsBuild(a) == snap[a].status = "building" \/ ~image[NameOf[a]]

\* Mutant: the scan selects running and starting rows only.
ScannedLaunched(a) ==
    /\ snap[a].status \in {"running", "starting"}
    /\ ~(~PromotionRestart(a) /\ snap[a].status = "starting" /\ a \in mine)

\* Rows the scan selects and does not leave to a deploy thread at once.
Scanned(a) ==
    /\ snap[a].status \in {"running", "starting", "building"}
    /\ ~(~PromotionRestart(a) /\ snap[a].status = "starting" /\ a \in mine)

KeepsRunning(a) == Scanned(a) /\ Alive(a) /\ snap[a].status # "starting"
Unrecoverable(a, lost) == Scanned(a) /\ ~KeepsRunning(a) /\ NeedsBuild(a) /\ a \in lost
Recovers(a, lost) == Scanned(a) /\ ~KeepsRunning(a) /\ ~Unrecoverable(a, lost)

\* A row whose deploy thread is this process's own is not recovered twice.
DeployedHere(a) == snap[a].cid = None /\ ~PromotionRestart(a) /\ a \in mine

\* The row after the UPDATEs of the scan ...
ScannedRow(a, lost) ==
    IF KeepsRunning(a) /\ snap[a].status = "building" THEN [row[a] EXCEPT !.status = "running"]
    ELSE IF Unrecoverable(a, lost) THEN [row[a] EXCEPT !.status = "error", !.err = "other"]
    ELSE IF Recovers(a, lost) THEN [row[a] EXCEPT !.status = "starting"]
    ELSE row[a]

\* ... and after _recover_cache_corrupt_apps.
Corrupt(a, lost) ==
    ScannedRow(a, lost).status = "error" /\ ScannedRow(a, lost).err = "corrupt" /\ a \notin lost

CheckedRow(a, lost) ==
    IF Corrupt(a, lost) THEN [row[a] EXCEPT !.status = "starting", !.err = "null"]
    ELSE ScannedRow(a, lost)

Promoted(lost) ==
    {<<a, NeedsBuild(a)>> : a \in {b \in Apps : Recovers(b, lost) /\ PromotionRestart(b)}}

ToRecover(lost) ==
    {<<a, NeedsBuild(a)>> :
        a \in {b \in Apps : Recovers(b, lost) /\ ~PromotionRestart(b) /\ ~DeployedHere(b)}}
    \cup {<<a, TRUE>> : a \in {b \in Apps : Corrupt(b, lost)}}

ScanSelect ==
    /\ proc \in {"setup", "init"} /\ proc' = "scan"
    /\ snap' = row
    /\ UNCHANGED <<quitting, row, minted, mine, box, thr, req, loop, grd, redirected, nreq, ncrash, history>>

CheckAppStatus(lost, ts, tb) ==
    /\ proc = "scan"
    /\ ts # tb /\ thr[ts].pc = "idle" /\ thr[tb].pc = "idle"
    /\ row' = [a \in Apps |-> CheckedRow(a, lost)]
    /\ thr' = [t \in Threads |->
                 IF t = ts /\ Promoted(lost) # {} THEN RecoveryThread("sync", Promoted(lost))
                 ELSE IF t = tb /\ ToRecover(lost) # {} THEN RecoveryThread("recover", ToRecover(lost))
                 ELSE thr[t]]
    /\ proc' = IF Promoted(lost) = {} THEN "up" ELSE "sync"
    /\ snap' = NoRows
    /\ StartOn({x[1] : x \in Promoted(lost) \cup ToRecover(lost)})
    /\ forgotten' = (forgotten \ {x[1] : x \in Promoted(lost) \cup ToRecover(lost)})
                      \cup {a \in Apps : /\ Recovers(a, lost) /\ DeployedHere(a)
                                         /\ \A t \in Threads : ~Launches(t, a)}
    /\ UNCHANGED <<quitting, minted, mine, box, req, loop, grd, redirected, nreq, ncrash, abandoned>>

StartUp ==
    \/ ScanSelect
    \/ \E lost \in SUBSET Apps, ts, tb \in Threads : CheckAppStatus(lost, ts, tb)

-----------------------------------------------------------------------------

Next ==
    \/ \E t \in Threads : ThreadStep(t)
    \/ \E r \in Reqs : ReqStep(r)
    \/ \E a \in Apps, t \in Threads : AddApp(a, t) \/ RemoveApp(a, t)
    \/ \E r \in Reqs, a \in Apps : StopApp(r, a)
    \/ \E r \in Reqs, a \in Apps, update, oauth \in BOOLEAN : ReloadApp(r, a, update, oauth)
    \/ PromoteDomain
    \/ GuardSelect \/ GuardStep
    \/ Exit \/ Crash \/ Boot \/ StartUp

\* Threads, started handlers and the supervisor make progress: podman commands
\* and builds return, and systemd restarts the router.
Fairness ==
    /\ \A t \in Threads : WF_vars(ThreadStep(t))
    /\ \A r \in Reqs : WF_vars(ReqStep(r))
    /\ WF_vars(GuardStep) /\ WF_vars(Exit) /\ WF_vars(Boot) /\ WF_vars(StartUp)

Spec == Init /\ [][Next]_vars
FairSpec == Spec /\ Fairness

-----------------------------------------------------------------------------
(* Properties *)

\* A row that says building or starting has somebody behind it who will write a
\* final status, whatever the owner, the guard, a promotion or a crash did in
\* between: no row is left in a state in which reload answers "already
\* reloading" although nobody is reloading.  The exceptions are a row that
\* start-up mistook for one still being deployed (see CheckAppStatus) and one
\* whose launcher could not write its error (see LoseFail).
BusyHasOwner ==
    proc \in {"sync", "up"} /\ ~quitting => \A a \in Apps \ forgotten : Busy(a) => Owned(a)

\* What podman runs and what the row says agree once nobody is at work on an
\* app: a live container is recorded in the row of an app of that name, unless
\* podman never told its id, and an app that is running has its recorded
\* container alive.  An overlap of two actors on a name, or the end of one of
\* them half-way, may break this, but for no longer than until the next launch
\* that is on its own (see PodmanRm).
SettledAgrees ==
    proc = "up" /\ ~quitting =>
        \A n \in Names \ overlap : ~InFlight(n) =>
            /\ podman[n] \in Cids =>
                 \E a \in Apps : NameOf[a] = n /\ Present(a) /\ row[a].cid = podman[n]
            /\ \A a \in Apps : NameOf[a] = n /\ row[a].status = "running" =>
                 podman[n] # None /\ row[a].cid = podman[n]

\* check_app_status exists so that no app is stranded in building or starting:
\* with threads that make progress and a supervisor that restarts the router,
\* every such row reaches another status, with the exceptions of BusyHasOwner.
NoAppStranded == \A a \in Apps : Busy(a) ~> ~Busy(a) \/ a \in forgotten

\* remove_app_background: a removal ends with the row gone or in error, whatever
\* of the stop, the purge and the DELETE fails and whoever else is at work on the
\* app.  Excused are the removals that end with the router, or whose last write
\* fails as well (that is logged, and nobody looks at the row again).
RemovalEnds ==
    \A a \in Apps : row[a].status = "removing" ~>
        row[a].status # "removing" \/ a \in abandoned
=============================================================================
