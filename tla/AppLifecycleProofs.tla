------------------------- MODULE AppLifecycleProofs -------------------------
(***************************************************************************)
(* Theorems about AppLifecycle, for every set of apps, threads, requests   *)
(* and container ids, and every bound.                                     *)
(*                                                                         *)
(* BusyHasOwner is not inductive.  Its strengthening IInv adds the shape   *)
(* of a thread's record at each step; that it holds from the setup server  *)
(* on, where during the scan of check_app_status the selected row of an    *)
(* older process is a second reason for a row to be busy; that a booted    *)
(* process has created no row before the scan; and that recovery threads   *)
(* exist only after it.                                                    *)
(*                                                                         *)
(* SettledAgrees speaks of names nobody is at work on; its strengthening   *)
(* AgreeInv says what the one actor at work on a name has established at   *)
(* each of its steps, and what the scan of check_app_status has to find    *)
(* out about the rows it selected.                                         *)
(*                                                                         *)
(* RemovalEnds is liveness; what has to hold in every state is that a row  *)
(* which says removing has the thread that will settle it (RemovalOwned).  *)
(***************************************************************************)
EXTENDS AppLifecycle, TLAPS

RemoverPcs == {"rmread", "rmstop", "purge", "delete"}

\* The shape of a thread's record at each of its steps.
ThreadShape(t) ==
    /\ thr[t].pc \in LauncherPcs => thr[t].kind \in LauncherKinds /\ thr[t].app \in Apps
    /\ thr[t].pc = "next" => thr[t].kind \in {"recover", "sync"}
    /\ thr[t].pc \in RemoverPcs => thr[t].kind = "remove" /\ thr[t].app \in Apps
    /\ thr[t].kind \notin {"recover", "sync"} => thr[t].todo = {}
    /\ thr[t].pc = "idle" => thr[t] = IdleThread

ThreadsOK == thr \in [Threads -> Thread] /\ \A t \in Threads : ThreadShape(t)

RowsOK == row \in [Apps -> Rows]

BoxOK == podman \in [Names -> Cid \cup {Untold}] /\ image \in [Names -> BOOLEAN]

ReqsOK ==
    /\ req \in [Reqs -> Request]
    /\ \A r \in Reqs : req[r].pc # "idle" => req[r].app \in Apps
    /\ loop \in Reqs \cup {None}

GuardOK == grd \in Guard /\ (grd.pc = "write" => grd.app \in Apps)

RestOK ==
    /\ proc \in {"setup", "init", "scan", "sync", "up", "down"}
    /\ quitting \in BOOLEAN
    /\ minted \subseteq Apps /\ mine \subseteq Apps /\ redirected \subseteq Apps
    /\ nreq \in 0..MaxReq /\ ncrash \in 0..MaxCrash
    /\ snap \in [Apps -> Rows]
    /\ overlap \subseteq Names /\ forgotten \subseteq Apps /\ abandoned \subseteq Apps

TInv == ThreadsOK /\ RowsOK /\ BoxOK /\ ReqsOK /\ GuardOK /\ RestOK

-----------------------------------------------------------------------------
(* How a step changes the threads and the rows *)

\* Thread t goes on launching the same app.
Continues(t) ==
    /\ thr' \in [Threads -> Thread]
    /\ \A s \in Threads \ {t} : thr'[s] = thr[s]
    /\ thr[t].pc \in LauncherPcs /\ thr'[t].pc \in LauncherPcs
    /\ thr'[t].kind = thr[t].kind
    /\ thr'[t].app = thr[t].app
    /\ thr'[t].todo = thr[t].todo

\* Thread t is done with its app.
Ends(t) ==
    /\ thr' \in [Threads -> Thread]
    /\ \A s \in Threads \ {t} : thr'[s] = thr[s]
    /\ thr'[t] = Finished(t)

\* No thread loses an app it launches, or becomes a recovery thread.
LaunchersKept ==
    /\ \A a \in Apps : \A s \in Threads : Launches(s, a) => Launches(s, a)'
    /\ \A s \in Threads : thr'[s].kind \in {"recover", "sync"} => thr[s].kind \in {"recover", "sync"}

\* After the step the row of a says neither building nor starting.
Settled(a) == row'[a].status \notin {"building", "starting"}

\* Only the row of a changes.
RowOnly(a) == RowsOK' /\ \A b \in Apps \ {a} : row'[b] = row[b]

LEMMA IdleTypes ==
    /\ IdleThread \in Thread
    /\ NoRow \in Rows
    /\ IdleReq \in Request
    /\ IdleGuard \in Guard
<1>1. IdleThread \in Thread
  BY DEF IdleThread, Thread, Pcs, LauncherKinds, Cid, Errors
<1>2. NoRow \in Rows
  BY DEF NoRow, Rows, Cid, Errors
<1>3. IdleReq \in Request
  BY DEF IdleReq, Request, Cid
<1>4. IdleGuard \in Guard
  BY DEF IdleGuard, Guard
<1> QED BY <1>1, <1>2, <1>3, <1>4

LEMMA LauncherPcsArePcs == LauncherPcs \subseteq Pcs
BY DEF Pcs

LEMMA GotoContinues ==
    ASSUME ThreadsOK, NEW t \in Threads, thr[t].pc \in LauncherPcs,
           NEW p \in LauncherPcs, Goto(t, p)
    PROVE  Continues(t)
BY LauncherPcsArePcs DEF ThreadsOK, Goto, Continues, Thread

LEMMA RaiseContinues ==
    ASSUME ThreadsOK, NEW t \in Threads, thr[t].pc \in LauncherPcs,
           NEW p \in LauncherPcs, NEW e \in Errors, Raise(t, p, e)
    PROVE  Continues(t)
<1>1. thr' = [thr EXCEPT ![t] = [thr[t] EXCEPT !.pc = p, !.err = e]]
  BY DEF ThreadsOK, Raise
<1>2. [thr[t] EXCEPT !.pc = p, !.err = e] \in Thread
  BY LauncherPcsArePcs DEF ThreadsOK, Thread
<1> QED
  BY <1>1, <1>2 DEF ThreadsOK, Continues, Thread

LEMMA KeepContinues ==
    ASSUME ThreadsOK, NEW t \in Threads, thr[t].pc \in LauncherPcs,
           NEW p \in LauncherPcs, NEW c \in Cid,
           \/ thr' = [thr EXCEPT ![t].pc = p, ![t].keep = c]
           \/ thr' = [thr EXCEPT ![t].pc = p, ![t].cid = c]
    PROVE  Continues(t)
BY LauncherPcsArePcs DEF ThreadsOK, Continues, Thread

LEMMA FinishEnds ==
    ASSUME ThreadsOK, NEW t \in Threads, Finish(t)
    PROVE  Ends(t)
<1>1. Finished(t) \in Thread
  BY IdleTypes DEF ThreadsOK, Finished, RecoveryThread, Thread, Pcs, IdleThread
<1> QED
  BY <1>1 DEF ThreadsOK, Finish, Ends

LEMMA ContinuesOK ==
    ASSUME ThreadsOK, NEW t \in Threads, Continues(t)
    PROVE  ThreadsOK' /\ LaunchersKept
BY DEF LaunchersKept, ThreadsOK, Continues, ThreadShape, Launches, LauncherPcs, RemoverPcs

LEMMA EndsOK ==
    ASSUME ThreadsOK, NEW t \in Threads, Ends(t)
    PROVE  /\ ThreadsOK'
           /\ \A a \in Apps \ {thr[t].app} : \A s \in Threads : Launches(s, a) => Launches(s, a)'
           /\ \A s \in Threads : thr'[s].kind \in {"recover", "sync"} => thr[s].kind \in {"recover", "sync"}
<1>1. /\ thr'[t].todo = thr[t].todo /\ ThreadShape(t)'
      /\ thr'[t].kind \in {"recover", "sync"} => thr[t].kind \in {"recover", "sync"}
  <2>1. CASE thr[t].kind \in {"recover", "sync"}
    <3>1. /\ thr'[t].kind = thr[t].kind /\ thr'[t].pc = "next"
          /\ thr'[t].todo = thr[t].todo
      BY <2>1 DEF ThreadsOK, Ends, Finished, RecoveryThread, IdleThread
    <3> QED BY <2>1, <3>1 DEF ThreadShape, LauncherPcs, RemoverPcs
  <2>2. CASE thr[t].kind \notin {"recover", "sync"}
    BY <2>2 DEF ThreadsOK, Ends, ThreadShape, Finished, IdleThread, LauncherPcs, RemoverPcs
  <2> QED BY <2>1, <2>2
<1> QED
  BY <1>1 DEF ThreadsOK, Ends, ThreadShape, Launches

LEMMA UpdateRowOK ==
    ASSUME RowsOK, NEW a \in Apps, NEW r \in Rows, UpdateRow(a, r)
    PROVE  RowOnly(a) /\ row'[a] = IF Present(a) THEN r ELSE row[a]
BY DEF RowsOK, UpdateRow, RowOnly, Present

LEMMA KillOK ==
    ASSUME BoxOK, NEW n \in Names, NEW c, Kill(n, c)
    PROVE  podman' \in [Names -> Cid \cup {Untold}]
BY DEF BoxOK, Kill, Cid

\* The row an UPDATE of the launcher writes has the type of a row.
LEMMA RowTypes ==
    ASSUME RowsOK, NEW a \in Apps, NEW c \in Cid, NEW e \in Errors, NEW s \in Statuses
    PROVE  /\ [row[a] EXCEPT !.status = s] \in Rows
           /\ [row[a] EXCEPT !.cid = c] \in Rows
           /\ [row[a] EXCEPT !.status = s, !.err = e] \in Rows
           /\ [row[a] EXCEPT !.status = s, !.cid = c] \in Rows
           /\ [status |-> s, cid |-> c, err |-> e] \in Rows
BY DEF RowsOK, Rows, Statuses, Errors

\* Writing a final status settles the row, or there is none.
LEMMA SettleRow ==
    ASSUME RowsOK, NEW a \in Apps, NEW s \in Statuses \ {"building", "starting"}, NEW e \in Errors,
           UpdateRow(a, [row[a] EXCEPT !.status = s, !.err = e])
    PROVE  RowOnly(a) /\ Settled(a)
<1>1. [row[a] EXCEPT !.status = s, !.err = e] \in Rows
  BY RowTypes, "null" \in Errors, None \in Cid DEF Errors, Cid
<1>2. RowOnly(a) /\ row'[a] = IF Present(a) THEN [row[a] EXCEPT !.status = s, !.err = e] ELSE row[a]
  BY <1>1, UpdateRowOK
<1>3. [row[a] EXCEPT !.status = s, !.err = e].status = s
  BY DEF RowsOK, Rows
<1> QED
  BY <1>2, <1>3 DEF Present, Settled

LEMMA MarkRow ==
    ASSUME RowsOK, NEW a \in Apps, MarkStarting(a)
    PROVE  RowOnly(a)
<1>1. [row[a] EXCEPT !.status = "starting", !.err = IF @ = "marker" THEN @ ELSE "null"] \in Rows
  BY DEF RowsOK, Rows, Statuses, Errors
<1> QED
  BY <1>1, UpdateRowOK DEF MarkStarting

-----------------------------------------------------------------------------
(* The steps of a launching thread *)

Launch(t) ==
    \/ DeployCheck(t) \/ ReloadRead(t) \/ StartRead(t) \/ StartMark(t)
    \/ RestartRead(t) \/ Build(t) \/ SelectRow(t) \/ Prepare(t)
    \/ PodmanRm(t) \/ PodmanRun(t) \/ Record(t) \/ WaitForReady(t)
    \/ WriteRunning(t) \/ WriteUnready(t) \/ Cleanup(t) \/ ExcWrite(t)
    \/ WriteFail(t)

Remove(t) == RemoveRead(t) \/ RemoveStop(t) \/ RemovePurge(t) \/ RemoveDelete(t)

\* A launcher changes no row but its app's, and gives the app up only when the
\* row says neither building nor starting.
LaunchOK(t) ==
    /\ RowOnly(thr[t].app)
    /\ BoxOK'
    /\ Continues(t) \/ (Ends(t) /\ Settled(thr[t].app))

\* A launcher leaves the history alone, but for an overlap that it heals.
LauncherHistory == UNCHANGED <<threadElse, forgotten, abandoned>> /\ overlap' \subseteq overlap

LEMMA LaunchSteps ==
    ASSUME TInv, NEW t \in Threads, Launch(t)
    PROVE  LaunchOK(t) /\ LauncherHistory
<1> DEFINE a == thr[t].app
<1> DEFINE n == NameOf[a]
<1>0. ThreadsOK /\ RowsOK /\ BoxOK
  BY DEF TInv
<1>1. thr[t].pc \in LauncherPcs /\ thr[t] \in Thread
  BY <1>0 DEF Launch, ThreadsOK, DeployCheck, ReloadRead, StartRead, StartMark, RestartRead, Build,
       SelectRow, Prepare, PodmanRm, PodmanRun, Record, WaitForReady, WriteRunning, WriteUnready,
       Cleanup, ExcWrite, WriteFail, At, LauncherPcs
<1>2. a \in Apps /\ n \in Names /\ thr[t].cid \in Cid /\ thr[t].keep \in Cid /\ thr[t].err \in Errors
  BY <1>0, <1>1, NamesAssumption DEF ThreadsOK, ThreadShape, Thread
<1>3. None \in Cid /\ row[a].cid \in Cid /\ {"null", "corrupt", "other"} \subseteq Errors
  BY <1>0, <1>2 DEF RowsOK, Rows, Cid, Errors
<1>4. /\ {"build", "fail", "start", "mark", "select", "prepare", "excwrite", "rm", "run", "record",
          "wait", "ready", "unready", "cleanup"} \subseteq LauncherPcs
      /\ {"starting", "running", "error"} \subseteq Statuses
  BY DEF LauncherPcs, Statuses
<1>5. ASSUME row' = row PROVE RowOnly(a)
  BY <1>0, <1>5 DEF RowOnly, RowsOK
<1>6. ASSUME box' = box PROVE BoxOK'
  BY <1>0, <1>6 DEF BoxOK, box
<1>7. LauncherHistory
  BY DEF Launch, DeployCheck, ReloadRead, StartRead, StartMark, RestartRead, Build, SelectRow,
       Prepare, PodmanRm, PodmanRun, Record, WaitForReady, WriteRunning, WriteUnready, Cleanup,
       ExcWrite, WriteFail, LauncherHistory, history
<1> USE <1>0, <1>1, <1>2, <1>3, <1>4, <1>7 DEF LaunchOK
<1>10. CASE DeployCheck(t)
  BY <1>10, <1>5, <1>6, GotoContinues, RaiseContinues DEF DeployCheck
<1>11. CASE ReloadRead(t)
  <2>1. CASE Present(a)
    BY <1>11, <2>1, <1>5, <1>6, GotoContinues, RaiseContinues DEF ReloadRead
  <2>2. CASE ~Present(a)
    BY <1>11, <2>2, <1>5, <1>6, FinishEnds DEF ReloadRead, Present, Settled
  <2> QED BY <2>1, <2>2
<1>12. CASE StartRead(t)
  BY <1>12, <1>5, <1>6, GotoContinues, RaiseContinues DEF StartRead
<1>13. CASE StartMark(t)
  <2>1. RowOnly(a)
    BY <1>13, MarkRow DEF StartMark
  <2> QED BY <1>13, <2>1, <1>6, GotoContinues DEF StartMark
<1>14. CASE RestartRead(t)
  BY <1>14, <1>5, <1>6, GotoContinues, RaiseContinues DEF RestartRead
<1>15. CASE Build(t)
  <2>1. BoxOK'
    BY <1>15 DEF Build, BoxOK
  <2> QED BY <1>15, <2>1, <1>5, GotoContinues, RaiseContinues DEF Build
<1>16. CASE SelectRow(t)
  <2>1. CASE Present(a)
    BY <1>16, <2>1, <1>5, <1>6, KeepContinues DEF SelectRow
  <2>2. CASE ~Present(a)
    BY <1>16, <2>2, <1>5, <1>6, RaiseContinues DEF SelectRow
  <2> QED BY <2>1, <2>2
<1>17. CASE Prepare(t)
  <2>1. RowOnly(a)
    BY <1>17, <1>5, MarkRow DEF Prepare
  <2>2. Continues(t)
    BY <1>17, KeepContinues, RaiseContinues DEF Prepare
  <2> QED BY <1>17, <2>1, <2>2, <1>6 DEF Prepare
<1>18. CASE PodmanRm(t)
  <2>1. BoxOK'
    BY <1>18, KillOK DEF PodmanRm, BoxOK
  <2> QED BY <1>18, <2>1, <1>5, GotoContinues DEF PodmanRm
<1>19. CASE PodmanRun(t)
  <2>1. FreshCids \subseteq Cid
    BY DEF FreshCids, Cid
  <2>2. BoxOK'
    BY <1>19, <2>1 DEF PodmanRun, BoxOK
  <2>3. Continues(t)
    BY <1>19, <2>1, KeepContinues, RaiseContinues DEF PodmanRun
  <2> QED BY <1>19, <2>2, <2>3, <1>5 DEF PodmanRun
<1>20. CASE Record(t)
  <2>1. RowOnly(a)
    BY <1>20, <1>5, UpdateRowOK, RowTypes DEF Record
  <2>2. Continues(t)
    BY <1>20, GotoContinues, RaiseContinues DEF Record
  <2> QED BY <1>20, <2>1, <2>2, <1>6 DEF Record
<1>21. CASE WaitForReady(t)
  BY <1>21, <1>5, <1>6, GotoContinues, RaiseContinues DEF WaitForReady
<1>22. CASE WriteRunning(t)
  <2>1. CASE UpdateRow(a, [row[a] EXCEPT !.status = "running", !.err = "null"]) /\ Finish(t)
    <3>1. RowOnly(a) /\ Settled(a)
      BY <2>1, SettleRow
    <3> QED BY <1>22, <2>1, <3>1, <1>6, FinishEnds DEF WriteRunning
  <2>2. CASE Raise(t, "cleanup", "other") /\ UNCHANGED row
    BY <1>22, <2>2, <1>5, <1>6, RaiseContinues DEF WriteRunning
  <2> QED BY <1>22, <2>1, <2>2 DEF WriteRunning
<1>23. CASE WriteUnready(t)
  <2>1. CASE UpdateRow(a, [row[a] EXCEPT !.status = "error", !.err = "other"]) /\ Finish(t)
    <3>1. RowOnly(a) /\ Settled(a)
      BY <2>1, SettleRow
    <3> QED BY <1>23, <2>1, <3>1, <1>6, FinishEnds DEF WriteUnready
  <2>2. CASE Raise(t, "cleanup", "other") /\ UNCHANGED row
    BY <1>23, <2>2, <1>5, <1>6, RaiseContinues DEF WriteUnready
  <2> QED BY <1>23, <2>1, <2>2 DEF WriteUnready
<1>24. CASE Cleanup(t)
  <2>1. BoxOK'
    BY <1>24, KillOK DEF Cleanup, BoxOK
  <2>2. Continues(t)
    BY <1>24, GotoContinues, KeepContinues DEF Cleanup
  <2> QED BY <1>24, <2>1, <2>2, <1>5 DEF Cleanup
<1>25. CASE ExcWrite(t)
  <2>1. RowOnly(a)
    BY <1>25, <1>5, UpdateRowOK, RowTypes DEF ExcWrite
  <2> QED BY <1>25, <2>1, <1>6, GotoContinues DEF ExcWrite
<1>26. CASE WriteFail(t)
  <2>1. RowOnly(a) /\ Settled(a)
    BY <1>26, SettleRow DEF WriteFail
  <2> QED BY <1>26, <2>1, <1>6, FinishEnds DEF WriteFail
<1> QED
  BY <1>10, <1>11, <1>12, <1>13, <1>14, <1>15, <1>16, <1>17, <1>18, <1>19, <1>20, <1>21, <1>22,
     <1>23, <1>24, <1>25, <1>26 DEF Launch

-----------------------------------------------------------------------------
(* The steps of a removing thread, and of a recovery between two apps *)

RemoveOK(t) ==
    /\ ThreadsOK' /\ LaunchersKept
    /\ RowOnly(thr[t].app)
    /\ BoxOK'
    /\ row'[thr[t].app] = row[thr[t].app] \/ Settled(thr[t].app)

LEMMA RemoverMoves ==
    ASSUME ThreadsOK, NEW t \in Threads, thr[t].pc \in RemoverPcs,
           NEW p \in RemoverPcs, NEW c \in Cid,
           \/ thr' = [thr EXCEPT ![t].pc = p]
           \/ thr' = [thr EXCEPT ![t].pc = p, ![t].keep = c]
    PROVE  ThreadsOK' /\ LaunchersKept
<1>1. RemoverPcs \subseteq Pcs /\ RemoverPcs \cap LauncherPcs = {}
  BY DEF RemoverPcs, Pcs, LauncherPcs
<1>2. /\ thr' \in [Threads -> Thread]
      /\ \A s \in Threads \ {t} : thr'[s] = thr[s]
      /\ thr'[t].pc = p /\ thr'[t].kind = thr[t].kind
      /\ thr'[t].app = thr[t].app /\ thr'[t].todo = thr[t].todo
  BY <1>1 DEF ThreadsOK, Thread
<1> QED
  BY <1>1, <1>2, SMTT(30) DEF ThreadsOK, ThreadShape, LaunchersKept, Launches, RemoverPcs

LEMMA RemoverEnds ==
    ASSUME ThreadsOK, NEW t \in Threads, thr[t].pc \in RemoverPcs, Finish(t)
    PROVE  ThreadsOK' /\ LaunchersKept
<1>1. Ends(t) /\ thr[t].pc \notin LauncherPcs /\ thr[t].todo = {}
  BY FinishEnds DEF ThreadsOK, ThreadShape, RemoverPcs, LauncherPcs
<1>2. /\ ThreadsOK'
      /\ \A a \in Apps \ {thr[t].app} : \A s \in Threads : Launches(s, a) => Launches(s, a)'
      /\ \A s \in Threads : thr'[s].kind \in {"recover", "sync"} => thr[s].kind \in {"recover", "sync"}
  BY <1>1, EndsOK
<1>3. \A a \in Apps : ~Launches(t, a)
  BY <1>1 DEF Launches
<1>4. \A s \in Threads \ {t} : thr'[s] = thr[s]
  BY <1>1 DEF Ends
<1> QED
  BY <1>2, <1>3, <1>4 DEF LaunchersKept, Launches

LEMMA RemoveSteps ==
    ASSUME TInv, NEW t \in Threads, Remove(t)
    PROVE  RemoveOK(t) /\ UNCHANGED <<threadElse, overlap, forgotten>> /\ abandoned' \subseteq Apps
<1> DEFINE a == thr[t].app
<1>0. ThreadsOK /\ RowsOK /\ BoxOK
  BY DEF TInv
<1>1. thr[t].pc \in RemoverPcs /\ thr[t] \in Thread
  BY <1>0 DEF Remove, ThreadsOK, RemoveRead, RemoveStop, RemovePurge, RemoveDelete, At, RemoverPcs
<1>2. a \in Apps /\ NameOf[a] \in Names /\ row[a].cid \in Cid
  BY <1>0, <1>1, NamesAssumption DEF ThreadsOK, ThreadShape, RowsOK, Rows
<1>3. {"rmstop", "purge", "delete"} \subseteq RemoverPcs /\ None \in Cid
  BY DEF RemoverPcs, Cid
<1>4. ASSUME row' = row PROVE RowOnly(a) /\ row'[a] = row[a]
  BY <1>0, <1>4 DEF RowOnly, RowsOK
<1>5. ASSUME box' = box PROVE BoxOK'
  BY <1>0, <1>5 DEF BoxOK, box
<1>6. UNCHANGED <<threadElse, overlap, forgotten>> /\ abandoned' \subseteq Apps
  BY <1>2 DEF Remove, RemoveRead, RemoveStop, RemovePurge, RemoveDelete, TInv, RestOK, history
<1> USE <1>0, <1>1, <1>2, <1>3, <1>6 DEF RemoveOK
<1>10. CASE RemoveRead(t)
  <2>1. ThreadsOK' /\ LaunchersKept
    BY <1>10, RemoverMoves, RemoverEnds DEF RemoveRead
  <2> QED BY <1>10, <2>1, <1>4, <1>5 DEF RemoveRead
<1>11. CASE RemoveStop(t)
  <2>1. ThreadsOK' /\ LaunchersKept
    BY <1>11, RemoverMoves DEF RemoveStop, Goto
  <2>2. BoxOK'
    BY <1>11, KillOK DEF RemoveStop, BoxOK
  <2> QED BY <1>11, <2>1, <2>2, <1>4 DEF RemoveStop
<1>12. CASE RemovePurge(t)
  <2>1. ThreadsOK' /\ LaunchersKept
    BY <1>12, RemoverMoves DEF RemovePurge, Goto
  <2>2. BoxOK'
    BY <1>12 DEF RemovePurge, BoxOK
  <2> QED BY <1>12, <2>1, <2>2, <1>4 DEF RemovePurge
<1>13. CASE RemoveDelete(t)
  <2>1. ThreadsOK' /\ LaunchersKept
    BY <1>13, RemoverEnds DEF RemoveDelete
  <2>2. RowOnly(a) /\ (row'[a] = row[a] \/ Settled(a))
    <3>1. CASE row' = [row EXCEPT ![a] = NoRow]
      BY <3>1, IdleTypes DEF RowsOK, RowOnly, Settled, NoRow
    <3>2. CASE UpdateRow(a, [row[a] EXCEPT !.status = "error", !.err = "other"])
      BY <3>2, SettleRow, "error" \in Statuses, "other" \in Errors DEF Statuses, Errors
    <3> QED BY <1>13, <1>4, <3>1, <3>2 DEF RemoveDelete
  <2> QED BY <1>13, <2>1, <2>2, <1>5 DEF RemoveDelete
<1> QED
  BY <1>10, <1>11, <1>12, <1>13 DEF Remove

LEMMA RecoverySteps ==
    ASSUME TInv, NEW t \in Threads, NextRecovery(t)
    PROVE  ThreadsOK' /\ LaunchersKept
<1>0. ThreadsOK /\ thr[t].pc = "next" /\ thr[t].kind \in {"recover", "sync"} /\ thr[t] \in Thread
  BY DEF TInv, ThreadsOK, ThreadShape, NextRecovery, At
<1>1. CASE thr[t].todo = {} /\ thr' = [thr EXCEPT ![t] = IdleThread]
  <2>1. \A a \in Apps : ~Launches(t, a)
    BY <1>0, <1>1 DEF Launches, LauncherPcs
  <2>2. thr' \in [Threads -> Thread] /\ thr'[t] = IdleThread /\ \A s \in Threads \ {t} : thr'[s] = thr[s]
    BY <1>0, <1>1, IdleTypes DEF ThreadsOK
  <2>3. ThreadShape(t)'
    BY <2>2 DEF ThreadShape, IdleThread, LauncherPcs, RemoverPcs
  <2> QED BY <1>0, <2>1, <2>2, <2>3 DEF ThreadsOK, ThreadShape, LaunchersKept, Launches
<1>2. ASSUME NEW x \in thr[t].todo,
             thr' = [thr EXCEPT ![t].todo = @ \ {x}, ![t].app = x[1],
                                ![t].pc = IF x[2] THEN "start" ELSE "restart"]
      PROVE  ThreadsOK' /\ LaunchersKept
  <2> DEFINE p == IF x[2] THEN "start" ELSE "restart"
  <2>1. x \in Apps \X BOOLEAN
    BY <1>0 DEF Thread
  <2>2. p \in LauncherPcs /\ p \in Pcs /\ p # "idle" /\ p # "next" /\ p \notin RemoverPcs
    BY DEF LauncherPcs, Pcs, RemoverPcs
  <2>3. thr' = [thr EXCEPT ![t] = [thr[t] EXCEPT !.todo = thr[t].todo \ {x}, !.app = x[1], !.pc = p]]
    BY <1>2 DEF ThreadsOK, Thread
  <2> HIDE DEF p
  <2>4. [thr[t] EXCEPT !.todo = thr[t].todo \ {x}, !.app = x[1], !.pc = p] \in Thread
    BY <1>0, <2>1, <2>2 DEF Thread
  <2>5. /\ thr' \in [Threads -> Thread] /\ \A s \in Threads \ {t} : thr'[s] = thr[s]
        /\ thr'[t].kind = thr[t].kind /\ thr'[t].pc = p
        /\ thr'[t].app = x[1] /\ thr'[t].todo = thr[t].todo \ {x}
    BY <1>0, <2>3, <2>4 DEF ThreadsOK, Thread
  <2>6. ThreadShape(t)'
    BY <1>0, <2>1, <2>2, <2>5 DEF ThreadShape, LauncherKinds
  <2>7. \A a \in Apps : Launches(t, a) => Launches(t, a)'
    BY <1>0, <2>1, <2>2, <2>5 DEF Launches, LauncherKinds, LauncherPcs
  <2> QED BY <1>0, <2>5, <2>6, <2>7 DEF ThreadsOK, ThreadShape, LaunchersKept, Launches
<1> QED
  BY <1>1, <1>2 DEF NextRecovery

-----------------------------------------------------------------------------
(* Every thread step keeps the types and gives up no busy row *)

\* A row that the scan of check_app_status has selected, and is to recover.
Selected(a) == proc = "scan" /\ row[a] = snap[a] /\ a \notin mine

Owners ==
    proc \in {"setup", "scan", "sync", "up"} /\ ~quitting =>
        \A a \in Apps \ forgotten : Busy(a) => Owned(a) \/ Selected(a)

\* A booted process has created no row before the scan; recovery threads exist
\* only after it.
Phases ==
    /\ proc \in {"init", "down"} => mine = {}
    /\ \A t \in Threads : thr[t].kind \in {"recover", "sync"} => proc \in {"sync", "up"}

\* A thread that cannot write its error gives up its app and its list; they are
\* the forgotten ones.
LostFail(t) ==
    /\ ThreadsOK'
    /\ \A a \in Apps \ forgotten' : \A s \in Threads : Launches(s, a) => Launches(s, a)'
    /\ \A s \in Threads : thr'[s].kind \in {"recover", "sync"} => thr[s].kind \in {"recover", "sync"}
    /\ forgotten \subseteq forgotten' /\ forgotten' \subseteq Apps

LEMMA LoseFailStep ==
    ASSUME TInv, NEW t \in Threads, LoseFail(t)
    PROVE  LostFail(t)
<1>0. ThreadsOK /\ thr[t].pc = "fail" /\ forgotten \subseteq Apps
  BY DEF TInv, RestOK, LoseFail, At
<1>1. thr[t] \in Thread /\ thr[t].app \in Apps
  BY <1>0 DEF ThreadsOK, ThreadShape, LauncherPcs
<1>2. forgotten' = forgotten \cup {thr[t].app} \cup {x[1] : x \in thr[t].todo}
  BY DEF LoseFail
<1>3. forgotten \subseteq forgotten' /\ forgotten' \subseteq Apps
  BY <1>0, <1>1, <1>2 DEF Thread
<1>4. thr' \in [Threads -> Thread] /\ thr'[t] = IdleThread /\ \A s \in Threads \ {t} : thr'[s] = thr[s]
  BY <1>0, IdleTypes DEF LoseFail, ThreadsOK
<1>5. ThreadShape(t)' /\ IdleThread.kind = "none"
  BY <1>4 DEF ThreadShape, IdleThread, LauncherPcs, RemoverPcs
<1>6. ASSUME NEW a \in Apps \ forgotten' PROVE ~Launches(t, a)
  <2>1. a # thr[t].app
    BY <1>2, <1>6
  <2>2. ASSUME NEW b \in BOOLEAN, <<a, b>> \in thr[t].todo PROVE FALSE
    <3>1. <<a, b>>[1] \in {x[1] : x \in thr[t].todo}
      BY <2>2
    <3> QED BY <1>2, <1>6, <3>1
  <2> QED BY <2>1, <2>2 DEF Launches
<1>7. ThreadsOK'
  BY <1>0, <1>4, <1>5 DEF ThreadsOK, ThreadShape
<1>8. ASSUME NEW a \in Apps \ forgotten', NEW s \in Threads, Launches(s, a) PROVE Launches(s, a)'
  <2>1. thr'[s] = thr[s]
    BY <1>4, <1>6, <1>8
  <2> QED BY <1>8, <2>1 DEF Launches
<1> QED BY <1>3, <1>4, <1>5, <1>7, <1>8 DEF LostFail

LEMMA ThreadSteps ==
    ASSUME TInv, Phases, Owners, NEW t \in Threads, ThreadStep(t)
    PROVE  TInv' /\ Phases' /\ Owners'
<1>0. ThreadsOK /\ RowsOK
  BY DEF TInv
<1>1. CASE Launch(t)
  <2>1. LaunchOK(t) /\ LauncherHistory
    BY <1>1, LaunchSteps
  <2>2. thr[t].app \in Apps
    BY <1>0, <1>1 DEF Launch, ThreadsOK, ThreadShape, DeployCheck, ReloadRead, StartRead, StartMark,
         RestartRead, Build, SelectRow, Prepare, PodmanRm, PodmanRun, Record, WaitForReady,
         WriteRunning, WriteUnready, Cleanup, ExcWrite, WriteFail, At, LauncherPcs
  <2>3. CASE Continues(t)
    <3>1. ThreadsOK' /\ LaunchersKept
      BY <1>0, <2>3, ContinuesOK
    <3>2. \A a \in Apps : a = thr[t].app => Launches(t, a)'
      BY <1>0, <2>3 DEF Continues, Launches, ThreadsOK, ThreadShape
    <3>3. Owners'
      BY <1>0, <2>1, <3>1, <3>2 DEF Owners, Selected, LaunchOK, RowOnly, LaunchersKept, Owned, Busy,
           threadElse, LauncherHistory
    <3>4. Phases'
      BY <2>1, <3>1 DEF Phases, LaunchersKept, threadElse, LauncherHistory
    <3> QED BY <2>1, <3>1, <3>3, <3>4 DEF TInv, LaunchOK, RowOnly, ReqsOK, GuardOK, RestOK, threadElse, LauncherHistory
  <2>4. CASE Ends(t) /\ Settled(thr[t].app)
    <3>1. /\ ThreadsOK'
          /\ \A a \in Apps \ {thr[t].app} : \A s \in Threads : Launches(s, a) => Launches(s, a)'
          /\ \A s \in Threads : thr'[s].kind \in {"recover", "sync"} => thr[s].kind \in {"recover", "sync"}
      BY <1>0, <2>4, EndsOK
    <3>2. Owners'
      BY <1>0, <2>1, <2>4, <3>1 DEF Owners, Selected, LaunchOK, RowOnly, Owned, Busy, Settled,
           threadElse, LauncherHistory
    <3>3. Phases'
      BY <2>1, <3>1 DEF Phases, threadElse, LauncherHistory
    <3> QED BY <2>1, <3>1, <3>2, <3>3 DEF TInv, LaunchOK, RowOnly, ReqsOK, GuardOK, RestOK, threadElse, LauncherHistory
  <2> QED BY <2>1, <2>3, <2>4 DEF LaunchOK
<1>2. CASE Remove(t)
  <2>1. RemoveOK(t) /\ UNCHANGED <<threadElse, overlap, forgotten>> /\ abandoned' \subseteq Apps
    BY <1>2, RemoveSteps
  <2>2. Owners'
    BY <1>0, <2>1 DEF Owners, Selected, RemoveOK, RowOnly, LaunchersKept, Owned, Busy, Settled,
         threadElse
  <2>3. Phases'
    BY <2>1 DEF Phases, RemoveOK, LaunchersKept, threadElse
  <2> QED BY <2>1, <2>2, <2>3 DEF TInv, RemoveOK, RowOnly, ReqsOK, GuardOK, RestOK, threadElse
<1>3. CASE NextRecovery(t)
  <2>1. ThreadsOK' /\ LaunchersKept
    BY <1>3, RecoverySteps
  <2>2. proc \in {"sync", "up"} /\ proc' \in {proc, "up"}
    BY <1>0, <1>3 DEF NextRecovery, At, Phases, ThreadsOK, ThreadShape
  <2>3. Owners'
    BY <1>3, <2>1, <2>2 DEF NextRecovery, Owners, Selected, LaunchersKept, Owned, Busy, db, history
  <2>4. Phases'
    BY <2>1, <2>2 DEF Phases, LaunchersKept
  <2> QED BY <1>3, <2>1, <2>2, <2>3, <2>4
          DEF NextRecovery, TInv, RowsOK, BoxOK, ReqsOK, GuardOK, RestOK, box, db, history
<1>4. CASE LoseFail(t)
  <2>1. LostFail(t)
    BY <1>0, <1>4, LoseFailStep
  <2>2. Owners'
    BY <1>4, <2>1 DEF LoseFail, LostFail, Owners, Selected, Owned, Busy, threadElse
  <2>3. Phases'
    BY <1>4, <2>1 DEF LoseFail, LostFail, Phases, threadElse
  <2> QED BY <1>4, <2>1, <2>2, <2>3
          DEF LoseFail, LostFail, TInv, RowsOK, BoxOK, ReqsOK, GuardOK, RestOK, box, threadElse
<1> QED
  BY <1>1, <1>2, <1>3, <1>4 DEF ThreadStep, Launch, Remove

-----------------------------------------------------------------------------
(* Requests in flight *)

LEMMA ReqMoves ==
    ASSUME ReqsOK, NEW r \in Reqs, NEW x \in Request, x.pc # "idle" => x.app \in Apps,
           req' = [req EXCEPT ![r] = x], loop' \in Reqs \cup {None}
    PROVE  /\ ReqsOK'
           /\ req'[r] = x /\ \A s \in Reqs \ {r} : req'[s] = req[s]
BY DEF ReqsOK

\* An idle thread launches nothing.
LEMMA IdleLaunchesNone ==
    ASSUME ThreadsOK, NEW t \in Threads, thr[t].pc = "idle"
    PROVE  \A b \in Apps : ~Launches(t, b)
<1>1. thr[t].todo = {}
  BY DEF ThreadsOK, ThreadShape, IdleThread
<1>2. thr[t].pc \notin LauncherPcs
  BY DEF LauncherPcs
<1> QED
  BY <1>1, <1>2 DEF Launches

\* Spawning a thread: it launches its app (unless it removes it), and no other
\* thread loses one.
LEMMA SpawnOK ==
    ASSUME ThreadsOK, NEW t \in Threads, NEW k \in {"deploy", "reload", "remove"}, NEW a \in Apps,
           NEW p \in {"check", "reload", "rmread"}, (k = "remove") = (p = "rmread"), Spawn(t, k, a, p)
    PROVE  /\ ThreadsOK' /\ LaunchersKept
           /\ k # "remove" => Launches(t, a)'
<1> DEFINE x == [IdleThread EXCEPT !.kind = k, !.app = a, !.pc = p]
<1>1. x \in Thread /\ x.kind = k /\ x.app = a /\ x.pc = p /\ x.todo = {}
  BY IdleTypes DEF IdleThread, Thread, LauncherKinds, LauncherPcs, Pcs
<1> HIDE DEF x
<1>2. thr' \in [Threads -> Thread] /\ thr'[t] = x /\ \A s \in Threads \ {t} : thr'[s] = thr[s]
  BY <1>1 DEF ThreadsOK, Spawn, x
<1>3. ThreadShape(t)' /\ (k # "remove" => Launches(t, a)')
  BY <1>1, <1>2 DEF ThreadShape, Launches, LauncherKinds, LauncherPcs, RemoverPcs
<1>4. \A b \in Apps : ~Launches(t, b)
  <2>1. thr[t].pc = "idle"
    BY DEF Spawn
  <2> QED BY <2>1, IdleLaunchesNone
<1> QED
  BY <1>1, <1>2, <1>3, <1>4, ZenonT(60) DEF ThreadsOK, ThreadShape, LaunchersKept, Launches

LEMMA RequestSteps ==
    ASSUME TInv, Phases, Owners, NEW r \in Reqs, ReqStep(r)
    PROVE  TInv' /\ Phases' /\ Owners'
<1> DEFINE a == req[r].app
<1>0. ThreadsOK /\ RowsOK /\ BoxOK /\ ReqsOK /\ GuardOK /\ RestOK /\ req[r] \in Request
  BY DEF TInv, ReqsOK
<1>1. a \in Apps /\ NameOf[a] \in Names
  BY <1>0, NamesAssumption DEF ReqsOK, ReqStep, StopByCid, StopByName, StopWrite, PullDone, Claim, StopOld
<1>2. ASSUME thr' = thr PROVE ThreadsOK' /\ LaunchersKept
  BY <1>0, <1>2 DEF ThreadsOK, ThreadShape, LaunchersKept, Launches
<1>3. ASSUME row' = row PROVE RowOnly(a) /\ row'[a] = row[a]
  BY <1>0, <1>3 DEF RowOnly, RowsOK
<1>4. ASSUME UNCHANGED reqElse PROVE (GuardOK' /\ RestOK') \/ redirected' # redirected
  BY <1>0, <1>4 DEF GuardOK, RestOK, reqElse, history
<1>5. IdleReq \in Request /\ IdleReq.pc = "idle" /\ None \in Cid
  BY IdleTypes DEF IdleReq, Cid
<1>6. ASSUME NEW p \in {"stopname", "stopwrite", "claim", "stopold"}
      PROVE  /\ [req[r] EXCEPT !.pc = p] \in Request
             /\ [req[r] EXCEPT !.pc = p].app = a /\ [req[r] EXCEPT !.pc = p].pc = p
  BY <1>0 DEF Request
<1>7. "error" \in Statuses /\ "other" \in Errors /\ "building" \in Statuses /\ "null" \in Errors /\ "stopped" \in Statuses
  BY DEF Statuses, Errors
<1>8. ASSUME UNCHANGED reqElse, LaunchersKept PROVE Phases'
  BY <1>8 DEF Phases, LaunchersKept, reqElse, history
<1>10. CASE StopByCid(r)
  <2>1. ReqsOK' /\ req'[r].pc = "stopname" /\ \A s \in Reqs \ {r} : req'[s] = req[s]
    BY <1>10, <1>0, <1>1, <1>6, ReqMoves DEF StopByCid, ReqsOK
  <2>2. BoxOK'
    BY <1>10, <1>0, <1>1, KillOK DEF StopByCid, BoxOK, reqElse
  <2>3. Owners'
    BY <1>10, <2>1, <1>2 DEF StopByCid, Owners, Selected, history, Owned, LaunchersKept, Busy, reqElse
  <2> QED BY <1>10, <2>1, <2>2, <2>3, <1>2, <1>3, <1>4, <1>8 DEF StopByCid, TInv, RowOnly
<1>11. CASE StopByName(r)
  <2>1. ReqsOK' /\ req'[r].pc # "stopold" /\ \A s \in Reqs \ {r} : req'[s] = req[s]
    <3>1. CASE req' = [req EXCEPT ![r].pc = "stopwrite"] /\ UNCHANGED loop
      BY <3>1, <1>0, <1>1, <1>6, ReqMoves DEF ReqsOK
    <3>2. CASE req' = [req EXCEPT ![r] = IdleReq] /\ loop' = None
      BY <3>2, <1>0, <1>5, ReqMoves
    <3> QED BY <1>11, <3>1, <3>2 DEF StopByName
  <2>2. BoxOK'
    BY <1>11, <1>0, <1>1, KillOK DEF StopByName, BoxOK, reqElse
  <2>3. Owners'
    BY <1>11, <2>1, <1>2 DEF StopByName, Owners, Selected, history, Owned, LaunchersKept, Busy, reqElse
  <2> QED BY <1>11, <2>1, <2>2, <2>3, <1>2, <1>3, <1>4, <1>8 DEF StopByName, TInv, RowOnly
<1>12. CASE StopWrite(r)
  <2>1. ReqsOK' /\ req'[r].pc = "idle" /\ \A s \in Reqs \ {r} : req'[s] = req[s]
    BY <1>12, <1>0, <1>5, ReqMoves DEF StopWrite
  <2>2. RowOnly(a) /\ (row'[a] = row[a] \/ Settled(a))
    <3>1. [row[a] EXCEPT !.status = "stopped", !.cid = None] \in Rows
      BY <1>0, <1>1, <1>5, <1>7, RowTypes
    <3>2. [row[a] EXCEPT !.status = "stopped", !.cid = None].status = "stopped"
      BY <1>0, <1>1 DEF RowsOK, Rows
    <3> QED BY <1>12, <1>0, <1>1, <1>3, <3>1, <3>2, UpdateRowOK DEF StopWrite, Settled, Present
  <2>3. BoxOK'
    BY <1>12, <1>0 DEF StopWrite, BoxOK, reqElse
  <2>4. Owners'
    BY <1>12, <2>1, <2>2, <1>2 DEF StopWrite, Owners, Selected, history, Owned, LaunchersKept, Busy, reqElse, RowOnly, Settled
  <2> QED BY <1>12, <2>1, <2>2, <2>3, <2>4, <1>2, <1>4, <1>8 DEF StopWrite, TInv, RowOnly
<1>13. CASE PullDone(r)
  <2>1. ReqsOK' /\ req'[r].pc # "stopold" /\ \A s \in Reqs \ {r} : req'[s] = req[s]
    <3>1. CASE req' = [req EXCEPT ![r].pc = "claim"] /\ loop' = r
      BY <3>1, <1>0, <1>1, <1>6, ReqMoves DEF ReqsOK
    <3>2. CASE req' = [req EXCEPT ![r] = IdleReq] /\ UNCHANGED loop
      BY <3>2, <1>0, <1>5, ReqMoves DEF ReqsOK
    <3> QED BY <1>13, <3>1, <3>2 DEF PullDone
  <2>2. RowOnly(a) /\ (row'[a] = row[a] \/ Settled(a))
    BY <1>13, <1>0, <1>1, <1>3, <1>7, SettleRow DEF PullDone
  <2>3. BoxOK' /\ GuardOK' /\ RestOK'
    BY <1>13, <1>0, <1>1 DEF PullDone, BoxOK, GuardOK, RestOK, reqElse, history
  <2>4. Owners'
    BY <1>13, <2>1, <2>2, <1>2 DEF PullDone, Owners, Selected, history, Owned, LaunchersKept, Busy, reqElse, RowOnly, Settled
  <2> QED BY <1>13, <2>1, <2>2, <2>3, <2>4, <1>2, <1>8 DEF PullDone, TInv, RowOnly
<1>14. CASE Claim(r)
  <2>1. BoxOK' /\ GuardOK' /\ RestOK' /\ ThreadsOK' /\ LaunchersKept
    BY <1>14, <1>0, <1>2 DEF Claim, BoxOK, GuardOK, RestOK, reqElse, history
  <2>2. CASE /\ row' = [row EXCEPT ![a] = [status |-> "building", cid |-> None, err |-> "null"]]
             /\ req' = [req EXCEPT ![r].pc = "stopold"]
    <3>1. ReqsOK' /\ req'[r].pc = "stopold" /\ req'[r].app = a /\ \A s \in Reqs \ {r} : req'[s] = req[s]
      BY <1>14, <2>2, <1>0, <1>1, <1>6, ReqMoves DEF Claim, ReqsOK
    <3>2. RowOnly(a)
      BY <2>2, <1>0, <1>1, <1>5, <1>7, RowTypes DEF RowOnly, RowsOK
    <3>3. Owners'
      BY <1>14, <3>1, <3>2, <2>1 DEF Claim, Owners, Selected, history, Owned, LaunchersKept, Busy, reqElse, RowOnly
    <3> QED BY <1>14, <1>8, <2>1, <3>1, <3>2, <3>3 DEF Claim, TInv, RowOnly
  <2>3. CASE /\ req' = [req EXCEPT ![r] = IF req[r].oauth THEN [@ EXCEPT !.pc = "stopold"] ELSE IdleReq]
             /\ UNCHANGED row
    <3>1. ReqsOK' /\ \A s \in Reqs \ {r} : req'[s] = req[s]
      BY <1>14, <2>3, <1>0, <1>1, <1>5, <1>6, ReqMoves DEF Claim, ReqsOK
    <3>2. req[r].pc # "stopold"
      BY <1>14 DEF Claim
    <3>3. Owners'
      BY <1>14, <2>3, <3>1, <3>2, <2>1 DEF Claim, Owners, Selected, history, Owned, LaunchersKept, Busy, reqElse
    <3> QED BY <1>14, <1>8, <1>0, <2>1, <2>3, <3>1, <3>3 DEF Claim, TInv, RowsOK
  <2> QED BY <1>14, <2>2, <2>3 DEF Claim
<1>15. ASSUME NEW t \in Threads, StopOld(r, t) PROVE TInv' /\ Phases' /\ Owners'
  <2>1. ReqsOK' /\ req'[r].pc = "idle" /\ \A s \in Reqs \ {r} : req'[s] = req[s]
    BY <1>15, <1>0, <1>5, ReqMoves DEF StopOld, ReqsOK
  <2>2. ThreadsOK' /\ LaunchersKept /\ \A b \in Apps : b = a => Launches(t, b)'
    BY <1>15, <1>0, <1>1, SpawnOK DEF StopOld
  <2>3. BoxOK' /\ GuardOK' /\ RestOK'
    BY <1>15, <1>0, <1>1, KillOK DEF StopOld, BoxOK, GuardOK, RestOK, reqElse, history
  <2>4. Owners'
    BY <1>15, <2>1, <2>2 DEF StopOld, Owners, Selected, history, Owned, LaunchersKept, Busy, reqElse
  <2> QED BY <1>15, <1>0, <1>8, <2>1, <2>2, <2>3, <2>4 DEF StopOld, TInv, RowsOK
<1> QED
  BY <1>10, <1>11, <1>12, <1>13, <1>14, <1>15 DEF ReqStep

-----------------------------------------------------------------------------
(* New requests of the owner *)

LEMMA StartOnOK ==
    ASSUME RestOK, NEW S \in SUBSET Apps, StartOn(S)
    PROVE  overlap' \subseteq Names
BY NamesAssumption DEF RestOK, StartOn

\* The counters' and flags' types after a request.
LEMMA ServingOK ==
    ASSUME RestOK, NEW e, NEW ps, Serving(e, ps)
    PROVE  nreq' \in 0..MaxReq /\ proc \in ps /\ ~quitting
BY BoundsAssumption DEF RestOK, Serving

LEMMA AddSteps ==
    ASSUME TInv, Owners, Phases, NEW a \in Apps, NEW t \in Threads, AddApp(a, t)
    PROVE  TInv' /\ Owners' /\ Phases'
<1>0. ThreadsOK /\ RowsOK /\ BoxOK /\ ReqsOK /\ GuardOK /\ RestOK
  BY DEF TInv
<1>1. Spawn(t, "deploy", a, "check")
  BY DEF AddApp
<1>2. ThreadsOK' /\ LaunchersKept /\ Launches(t, a)'
  BY <1>0, <1>1, SpawnOK
<1>3. proc' = proc /\ proc \in {"setup", "up"} /\ ~quitting /\ nreq' \in 0..MaxReq
  BY <1>0, ServingOK DEF AddApp
<1>4. RowsOK' /\ \A b \in Apps \ {a} : row'[b] = row[b]
  BY <1>0, RowTypes, "building" \in Statuses, None \in Cid, "null" \in Errors
     DEF AddApp, RowsOK, Statuses, Cid, Errors
<1>5. RestOK'
  BY <1>0, <1>3, StartOnOK, {a} \in SUBSET Apps DEF AddApp, RestOK
<1>6. TInv'
  BY <1>0, <1>2, <1>4, <1>5 DEF AddApp, TInv, BoxOK, ReqsOK, GuardOK, box
<1>7. Owners'
  BY <1>2, <1>3, <1>4 DEF AddApp, Owners, Selected, Owned, Busy, LaunchersKept
<1>8. Phases'
  BY <1>2, <1>3 DEF AddApp, Phases, LaunchersKept
<1> QED BY <1>6, <1>7, <1>8

\* A request that is served only when the router is up, and starts no recovery.
LEMMA UpKeepsPhases ==
    ASSUME Phases, proc = "up", proc' = proc
    PROVE  Phases'
BY DEF Phases

LEMMA StopSteps ==
    ASSUME TInv, Owners, NEW r \in Reqs, NEW a \in Apps, StopApp(r, a)
    PROVE  TInv' /\ Owners' /\ proc = "up" /\ proc' = proc
<1>0. ThreadsOK /\ RowsOK /\ BoxOK /\ ReqsOK /\ GuardOK /\ RestOK
  BY DEF TInv
<1>1. proc' = proc /\ proc = "up" /\ nreq' \in 0..MaxReq
  BY <1>0, ServingOK DEF StopApp
<1> DEFINE x == [pc |-> "stopcid", app |-> a, cid |-> row[a].cid, oauth |-> FALSE]
<1>2. x \in Request /\ x.pc = "stopcid" /\ x.app = a
  BY <1>0 DEF Request, RowsOK, Rows
<1>3. req' = [req EXCEPT ![r] = x] /\ req[r].pc = "idle" /\ loop' = r
  BY DEF StopApp
<1> HIDE DEF x
<1>4. ReqsOK' /\ \A s \in Reqs \ {r} : req'[s] = req[s]
  BY <1>0, <1>2, <1>3, ReqMoves
<1>5. RestOK'
  BY <1>0, <1>1, StartOnOK, {a} \in SUBSET Apps DEF StopApp, RestOK, db
<1>6. TInv'
  BY <1>0, <1>4, <1>5 DEF StopApp, TInv, ThreadsOK, ThreadShape, RowsOK, BoxOK, GuardOK, box, db
<1>7. Owners'
  BY <1>3, <1>4 DEF StopApp, Owners, Selected, Owned, Launches, Busy, db
<1> QED BY <1>1, <1>6, <1>7

LEMMA ReloadSteps ==
    ASSUME TInv, Owners, NEW r \in Reqs, NEW a \in Apps, NEW update \in BOOLEAN, NEW oauth \in BOOLEAN,
           ReloadApp(r, a, update, oauth)
    PROVE  TInv' /\ Owners' /\ proc = "up" /\ proc' = proc
<1>0. ThreadsOK /\ RowsOK /\ BoxOK /\ ReqsOK /\ GuardOK /\ RestOK
  BY DEF TInv
<1>1. proc' = proc /\ proc = "up" /\ nreq' \in 0..MaxReq
  BY <1>0, ServingOK DEF ReloadApp
<1> DEFINE x == [pc |-> IF update THEN "pull" ELSE "claim", app |-> a, cid |-> row[a].cid, oauth |-> oauth]
<1>2. x \in Request /\ x.pc \in {"pull", "claim"} /\ x.app = a
  BY <1>0 DEF Request, RowsOK, Rows
<1>3. req[r].pc = "idle"
  BY DEF ReloadApp
<1>4. ReqsOK' /\ \A s \in Reqs \ {r} : req'[s] = req[s]
  <2>1. CASE req' = [req EXCEPT ![r] = x] /\ loop' = IF update THEN None ELSE r
    <3> HIDE DEF x
    <3> QED BY <2>1, <1>0, <1>2, ReqMoves
  <2>2. CASE UNCHANGED <<req, loop>>
    BY <2>2, <1>0 DEF ReqsOK
  <2> QED BY <2>1, <2>2 DEF ReloadApp
<1>5. RestOK'
  BY <1>0, <1>1, StartOnOK, {a} \in SUBSET Apps DEF ReloadApp, RestOK
<1>6. RowOnly(a) /\ (row'[a] = row[a] \/ Settled(a))
  <2>1. CASE row' = row
    BY <2>1, <1>0 DEF RowOnly, RowsOK
  <2>2. CASE UpdateRow(a, [row[a] EXCEPT !.status = "error", !.err = "other"])
    BY <2>2, <1>0, SettleRow, "error" \in Statuses, "other" \in Errors DEF Statuses, Errors
  <2> QED BY <2>1, <2>2 DEF ReloadApp
<1>7. TInv'
  BY <1>0, <1>4, <1>5, <1>6 DEF ReloadApp, TInv, ThreadsOK, ThreadShape, RowOnly, BoxOK, GuardOK, box
<1>8. Owners'
  BY <1>3, <1>4, <1>6 DEF ReloadApp, Owners, Selected, Owned, Launches, Busy, RowOnly, Settled
<1> QED BY <1>1, <1>7, <1>8

LEMMA RemoveAppSteps ==
    ASSUME TInv, Owners, NEW a \in Apps, NEW t \in Threads, RemoveApp(a, t)
    PROVE  TInv' /\ Owners' /\ proc = "up" /\ proc' = proc
<1>0. ThreadsOK /\ RowsOK /\ BoxOK /\ ReqsOK /\ GuardOK /\ RestOK
  BY DEF TInv
<1>1. proc' = proc /\ proc = "up" /\ nreq' \in 0..MaxReq
  BY <1>0, ServingOK DEF RemoveApp
<1>2. ThreadsOK' /\ LaunchersKept
  <2>1. CASE Spawn(t, "remove", a, "rmread")
    BY <2>1, <1>0, SpawnOK
  <2>2. CASE thr' = thr
    BY <2>2, <1>0 DEF ThreadsOK, ThreadShape, LaunchersKept, Launches
  <2> QED BY <2>1, <2>2 DEF RemoveApp
<1>3. RowOnly(a) /\ Settled(a)
  BY <1>0 DEF RemoveApp, RowsOK, Rows, Statuses, Errors, RowOnly, Settled
<1>4. RestOK'
  <2>1. abandoned' \subseteq Apps
    BY <1>0 DEF RemoveApp, RestOK
  <2> QED BY <1>0, <1>1, <2>1, StartOnOK, {a} \in SUBSET Apps DEF RemoveApp, RestOK
<1>5. TInv'
  BY <1>0, <1>2, <1>3, <1>4 DEF RemoveApp, TInv, RowOnly, BoxOK, ReqsOK, GuardOK, box
<1>6. Owners'
  BY <1>2, <1>3 DEF RemoveApp, Owners, Selected, Owned, LaunchersKept, Busy, RowOnly, Settled
<1> QED BY <1>1, <1>5, <1>6

LEMMA PromoteSteps ==
    ASSUME TInv, Owners, PromoteDomain
    PROVE  TInv' /\ Owners' /\ proc = "up" /\ proc' = proc
<1>0. ThreadsOK /\ RowsOK /\ BoxOK /\ ReqsOK /\ GuardOK /\ RestOK
  BY DEF TInv
<1>1. proc' = proc /\ proc = "up" /\ nreq' \in 0..MaxReq /\ quitting' = TRUE
  <2>1. Serving("promote", {"up"}) /\ proc' = proc /\ quitting' = TRUE
    BY DEF PromoteDomain
  <2>2. nreq' \in 0..MaxReq /\ proc \in {"up"}
    BY <1>0, <2>1, ServingOK
  <2> QED BY <2>1, <2>2
<1> DEFINE marked == {a \in Apps : \/ row[a].status = "running"
                                   \/ row[a].status = "error" /\ row[a].cid # None}
<1>2. marked \in SUBSET Apps /\ StartOn(marked)
  BY DEF PromoteDomain
<1>3. RowsOK'
  <2>1. \A a \in Apps : [row[a] EXCEPT !.status = "starting", !.err = "marker"] \in Rows
    BY <1>0 DEF RowsOK, Rows, Statuses, Errors
  <2>2. row' = [a \in Apps |-> IF a \in marked THEN [row[a] EXCEPT !.status = "starting", !.err = "marker"]
                               ELSE row[a]]
    BY DEF PromoteDomain
  <2> QED BY <1>0, <2>1, <2>2 DEF RowsOK
<1> HIDE DEF marked
<1>4. RestOK'
  BY <1>0, <1>1, <1>2, StartOnOK DEF PromoteDomain, RestOK
<1>5. TInv'
  BY <1>0, <1>3, <1>4 DEF PromoteDomain, TInv, ThreadsOK, ThreadShape, BoxOK, ReqsOK, GuardOK, box
<1>6. Owners'
  BY <1>1 DEF Owners
<1> QED BY <1>1, <1>5, <1>6

-----------------------------------------------------------------------------
(* The storage guard *)

LEMMA GuardSteps ==
    ASSUME TInv, Owners, Phases, GuardSelect \/ GuardStep
    PROVE  TInv' /\ Owners' /\ Phases'
<1>0. ThreadsOK /\ RowsOK /\ BoxOK /\ ReqsOK /\ GuardOK /\ RestOK
  BY DEF TInv
<1>1. ASSUME thr' = thr, req' = req
      PROVE  ThreadsOK' /\ \A a \in Apps : Owned(a) => Owned(a)'
  BY <1>0, <1>1 DEF ThreadsOK, ThreadShape, Owned, Launches
<1>2. CASE GuardSelect
  <2> DEFINE S == {a \in Apps : row[a].status \in {"running", "starting"}}
  <2>1. S \in SUBSET Apps /\ StartOn(S) /\ proc = "up"
        /\ grd' = [pc |-> "stop", todo |-> {<<a, row[a].cid>> : a \in S}, app |-> None]
    BY <1>2 DEF GuardSelect
  <2>2. {<<a, row[a].cid>> : a \in S} \subseteq Apps \X Cid
    <3>1. \A a \in S : a \in Apps /\ row[a].cid \in Cid
      BY <1>0 DEF RowsOK, Rows
    <3> HIDE DEF S
    <3> QED BY <3>1
  <2>3. GuardOK'
    BY <2>1, <2>2 DEF GuardOK, Guard
  <2> HIDE DEF S
  <2>4. RestOK'
    BY <1>0, <1>2, <2>1, StartOnOK DEF GuardSelect, RestOK, db
  <2>5. Owners' /\ TInv'
    BY <1>0, <1>1, <1>2, <2>3, <2>4 DEF GuardSelect, TInv, RowsOK, BoxOK, ReqsOK, box, db, Owners, Selected, history, Busy
  <2> QED BY <1>2, <2>1, <2>5, UpKeepsPhases DEF GuardSelect
<1>3. CASE GuardStop
  <2>1. PICK x \in grd.todo : Kill(NameOf[x[1]], x[2])
                              /\ grd' = [pc |-> "write", todo |-> grd.todo \ {x}, app |-> x[1]]
    BY <1>3 DEF GuardStop
  <2>2. x \in Apps \X Cid /\ x[1] \in Apps /\ NameOf[x[1]] \in Names
    BY <1>0, NamesAssumption DEF GuardOK, Guard
  <2>3. GuardOK'
    BY <1>0, <2>1, <2>2 DEF GuardOK, Guard
  <2>4. BoxOK'
    BY <1>0, <1>3, <2>1, <2>2, KillOK DEF GuardStop, BoxOK
  <2>5. Owners' /\ TInv'
    BY <1>0, <1>1, <1>3, <2>3, <2>4 DEF GuardStop, TInv, RowsOK, ReqsOK, RestOK, db, history, Owners, Selected, history, Busy
  <2> QED BY <1>3, <2>5 DEF GuardStop, Phases, db, history
<1>4. CASE GuardWrite
  <2>1. grd.app \in Apps
    BY <1>0, <1>4 DEF GuardWrite, GuardOK
  <2>2. RowOnly(grd.app)
    <3>1. CASE row' = row
      BY <1>0, <3>1 DEF RowOnly, RowsOK
    <3>2. CASE row' # row
      BY <1>0, <1>4, <2>1, <3>2, UpdateRowOK, RowTypes, "error" \in Statuses, "other" \in Errors, None \in Cid
         DEF GuardWrite, Statuses, Errors, Cid
    <3> QED BY <3>1, <3>2
  <2>3. row'[grd.app] = row[grd.app] \/ row'[grd.app].status = "error"
    BY <1>0, <1>4, <2>1 DEF GuardWrite, UpdateRow, RowsOK
  <2>4. GuardOK'
    BY <1>0, <1>4, IdleTypes DEF GuardWrite, GuardOK, Guard, IdleGuard
  <2>5. Owners'
    BY <1>1, <1>4, <2>1, <2>2, <2>3 DEF GuardWrite, RowOnly, Owners, Selected, history, Busy
  <2>6. TInv'
    BY <1>0, <1>1, <1>4, <2>2, <2>4 DEF GuardWrite, TInv, RowOnly, BoxOK, ReqsOK, RestOK, box, history
  <2> QED BY <1>4, <2>5, <2>6 DEF GuardWrite, Phases, history
<1> QED
  BY <1>2, <1>3, <1>4 DEF GuardStep

-----------------------------------------------------------------------------
(* The process *)

LEMMA ProcessSteps ==
    ASSUME TInv, Phases, Exit \/ Crash \/ Boot
    PROVE  TInv' /\ Owners' /\ Phases'
<1>0. ThreadsOK /\ RowsOK /\ BoxOK /\ ReqsOK /\ GuardOK /\ RestOK
  BY DEF TInv
<1>1. CASE Exit \/ Crash
  <2>1. Die
    BY <1>1 DEF Exit, Crash
  <2>2. ThreadsOK'
    <3>1. thr' = [t \in Threads |-> IdleThread]
      BY <2>1 DEF Die
    <3>2. \A t \in Threads : ThreadShape(t)'
      BY <3>1 DEF ThreadShape, IdleThread, LauncherPcs, RemoverPcs
    <3> QED BY <3>1, <3>2, IdleTypes DEF ThreadsOK
  <2>3. ReqsOK' /\ GuardOK'
    <3>1. IdleReq.pc = "idle" /\ IdleGuard.pc = "idle"
      BY DEF IdleReq, IdleGuard
    <3> QED BY <2>1, <3>1, IdleTypes DEF Die, ReqsOK, GuardOK
  <2>4. BoxOK'
    BY <1>0, <1>1, <2>1 DEF Exit, Crash, Die, BoxOK, Cid
  <2>5. RestOK'
    <3>1. ncrash' \in 0..MaxCrash
      BY <1>0, <1>1, BoundsAssumption DEF Exit, Crash, RestOK
    <3> QED BY <1>0, <2>1, <3>1, IdleTypes DEF Die, RestOK, NoRows
  <2>6. RowsOK'
    BY <1>0, <2>1 DEF Die, RowsOK
  <2>7. proc' = "down" /\ mine' = {} /\ forgotten' = {} /\ \A t \in Threads : thr'[t].kind = "none"
    BY <2>1 DEF Die, IdleThread
  <2> QED BY <2>2, <2>3, <2>4, <2>5, <2>6, <2>7 DEF TInv, Owners, Phases
<1>2. CASE Boot
  BY <1>0, <1>2 DEF Boot, TInv, ThreadsOK, ThreadShape, RowsOK, BoxOK, ReqsOK, GuardOK, RestOK, db, box,
     history, Owners, Phases
<1> QED BY <1>1, <1>2

-----------------------------------------------------------------------------
(* check_app_status *)

LEMMA RecoveryThreadOK ==
    ASSUME NEW k \in {"sync", "recover"}, NEW q \in SUBSET (Apps \X BOOLEAN)
    PROVE  /\ RecoveryThread(k, q) \in Thread
           /\ RecoveryThread(k, q).kind = k /\ RecoveryThread(k, q).pc = "next"
           /\ RecoveryThread(k, q).todo = q
BY IdleTypes DEF RecoveryThread, IdleThread, Thread, LauncherKinds, Pcs

LEMMA QueuesOK ==
    ASSUME TInv, NEW lost \in SUBSET Apps
    PROVE  Promoted(lost) \in SUBSET (Apps \X BOOLEAN) /\ ToRecover(lost) \in SUBSET (Apps \X BOOLEAN)
<1>1. \A a \in Apps : NeedsBuild(a) \in BOOLEAN
  BY NamesAssumption DEF NeedsBuild, TInv, BoxOK
<1>2. ASSUME NEW x \in Promoted(lost) PROVE x \in Apps \X BOOLEAN
  <2>1. PICK a \in Apps : x = <<a, NeedsBuild(a)>>
    BY <1>2 DEF Promoted
  <2> QED BY <1>1, <2>1
<1>3. ASSUME NEW x \in ToRecover(lost) PROVE x \in Apps \X BOOLEAN
  <2>1. PICK a \in Apps : x = <<a, NeedsBuild(a)>> \/ x = <<a, TRUE>>
    BY <1>3 DEF ToRecover
  <2>2. CASE x = <<a, NeedsBuild(a)>>
    BY <1>1, <2>2
  <2>3. CASE x = <<a, TRUE>>
    BY <2>3
  <2> QED BY <2>1, <2>2, <2>3
<1> QED BY <1>2, <1>3

LEMMA CheckSteps ==
    ASSUME TInv, Owners, Phases, NEW lost \in SUBSET Apps, NEW ts \in Threads, NEW tb \in Threads,
           CheckAppStatus(lost, ts, tb)
    PROVE  TInv' /\ Owners' /\ Phases'
<1> DEFINE P == Promoted(lost)
<1> DEFINE Q == ToRecover(lost)
<1>0. ThreadsOK /\ RowsOK /\ BoxOK /\ ReqsOK /\ GuardOK /\ RestOK
  BY DEF TInv
<1>1. P \in SUBSET (Apps \X BOOLEAN) /\ Q \in SUBSET (Apps \X BOOLEAN)
  BY QueuesOK
<1>2. /\ ts # tb /\ thr[ts].pc = "idle" /\ thr[tb].pc = "idle"
      /\ proc = "scan" /\ proc' \in {"sync", "up"} /\ quitting' = quitting
      /\ row' = [a \in Apps |-> CheckedRow(a, lost)]
      /\ thr' = [t \in Threads |-> IF t = ts /\ P # {} THEN RecoveryThread("sync", P)
                                   ELSE IF t = tb /\ Q # {} THEN RecoveryThread("recover", Q)
                                   ELSE thr[t]]
  BY DEF CheckAppStatus
<1>3. StartOn({x[1] : x \in P \cup Q})
  BY DEF CheckAppStatus
<1> HIDE DEF P, Q
<1>4. ThreadsOK' /\ \A a \in Apps : \A s \in Threads : Launches(s, a) => Launches(s, a)'
  <2>1. /\ RecoveryThread("sync", P) \in Thread /\ RecoveryThread("sync", P).kind = "sync"
        /\ RecoveryThread("sync", P).pc = "next"
    BY <1>1, RecoveryThreadOK
  <2>2. /\ RecoveryThread("recover", Q) \in Thread /\ RecoveryThread("recover", Q).kind = "recover"
        /\ RecoveryThread("recover", Q).pc = "next"
    BY <1>1, RecoveryThreadOK
  <2>3. \A t \in Threads :
            \/ thr'[t] = thr[t]
            \/ /\ thr[t].pc = "idle" /\ thr'[t] \in Thread
               /\ thr'[t].kind \in {"sync", "recover"} /\ thr'[t].pc = "next"
    BY <1>2, <2>1, <2>2
  <2>4. thr' \in [Threads -> Thread]
    BY <1>0, <1>2, <2>1, <2>2 DEF ThreadsOK
  <2>5. \A t \in Threads : ThreadShape(t)'
    BY <1>0, <2>3 DEF ThreadsOK, ThreadShape, LauncherPcs, RemoverPcs
  <2>6. ASSUME NEW a \in Apps, NEW s \in Threads, Launches(s, a) PROVE Launches(s, a)'
    <3>1. thr[s].pc # "idle"
      BY <1>0, <2>6, IdleLaunchesNone
    <3>2. thr'[s] = thr[s]
      BY <2>3, <3>1
    <3> QED BY <2>6, <3>2 DEF Launches
  <2> QED BY <2>4, <2>5, <2>6 DEF ThreadsOK
<1>5. \A a \in Apps : \A b \in BOOLEAN :
        /\ <<a, b>> \in P => Launches(ts, a)'
        /\ <<a, b>> \in Q => Launches(tb, a)'
  <2>1. RecoveryThread("sync", P).todo = P /\ RecoveryThread("recover", Q).todo = Q
    BY <1>1, RecoveryThreadOK
  <2>2. (P # {} => thr'[ts].todo = P) /\ (Q # {} => thr'[tb].todo = Q)
    BY <1>2, <2>1
  <2> QED BY <2>2 DEF Launches
<1>6. \A a \in Apps : row[a] \in Rows /\ row'[a] = CheckedRow(a, lost) /\ NeedsBuild(a) \in BOOLEAN
  BY <1>0, <1>2, NamesAssumption DEF RowsOK, NeedsBuild, BoxOK
<1>7. RowsOK'
  <2>1. \A a \in Apps : CheckedRow(a, lost) \in Rows
    <3> SUFFICES ASSUME NEW a \in Apps PROVE CheckedRow(a, lost) \in Rows
      OBVIOUS
    <3>1. /\ row[a] \in Rows
          /\ [row[a] EXCEPT !.status = "running"] \in Rows
          /\ [row[a] EXCEPT !.status = "error", !.err = "other"] \in Rows
          /\ [row[a] EXCEPT !.status = "starting"] \in Rows
          /\ [row[a] EXCEPT !.status = "starting", !.err = "null"] \in Rows
      BY <1>6 DEF Rows, Statuses, Errors
    <3>2. ScannedRow(a, lost) \in Rows
      BY <3>1 DEF ScannedRow
    <3> QED BY <3>1, <3>2 DEF CheckedRow
  <2> QED BY <1>2, <2>1 DEF RowsOK
<1>8. RestOK'
  <2>1. {x[1] : x \in P \cup Q} \in SUBSET Apps
    BY <1>1
  <2>2. overlap' \subseteq Names
    BY <1>0, <1>3, <2>1, StartOnOK
  <2>3. snap' \in [Apps -> Rows]
    BY IdleTypes DEF CheckAppStatus, NoRows
  <2>4. forgotten' \subseteq Apps
    BY <1>0 DEF CheckAppStatus, RestOK
  <2> QED BY <1>0, <1>2, <2>2, <2>3, <2>4 DEF CheckAppStatus, RestOK
<1>9. TInv'
  BY <1>0, <1>4, <1>7, <1>8 DEF CheckAppStatus, TInv, BoxOK, ReqsOK, GuardOK, box
<1>10. ASSUME NEW a \in Apps, a \notin forgotten', Busy(a)', ~quitting
       PROVE  Owned(a)'
  <2>1. CASE Recovers(a, lost)
    <3>1. CASE PromotionRestart(a)
      <4>1. <<a, NeedsBuild(a)>> \in P
        BY <2>1, <3>1 DEF P, Promoted
      <4> QED BY <4>1, <1>5, <1>6 DEF Owned
    <3>2. CASE ~PromotionRestart(a) /\ ~DeployedHere(a)
      <4>1. <<a, NeedsBuild(a)>> \in Q
        BY <2>1, <3>2 DEF Q, ToRecover
      <4> QED BY <4>1, <1>5, <1>6 DEF Owned
    <3>3. CASE DeployedHere(a)
      <4>1. PICK t \in Threads : Launches(t, a)
        BY <1>10, <2>1, <3>3 DEF CheckAppStatus
      <4> QED BY <1>4, <4>1 DEF Owned
    <3> QED BY <3>1, <3>2, <3>3
  <2>2. CASE Corrupt(a, lost)
    <3>1. <<a, TRUE>> \in Q
      BY <2>2 DEF Q, ToRecover
    <3> QED BY <3>1, <1>5 DEF Owned
  <2>3. CASE ~Recovers(a, lost) /\ ~Corrupt(a, lost)
    <3>1. row'[a] = row[a] /\ ~(KeepsRunning(a) /\ snap[a].status = "building") /\ ~Unrecoverable(a, lost)
      BY <2>3, <1>6, <1>10 DEF CheckedRow, ScannedRow, Busy, Rows
    <3>2. Busy(a) /\ a \notin forgotten
      <4>1. ASSUME NEW x \in P \cup Q, x[1] = a PROVE FALSE
        <5>1. \E b \in Apps : /\ Recovers(b, lost) \/ Corrupt(b, lost)
                              /\ x = <<b, NeedsBuild(b)>> \/ x = <<b, TRUE>>
          <6>1. CASE x \in P
            <7>1. PICK b \in {c \in Apps : Recovers(c, lost) /\ PromotionRestart(c)} : x = <<b, NeedsBuild(b)>>
              BY <6>1, Zenon DEF P, Promoted
            <7> QED BY <7>1, Zenon
          <6>2. CASE x \in {<<b, TRUE>> : b \in {c \in Apps : Corrupt(c, lost)}}
            <7>1. PICK b \in {c \in Apps : Corrupt(c, lost)} : x = <<b, TRUE>>
              BY <6>2, Zenon
            <7> QED BY <7>1, Zenon
          <6>3. CASE x \in {<<b, NeedsBuild(b)>> :
                             b \in {c \in Apps : Recovers(c, lost) /\ ~PromotionRestart(c) /\ ~DeployedHere(c)}}
            <7>1. PICK b \in {c \in Apps : Recovers(c, lost) /\ ~PromotionRestart(c) /\ ~DeployedHere(c)} :
                    x = <<b, NeedsBuild(b)>>
              BY <6>3, Zenon
            <7> QED BY <7>1, Zenon
          <6> QED BY <4>1, <6>1, <6>2, <6>3, Zenon DEF Q, ToRecover
        <5>2. PICK b \in Apps : /\ Recovers(b, lost) \/ Corrupt(b, lost)
                                /\ x = <<b, NeedsBuild(b)>> \/ x = <<b, TRUE>>
          BY <5>1, Zenon
        <5>3. x[1] = b
          <6>1. CASE x = <<b, NeedsBuild(b)>>
            BY <6>1
          <6>2. CASE x = <<b, TRUE>>
            BY <6>2
          <6> QED BY <5>2, <6>1, <6>2, Zenon
        <5>4. b = a
          BY <4>1, <5>3
        <5> QED BY <2>3, <5>2, <5>4
      <4>2. a \notin {x[1] : x \in P \cup Q}
        BY <4>1
      <4>3. forgotten \ {x[1] : x \in P \cup Q} \subseteq forgotten'
        BY DEF CheckAppStatus, P, Q
      <4>5. a \notin forgotten
        BY <1>10, <4>2, <4>3
      <4> QED BY <1>10, <3>1, <4>5 DEF Busy
    <3>3. Owned(a) \/ Selected(a)
      BY <1>2, <1>10, <3>2 DEF Owners
    <3>4. ASSUME Selected(a) PROVE FALSE
      <4>1. row[a] = snap[a] /\ a \notin mine
        BY <3>4 DEF Selected
      <4>2. Scanned(a) /\ snap[a].status # "running"
        BY <3>2, <4>1 DEF Scanned, Busy
      <4>3. ~KeepsRunning(a)
        BY <3>1, <3>2, <4>1 DEF KeepsRunning, Busy
      <4> QED BY <2>3, <3>1, <4>2, <4>3 DEF Recovers
    <3>5. req' = req
      BY DEF CheckAppStatus
    <3> QED BY <1>4, <3>3, <3>4, <3>5 DEF Owned
  <2> QED BY <2>1, <2>2, <2>3
<1>11. Owners'
  BY <1>2, <1>10 DEF Owners
<1>12. Phases'
  BY <1>2 DEF Phases
<1> QED BY <1>9, <1>11, <1>12

LEMMA SelectSteps ==
    ASSUME TInv, Owners, Phases, ScanSelect
    PROVE  TInv' /\ Owners' /\ Phases'
<1>1. TInv'
  BY DEF ScanSelect, TInv, ThreadsOK, ThreadShape, RowsOK, BoxOK, ReqsOK, GuardOK, RestOK, box, history
<1>2. Owners'
  <2> SUFFICES ASSUME ~quitting, NEW a \in Apps \ forgotten, Busy(a) PROVE Owned(a)' \/ Selected(a)'
    BY DEF Owners, ScanSelect, Busy, history
  <2>1. CASE proc = "setup"
    BY <2>1 DEF ScanSelect, Owners, Selected, Owned, Launches
  <2>2. CASE proc = "init"
    BY <2>2 DEF ScanSelect, Phases, Selected
  <2> QED BY <2>1, <2>2 DEF ScanSelect
<1>3. Phases'
  BY DEF ScanSelect, Phases, history
<1> QED BY <1>1, <1>2, <1>3

-----------------------------------------------------------------------------
(* The inductive invariant *)

IInv == TInv /\ Owners /\ Phases

LEMMA InitInv == Init => IInv
<1> SUFFICES ASSUME Init PROVE IInv
  OBVIOUS
<1>1. ThreadsOK
  <2>1. \A t \in Threads : ThreadShape(t)
    BY DEF Init, ThreadShape, IdleThread, LauncherPcs, RemoverPcs
  <2> QED BY <2>1, IdleTypes DEF Init, ThreadsOK
<1>2. RowsOK
  BY IdleTypes DEF Init, RowsOK, NoRows
<1>3. BoxOK
  BY DEF Init, BoxOK, Cid
<1>4. ReqsOK /\ GuardOK
  <2>1. IdleReq.pc = "idle" /\ IdleGuard.pc = "idle"
    BY DEF IdleReq, IdleGuard
  <2> QED BY <2>1, IdleTypes DEF Init, ReqsOK, GuardOK
<1>5. RestOK
  <2>1. 0 \in 0..MaxReq /\ 0 \in 0..MaxCrash
    BY BoundsAssumption
  <2> QED BY <2>1, IdleTypes DEF Init, RestOK, NoRows
<1>6. \A a \in Apps : row[a].status = "none"
  BY DEF Init, NoRow, NoRows
<1>7. Owners
  BY <1>6 DEF Owners, Busy
<1>8. Phases
  BY DEF Init, Phases, IdleThread
<1> QED BY <1>1, <1>2, <1>3, <1>4, <1>5, <1>7, <1>8 DEF IInv, TInv

LEMMA StepInv == IInv /\ [Next]_vars => IInv'
<1> SUFFICES ASSUME TInv, Owners, Phases, [Next]_vars PROVE IInv'
  BY DEF IInv
<1>1. ASSUME NEW t \in Threads, ThreadStep(t) PROVE IInv'
  BY <1>1, ThreadSteps DEF IInv
<1>2. ASSUME NEW r \in Reqs, ReqStep(r) PROVE IInv'
  BY <1>2, RequestSteps DEF IInv
<1>3. ASSUME NEW a \in Apps, NEW t \in Threads, AddApp(a, t) PROVE IInv'
  BY <1>3, AddSteps DEF IInv
<1>4. ASSUME NEW a \in Apps, NEW t \in Threads, RemoveApp(a, t) PROVE IInv'
  BY <1>4, RemoveAppSteps, UpKeepsPhases DEF IInv
<1>5. ASSUME NEW r \in Reqs, NEW a \in Apps, StopApp(r, a) PROVE IInv'
  BY <1>5, StopSteps, UpKeepsPhases DEF IInv
<1>6. ASSUME NEW r \in Reqs, NEW a \in Apps, NEW update \in BOOLEAN, NEW oauth \in BOOLEAN,
             ReloadApp(r, a, update, oauth)
      PROVE  IInv'
  BY <1>6, ReloadSteps, UpKeepsPhases DEF IInv
<1>7. CASE PromoteDomain
  BY <1>7, PromoteSteps, UpKeepsPhases DEF IInv
<1>8. CASE GuardSelect \/ GuardStep
  BY <1>8, GuardSteps DEF IInv
<1>9. CASE Exit \/ Crash \/ Boot
  BY <1>9, ProcessSteps DEF IInv
<1>10. CASE StartUp
  BY <1>10, SelectSteps, CheckSteps DEF StartUp, IInv
<1>11. CASE UNCHANGED vars
  <2>1. TInv'
    BY <1>11 DEF vars, history, TInv, ThreadsOK, ThreadShape, RowsOK, BoxOK, ReqsOK, GuardOK, RestOK
  <2>2. Owners'
    BY <1>11 DEF vars, history, Owners, Selected, Owned, Launches, Busy
  <2>3. Phases'
    BY <1>11 DEF vars, history, Phases
  <2> QED BY <2>1, <2>2, <2>3 DEF IInv
<1> QED
  BY <1>1, <1>2, <1>3, <1>4, <1>5, <1>6, <1>7, <1>8, <1>9, <1>10, <1>11 DEF Next

LEMMA Inductive == Spec => []IInv
BY InitInv, StepInv, PTL DEF Spec

\* The values the router writes stay within the schema's, the thread, request
\* and guard records keep their shapes, and the history names real apps.
THEOREM TypeCorrect == Spec => []TypeOK
<1>1. IInv => TypeOK
  BY DEF IInv, TInv, ThreadsOK, RowsOK, BoxOK, ReqsOK, GuardOK, RestOK, TypeOK
<1> QED BY <1>1, Inductive, PTL

\* For any number of apps, threads and requests, and any number of crashes: a
\* row that says building or starting has a launcher, a recovery list or a
\* claiming request behind it, which will write a final status, unless the
\* scan of check_app_status mistook it for one still being deployed.
THEOREM BusyOwned == Spec => []BusyHasOwner
<1>1. IInv => BusyHasOwner
  BY DEF IInv, Owners, Selected, BusyHasOwner
<1> QED BY <1>1, Inductive, PTL

-----------------------------------------------------------------------------
(* What podman runs and what the rows say                                  *)
(*                                                                         *)
(* A name that no two actors overlapped on has one actor at a time, and    *)
(* what that actor has established at each of its steps is enough to go    *)
(* on from there.                                                          *)

InstalledAs(n) == {a \in Apps : NameOf[a] = n}

\* Thread t is at work on n, or has it in its recovery list; the same for the
\* requests and the storage guard.
AtWork(t, n) == thr[t].app \in InstalledAs(n)
Queued(t, n) == \E a \in InstalledAs(n), b \in BOOLEAN : <<a, b>> \in thr[t].todo
Serves(r, n) == req[r].app \in InstalledAs(n)
Guarded(n) == grd.app \in InstalledAs(n)
Listed(n) == \E a \in InstalledAs(n), c \in Cid : <<a, c>> \in grd.todo

Nobody(n) ==
    /\ \A t \in Threads : ~AtWork(t, n) /\ ~Queued(t, n)
    /\ \A r \in Reqs : ~Serves(r, n)
    /\ ~Guarded(n) /\ ~Listed(n)

OnlyThread(t, n) ==
    /\ \A s \in Threads \ {t} : ~AtWork(s, n) /\ ~Queued(s, n)
    /\ \A r \in Reqs : ~Serves(r, n)
    /\ ~Guarded(n) /\ ~Listed(n)
OnlyRequest(r, n) ==
    /\ \A t \in Threads : ~AtWork(t, n) /\ ~Queued(t, n)
    /\ \A q \in Reqs \ {r} : ~Serves(q, n)
    /\ ~Guarded(n) /\ ~Listed(n)
OnlyGuard(n) ==
    /\ \A t \in Threads : ~AtWork(t, n) /\ ~Queued(t, n)
    /\ \A r \in Reqs : ~Serves(r, n)

Alone(n) ==
    /\ \A t \in Threads : AtWork(t, n) => OnlyThread(t, n) /\ ~Queued(t, n)
    /\ \A t \in Threads : Queued(t, n) => OnlyThread(t, n)
    /\ \A r \in Reqs : Serves(r, n) => OnlyRequest(r, n)
    /\ Guarded(n) => OnlyGuard(n) /\ ~Listed(n)
    /\ Listed(n) => OnlyGuard(n)
    /\ \A t \in Threads, a, b \in InstalledAs(n), x, y \in BOOLEAN :
         <<a, x>> \in thr[t].todo /\ <<b, y>> \in thr[t].todo => a = b /\ x = y
    /\ \A a, b \in InstalledAs(n), c, d \in Cid :
         <<a, c>> \in grd.todo /\ <<b, d>> \in grd.todo => a = b /\ c = d

\* A row that says building names no container.
Fresh(a) == row[a].status = "building" => row[a].cid = None

\* A live container of a's name is the recorded one; a running app has it.
Recorded(a) == (podman[NameOf[a]] \in Cids => row[a].cid = podman[NameOf[a]]) /\ Fresh(a)
Lives(a) == row[a].status = "running" =>
                podman[NameOf[a]] # None /\ row[a].cid = podman[NameOf[a]]

\* What a thread at work on a has established; only its last step makes the app
\* running, and from the removal of the old container on it is not building.
Established(t, a) ==
    LET p == thr[t].pc
        c == podman[NameOf[a]]
    IN /\ row[a].status # "running"
       /\ \/ p \in {"check", "reload", "start", "mark", "restart", "build", "select", "fail", "rmread"}
             /\ Recorded(a)
          \/ p \in {"prepare", "rmstop"} /\ Recorded(a) /\ thr[t].keep = row[a].cid
          \/ /\ row[a].status # "building" /\ thr[t].keep = None
             /\ \/ p = "rm"
                \/ p = "run" /\ c = None
                \/ p \in {"record", "cleanup"} /\ thr[t].cid = c /\ c \in Cids
                \/ p \in {"wait", "ready", "unready"} /\ thr[t].cid = c /\ c \in Cids /\ row[a].cid = c
          \/ p = "excwrite" /\ Recorded(a) /\ (c \in Cids => thr[t].keep = c)
          \/ p \in {"purge", "delete"} /\ Recorded(a) /\ c \notin Cids

\* What a request at work on a has established.
Holds(r, a) ==
    LET p == req[r].pc
        c == podman[NameOf[a]]
    IN \/ p = "stopcid" /\ Recorded(a) /\ req[r].cid = row[a].cid
       \/ p \in {"stopname", "stopwrite"} /\ c \notin Cids
       \/ p \in {"pull", "claim"} /\ Recorded(a) /\ Lives(a) /\ req[r].cid = row[a].cid
       \/ p = "stopold" /\ (c \in Cids => req[r].cid = c) /\ row[a].status # "running" /\ Fresh(a)

\* While start-up looks at the rows it selected, running ones may be dead.
Due(a) == proc \in {"sync", "up"} \/ (proc = "scan" /\ snap[a].status # "running")

AtRest(n) ==
    /\ podman[n] \in Cids => \E a \in InstalledAs(n) : Present(a) /\ row[a].cid = podman[n]
    /\ \A a \in InstalledAs(n) : Fresh(a) /\ (Due(a) => Lives(a))

Held(n) ==
    /\ \A t \in Threads, a \in InstalledAs(n) :
         /\ thr[t].app = a => Present(a) /\ Established(t, a)
         /\ \A b \in BOOLEAN : <<a, b>> \in thr[t].todo => Present(a) /\ Recorded(a) /\ row[a].status # "running"
    /\ \A r \in Reqs, a \in InstalledAs(n) : req[r].app = a => Present(a) /\ Holds(r, a)
    /\ \A a \in InstalledAs(n) :
         /\ grd.app = a => Present(a) /\ podman[n] \notin Cids
         /\ \A c \in Cid : <<a, c>> \in grd.todo => Present(a) /\ Recorded(a) /\ c = row[a].cid
    /\ Nobody(n) => AtRest(n)

NameOK(n) == n \notin overlap => Alone(n) /\ Held(n)

\* One app of a name is in the table; the scan's rows are there, and it has not
\* taken an app that is being deployed for one that runs; requests and removals
\* are of a router that is up; the guard's record has its shape.
Unique == \A a, b \in Apps : Present(a) /\ Present(b) /\ NameOf[a] = NameOf[b] => a = b
Shapes ==
    /\ proc = "scan" => \A a \in Apps : snap[a].status # "none" => Present(a)
    /\ proc = "scan" => \A t \in Threads, a \in Apps : thr[t].app = a /\ NameOf[a] \notin overlap =>
         snap[a].status # "running" /\ (snap[a].status = "building" => snap[a].cid = None)
    /\ \A r \in Reqs : req[r].app \in Apps => proc = "up"
    /\ \A t \in Threads : thr[t].kind = "remove" => proc = "up"
    /\ grd.pc = "idle" => grd = IdleGuard
    /\ grd.pc = "stop" => grd.app = None

AgreeInv == Unique /\ Shapes /\ \A n \in Names : NameOK(n)

-----------------------------------------------------------------------------
(* A step that leaves a name alone, and one of the name's only actor *)

\* Nobody comes to n or leaves it.
SameWork(n) ==
    /\ \A t \in Threads :
         /\ thr'[t] = thr[t] \/ {thr'[t].app, thr[t].app} \cap InstalledAs(n) = {}
         /\ \A a \in InstalledAs(n), b \in BOOLEAN : <<a, b>> \in thr'[t].todo <=> <<a, b>> \in thr[t].todo
    /\ \A r \in Reqs :
         req'[r] = req[r] \/ {req'[r].app, req[r].app} \cap InstalledAs(n) = {}
    /\ grd'.app = grd.app \/ {grd'.app, grd.app} \cap InstalledAs(n) = {}
    /\ \A a \in InstalledAs(n), c \in Cid : <<a, c>> \in grd'.todo <=> <<a, c>> \in grd.todo

\* Nothing that concerns n changes.
LeavesAlone(n) ==
    /\ podman'[n] = podman[n]
    /\ \A a \in InstalledAs(n) : row'[a] = row[a] /\ (Due(a)' /\ row[a].status = "running" => Due(a))
    /\ SameWork(n)

LEMMA Installed ==
    ASSUME NEW n \in Names
    PROVE  \A a \in InstalledAs(n) : a \in Apps /\ NameOf[a] = n
BY DEF InstalledAs

LEMMA SameActors ==
    ASSUME NEW n \in Names, SameWork(n)
    PROVE  /\ \A t \in Threads : (AtWork(t, n)' <=> AtWork(t, n)) /\ (Queued(t, n)' <=> Queued(t, n))
           /\ \A r \in Reqs : Serves(r, n)' <=> Serves(r, n)
           /\ (Guarded(n)' <=> Guarded(n)) /\ (Listed(n)' <=> Listed(n))
           /\ Nobody(n)' <=> Nobody(n)
<1>1. \A t \in Threads : (AtWork(t, n)' <=> AtWork(t, n)) /\ (Queued(t, n)' <=> Queued(t, n))
  BY DEF SameWork, AtWork, Queued, InstalledAs
<1>2. \A r \in Reqs : Serves(r, n)' <=> Serves(r, n)
  BY DEF SameWork, Serves, InstalledAs
<1>3. (Guarded(n)' <=> Guarded(n)) /\ (Listed(n)' <=> Listed(n))
  BY DEF SameWork, Guarded, Listed, InstalledAs
<1> QED BY <1>1, <1>2, <1>3 DEF Nobody

LEMMA StillAlone ==
    ASSUME NEW n \in Names, SameWork(n), Alone(n)
    PROVE  Alone(n)'
<1>1. \A t \in Threads : OnlyThread(t, n) => OnlyThread(t, n)'
  BY SameActors DEF OnlyThread
<1>2. \A r \in Reqs : OnlyRequest(r, n) => OnlyRequest(r, n)'
  BY SameActors DEF OnlyRequest
<1>3. OnlyGuard(n) => OnlyGuard(n)'
  BY SameActors DEF OnlyGuard
<1>4. \A t \in Threads, a, b \in InstalledAs(n), x, y \in BOOLEAN :
        <<a, x>> \in thr'[t].todo /\ <<b, y>> \in thr'[t].todo => a = b /\ x = y
  BY DEF SameWork, Alone
<1>5. \A a, b \in InstalledAs(n), c, d \in Cid :
        <<a, c>> \in grd'.todo /\ <<b, d>> \in grd'.todo => a = b /\ c = d
  BY DEF SameWork, Alone
<1>6. InstalledAs(n)' = InstalledAs(n) /\ Cid' = Cid
  BY DEF InstalledAs, Cid
<1> QED BY <1>1, <1>2, <1>3, <1>4, <1>5, <1>6, SameActors DEF Alone

LEMMA StillHeld ==
    ASSUME NEW n \in Names, LeavesAlone(n), Held(n)
    PROVE  Held(n)'
<1>1. /\ podman'[n] = podman[n] /\ InstalledAs(n)' = InstalledAs(n) /\ Cid' = Cid
      /\ \A a \in InstalledAs(n) : row'[a] = row[a] /\ NameOf[a] = n
  BY Installed DEF LeavesAlone, SameWork, InstalledAs, Cid
<1>2. \A a \in InstalledAs(n) : /\ Present(a)' <=> Present(a)
                                /\ Fresh(a)' <=> Fresh(a)
                                /\ Recorded(a)' <=> Recorded(a)
                                /\ Lives(a)' <=> Lives(a)
  BY <1>1 DEF Present, Recorded, Lives, Fresh
<1>3. ASSUME NEW t \in Threads, NEW a \in InstalledAs(n), thr'[t].app = a
      PROVE  Present(a)' /\ Established(t, a)'
  <2>1. thr'[t] = thr[t]
    BY <1>3 DEF LeavesAlone, SameWork
  <2>2. Present(a) /\ Established(t, a)
    BY <1>3, <2>1 DEF Held
  <2> QED BY <1>1, <1>2, <2>1, <2>2 DEF Established
<1>4. \A t \in Threads, a \in InstalledAs(n), b \in BOOLEAN :
        <<a, b>> \in thr'[t].todo => Present(a)' /\ Recorded(a)' /\ row'[a].status # "running"
  BY <1>1, <1>2 DEF Held, LeavesAlone, SameWork
<1>5. ASSUME NEW r \in Reqs, NEW a \in InstalledAs(n), req'[r].app = a
      PROVE  Present(a)' /\ Holds(r, a)'
  <2>1. req'[r] = req[r]
    BY <1>5 DEF LeavesAlone, SameWork
  <2>2. Present(a) /\ Holds(r, a)
    BY <1>5, <2>1 DEF Held
  <2> QED BY <1>1, <1>2, <2>1, <2>2 DEF Holds
<1>6. \A a \in InstalledAs(n) : grd'.app = a => Present(a)' /\ podman'[n] \notin Cids
  BY <1>1, <1>2 DEF Held, LeavesAlone, SameWork
<1>7. \A a \in InstalledAs(n), c \in Cid :
        <<a, c>> \in grd'.todo => Present(a)' /\ Recorded(a)' /\ c = row'[a].cid
  BY <1>1, <1>2 DEF Held, LeavesAlone, SameWork
<1>8. Nobody(n)' => AtRest(n)'
  <2>1. Nobody(n)' => AtRest(n)
    BY SameActors DEF Held, LeavesAlone
  <2>2. \A a \in InstalledAs(n) : Due(a)' /\ Due(a) => (Lives(a) => Lives(a)')
    BY <1>2
  <2>3. \A a \in InstalledAs(n) : Due(a)' => Due(a) \/ Lives(a)'
    BY <1>1 DEF LeavesAlone, SameWork, Lives
  <2> QED BY <1>1, <1>2, <2>1, <2>2, <2>3 DEF AtRest
<1> QED BY <1>1, <1>3, <1>4, <1>5, <1>6, <1>7, <1>8 DEF Held

LEMMA Frame ==
    ASSUME NEW n \in Names, NameOK(n), n \in overlap => n \in overlap', n \notin overlap => LeavesAlone(n)
    PROVE  NameOK(n)'
BY StillAlone, StillHeld DEF NameOK, LeavesAlone

\* A row the actor of a leaves at the end: the name is at rest.
Rests(a) ==
    /\ podman[NameOf[a]] \in Cids => Present(a) /\ row[a].cid = podman[NameOf[a]]
    /\ Lives(a) /\ Fresh(a)

LEMMA RestsAtRest ==
    ASSUME Unique, RowsOK, NEW a \in Apps, Rests(a)', RowOnly(a), Present(a)
    PROVE  AtRest(NameOf[a])'
<1> DEFINE n == NameOf[a]
<1>1. ASSUME NEW b \in InstalledAs(n)' PROVE Lives(b)' /\ Fresh(b)'
  <2>1. CASE b = a
    BY <2>1 DEF Rests
  <2>2. CASE b # a
    <3>1. b \in Apps /\ NameOf[b] = NameOf[a] /\ row'[b] = row[b]
      BY <1>1, <2>2 DEF InstalledAs, RowOnly
    <3>2. row[b].status = "none"
      BY <2>2, <3>1 DEF Unique, Present
    <3> QED BY <3>1, <3>2 DEF Lives, Fresh
  <2> QED BY <2>1, <2>2
<1>2. podman'[n] \in Cids => \E b \in InstalledAs(n)' : Present(b)' /\ row'[b].cid = podman'[n]
  BY DEF Rests, InstalledAs
<1> QED BY <1>1, <1>2 DEF AtRest

\* Nobody but the thread, or nobody at all, is at work on n.
LEMMA HeldByThread ==
    ASSUME NEW n \in Names, NEW t \in Threads, NEW a \in InstalledAs(n),
           OnlyThread(t, n), ~Queued(t, n), thr[t].app = a, Present(a), Established(t, a)
    PROVE  Alone(n) /\ Held(n)
<1>1. AtWork(t, n)
  BY DEF AtWork
<1>2. \A s \in Threads : (AtWork(s, n) => s = t) /\ ~Queued(s, n)
  BY DEF OnlyThread
<1>3. \A s \in Threads, c \in InstalledAs(n), b \in BOOLEAN : <<c, b>> \notin thr[s].todo
  BY <1>2 DEF Queued
<1>4. \A c \in InstalledAs(n), d \in Cid : <<c, d>> \notin grd.todo
  BY DEF OnlyThread, Listed
<1>5. \A r \in Reqs : ~Serves(r, n)
  BY DEF OnlyThread
<1>6. ~Guarded(n) /\ ~Listed(n) /\ ~Nobody(n)
  BY <1>1 DEF OnlyThread, Nobody
<1>7. Alone(n)
  BY <1>2, <1>3, <1>4, <1>5, <1>6 DEF Alone
<1>8. Held(n)
  BY <1>2, <1>3, <1>4, <1>5, <1>6 DEF Held, AtWork, Serves, Guarded
<1> QED BY <1>7, <1>8

LEMMA HeldByNobody ==
    ASSUME NEW n \in Names, Nobody(n), AtRest(n)
    PROVE  Alone(n) /\ Held(n)
<1>1. \A s \in Threads, c \in InstalledAs(n), b \in BOOLEAN : <<c, b>> \notin thr[s].todo
  BY DEF Nobody, Queued
<1>2. \A c \in InstalledAs(n), d \in Cid : <<c, d>> \notin grd.todo
  BY DEF Nobody, Listed
<1>3. Alone(n)
  BY <1>1, <1>2 DEF Nobody, Alone
<1>4. Held(n)
  BY <1>1, <1>2 DEF Nobody, Held, AtWork, Serves, Guarded
<1> QED BY <1>3, <1>4

LEMMA HeldByRequest ==
    ASSUME NEW n \in Names, NEW r \in Reqs, NEW a \in InstalledAs(n),
           OnlyRequest(r, n), req[r].app = a, Present(a), Holds(r, a)
    PROVE  Alone(n) /\ Held(n)
<1>1. Serves(r, n)
  BY DEF Serves
<1>2. \A q \in Reqs : Serves(q, n) => q = r
  BY DEF OnlyRequest
<1>3. \A s \in Threads, c \in InstalledAs(n), b \in BOOLEAN : <<c, b>> \notin thr[s].todo
  BY DEF OnlyRequest, Queued
<1>4. \A c \in InstalledAs(n), d \in Cid : <<c, d>> \notin grd.todo
  BY DEF OnlyRequest, Listed
<1>5. \A t \in Threads : ~AtWork(t, n) /\ ~Queued(t, n)
  BY DEF OnlyRequest
<1>6. ~Guarded(n) /\ ~Listed(n) /\ ~Nobody(n)
  BY <1>1 DEF OnlyRequest, Nobody
<1>7. Alone(n)
  BY <1>2, <1>3, <1>4, <1>5, <1>6 DEF Alone
<1>8. Held(n)
  BY <1>2, <1>3, <1>4, <1>5, <1>6 DEF Held, AtWork, Serves, Guarded
<1> QED BY <1>7, <1>8

\* The same for the state after a step.
HeldByOne ==
    /\ \A n \in Names, t \in Threads, a \in Apps :
         a \in InstalledAs(n) /\ OnlyThread(t, n) /\ ~Queued(t, n) /\ thr[t].app = a
             /\ Present(a) /\ Established(t, a) => Alone(n) /\ Held(n)
    /\ \A n \in Names, r \in Reqs, a \in Apps :
         a \in InstalledAs(n) /\ OnlyRequest(r, n) /\ req[r].app = a
             /\ Present(a) /\ Holds(r, a) => Alone(n) /\ Held(n)
    /\ \A n \in Names : Nobody(n) /\ AtRest(n) => Alone(n) /\ Held(n)

LEMMA HeldByOneHolds == HeldByOne
BY HeldByThread, HeldByRequest, HeldByNobody DEF HeldByOne

LEMMA HeldAfter == HeldByOne'
BY HeldByOneHolds, PTL

\* Thread t goes on with its app, or ends its work on it.
LEMMA ThreadGoesOn ==
    ASSUME NEW t \in Threads, NEW a \in Apps, thr[t].app = a, NameOf[a] \notin overlap,
           NameOK(NameOf[a]), thr' \in [Threads -> Thread], \A s \in Threads \ {t} : thr'[s] = thr[s],
           thr'[t].todo = thr[t].todo, UNCHANGED <<req, grd>>,
           thr'[t].app = a, Present(a)', Established(t, a)'
    PROVE  NameOK(NameOf[a])'
<1> DEFINE n == NameOf[a]
<1>1. n \in Names /\ a \in InstalledAs(n) /\ InstalledAs(n)' = InstalledAs(n)
  BY NamesAssumption DEF InstalledAs
<1>2. AtWork(t, n) /\ OnlyThread(t, n) /\ ~Queued(t, n)
  BY <1>1 DEF NameOK, Alone, AtWork
<1>3. \A s \in Threads \ {t} : (AtWork(s, n)' <=> AtWork(s, n)) /\ (Queued(s, n)' <=> Queued(s, n))
  BY <1>1 DEF AtWork, Queued
<1>4. ~Queued(t, n)'
  BY <1>1, <1>2 DEF Queued
<1>5. (\A r \in Reqs : Serves(r, n)' <=> Serves(r, n)) /\ (Guarded(n)' <=> Guarded(n)) /\ (Listed(n)' <=> Listed(n))
  BY <1>1 DEF Serves, Guarded, Listed, Cid
<1>6. OnlyThread(t, n)'
  BY <1>2, <1>3, <1>5 DEF OnlyThread
<1>7. a \in InstalledAs(n)'
  BY <1>1
<1>8. Alone(n)' /\ Held(n)'
  BY <1>1, <1>4, <1>6, <1>7, HeldAfter DEF HeldByOne
<1> QED BY <1>8 DEF NameOK

LEMMA ThreadLeaves ==
    ASSUME NEW t \in Threads, NEW a \in Apps, thr[t].app = a, NameOf[a] \notin overlap,
           NameOK(NameOf[a]), thr' \in [Threads -> Thread], \A s \in Threads \ {t} : thr'[s] = thr[s],
           thr'[t].todo \subseteq thr[t].todo, UNCHANGED <<req, grd>>,
           thr'[t].app = None, AtRest(NameOf[a])'
    PROVE  NameOK(NameOf[a])'
<1> DEFINE n == NameOf[a]
<1>1. n \in Names /\ a \in InstalledAs(n) /\ InstalledAs(n)' = InstalledAs(n) /\ None \notin InstalledAs(n)
  BY NamesAssumption, NoneAssumption DEF InstalledAs
<1>2. AtWork(t, n) /\ OnlyThread(t, n) /\ ~Queued(t, n)
  BY <1>1 DEF NameOK, Alone, AtWork
<1>3. \A s \in Threads \ {t} : (AtWork(s, n)' <=> AtWork(s, n)) /\ (Queued(s, n)' <=> Queued(s, n))
  BY <1>1 DEF AtWork, Queued
<1>4. ~Queued(t, n)' /\ ~AtWork(t, n)'
  BY <1>1, <1>2 DEF Queued, AtWork
<1>5. (\A r \in Reqs : Serves(r, n)' <=> Serves(r, n)) /\ (Guarded(n)' <=> Guarded(n)) /\ (Listed(n)' <=> Listed(n))
  BY <1>1 DEF Serves, Guarded, Listed, Cid
<1>6. Nobody(n)'
  BY <1>2, <1>3, <1>4, <1>5 DEF OnlyThread, Nobody
<1>8. Alone(n)' /\ Held(n)'
  BY <1>1, <1>6, HeldAfter DEF HeldByOne
<1> QED BY <1>8 DEF NameOK

-----------------------------------------------------------------------------
(* The steps of threads, when a stop does what it says *)

LEMMA GotoIs ==
    ASSUME ThreadsOK, NEW t \in Threads, NEW p, Goto(t, p)
    PROVE  /\ thr'[t].pc = p /\ thr'[t].app = thr[t].app
           /\ thr'[t].cid = thr[t].cid /\ thr'[t].keep = thr[t].keep
BY DEF ThreadsOK, Goto, Thread

LEMMA RaiseIs ==
    ASSUME ThreadsOK, NEW t \in Threads, NEW p, NEW e, Raise(t, p, e)
    PROVE  /\ thr'[t].pc = p /\ thr'[t].app = thr[t].app
           /\ thr'[t].cid = thr[t].cid /\ thr'[t].keep = thr[t].keep
<1>1. thr' = [thr EXCEPT ![t] = [thr[t] EXCEPT !.pc = p, !.err = e]]
  BY DEF ThreadsOK, Raise
<1> QED BY <1>1 DEF ThreadsOK, Thread

LEMMA FinishIs ==
    ASSUME ThreadsOK, NEW t \in Threads, Finish(t)
    PROVE  thr'[t].app = None
BY DEF ThreadsOK, Finish, Finished, RecoveryThread, IdleThread

LEMMA UpdateIs ==
    ASSUME RowsOK, NEW a \in Apps, NEW r, UpdateRow(a, r), Present(a)
    PROVE  row'[a] = r
BY DEF RowsOK, UpdateRow

LEMMA ErrorIs ==
    ASSUME RowsOK, NEW a \in Apps, Present(a),
           UpdateRow(a, [row[a] EXCEPT !.status = "error", !.err = "other"])
    PROVE  row'[a].status = "error" /\ row'[a].cid = row[a].cid
<1>1. row'[a] = [row[a] EXCEPT !.status = "error", !.err = "other"]
  BY UpdateIs
<1>2. row[a] \in Rows
  BY DEF RowsOK
<1> QED BY <1>1, <1>2 DEF Rows

LEMMA MarkIs ==
    ASSUME RowsOK, NEW a \in Apps, MarkStarting(a), Present(a)
    PROVE  row'[a].cid = row[a].cid /\ row'[a].status = "starting"
<1>1. row'[a] = [row[a] EXCEPT !.status = "starting", !.err = IF @ = "marker" THEN @ ELSE "null"]
  BY UpdateIs DEF MarkStarting
<1> QED BY <1>1 DEF RowsOK, Rows

LEMMA KillIs ==
    ASSUME StopMayFail = FALSE, BoxOK, NEW n \in Names, NEW c, Kill(n, c)
    PROVE  /\ podman'[n] = IF podman[n] = c THEN None ELSE podman[n]
           /\ \A m \in Names \ {n} : podman'[m] = podman[m]
BY DEF BoxOK, Kill

\* What the step of a thread that is alone at its app's name leads to.
Outcome(t, a) ==
    Present(a) /\ Established(t, a) =>
      \/ thr'[t].app = a /\ Present(a)' /\ Established(t, a)'
      \/ thr'[t].app = None /\ Rests(a)'

\* It starts, stops or leaves alone the container of its app's name.
OwnBox(a) == \A m \in Names \ {NameOf[a]} : podman'[m] = podman[m]

LEMMA EarlyOutcome ==
    ASSUME TInv, NEW t \in Threads, NEW a \in Apps, thr[t].app = a,
           \/ DeployCheck(t) \/ ReloadRead(t) \/ StartRead(t) \/ StartMark(t)
           \/ RestartRead(t) \/ Build(t) \/ SelectRow(t) \/ Prepare(t)
    PROVE  Outcome(t, a) /\ OwnBox(a)
<1>0. ThreadsOK /\ RowsOK /\ BoxOK /\ thr[t] \in Thread
  BY DEF TInv, ThreadsOK
<1>1. podman' = podman
  BY DEF DeployCheck, ReloadRead, StartRead, StartMark, RestartRead, Build, SelectRow, Prepare, box
<1>2. OwnBox(a)
  BY <1>1 DEF OwnBox
<1> SUFFICES ASSUME Present(a), Established(t, a)
             PROVE  thr'[t].app = a /\ Present(a)' /\ Established(t, a)'
  BY <1>2 DEF Outcome
<1>3. ASSUME row' = row, thr[t].pc \in {"check", "reload", "start", "mark", "restart", "build", "select"},
             thr'[t].app = a,
             thr'[t].pc \in {"check", "reload", "start", "mark", "restart", "build", "select", "fail"}
      PROVE  thr'[t].app = a /\ Present(a)' /\ Established(t, a)'
  BY <1>1, <1>3 DEF Established, Recorded, Fresh, Present
<1>10. CASE DeployCheck(t)
  BY <1>0, <1>3, <1>10, GotoIs, RaiseIs DEF DeployCheck, At
<1>11. CASE ReloadRead(t)
  BY <1>0, <1>3, <1>11, GotoIs, RaiseIs DEF ReloadRead, At
<1>12. CASE StartRead(t)
  BY <1>0, <1>3, <1>12, GotoIs, RaiseIs DEF StartRead, At
<1>13. CASE RestartRead(t)
  BY <1>0, <1>3, <1>13, GotoIs, RaiseIs DEF RestartRead, At
<1>14. CASE Build(t)
  BY <1>0, <1>3, <1>14, GotoIs, RaiseIs DEF Build, At
<1>15. CASE StartMark(t)
  <2>1. row'[a].cid = row[a].cid /\ row'[a].status = "starting" /\ thr[t].pc = "mark"
    BY <1>0, <1>15, MarkIs DEF StartMark, At
  <2>2. thr'[t].pc = "build" /\ thr'[t].app = a
    BY <1>0, <1>15, GotoIs DEF StartMark
  <2>3. Recorded(a)
    BY <2>1 DEF Established
  <2> QED BY <1>1, <2>1, <2>2, <2>3 DEF Established, Recorded, Fresh, Present
<1>16. CASE SelectRow(t)
  <2>1. thr'[t].pc = "prepare" /\ thr'[t].app = a /\ thr'[t].keep = row[a].cid /\ row' = row
    BY <1>0, <1>16 DEF SelectRow, ThreadsOK, Thread
  <2>2. Recorded(a)
    BY <1>16 DEF Established, SelectRow, At
  <2> QED BY <1>1, <2>1, <2>2 DEF Established, Recorded, Fresh, Present
<1>17. CASE Prepare(t)
  <2>0. Recorded(a) /\ thr[t].keep = row[a].cid
    BY <1>17 DEF Established, Prepare, At
  <2>1. CASE MarkStarting(a) /\ thr' = [thr EXCEPT ![t].pc = "rm", ![t].keep = None]
    <3>1. row'[a].status = "starting"
      BY <1>0, <2>1, MarkIs
    <3>2. thr'[t].pc = "rm" /\ thr'[t].app = a /\ thr'[t].keep = None
      BY <1>0, <2>1 DEF ThreadsOK, Thread
    <3> QED BY <3>1, <3>2 DEF Established, Recorded, Fresh, Present
  <2>2. CASE Raise(t, "excwrite", "other") /\ UNCHANGED row
    <3>1. thr'[t].pc = "excwrite" /\ thr'[t].app = a /\ thr'[t].keep = thr[t].keep
      BY <1>0, <2>2, RaiseIs
    <3> QED BY <1>1, <2>0, <2>2, <3>1 DEF Established, Recorded, Fresh, Present
  <2> QED BY <1>17, <2>1, <2>2 DEF Prepare
<1> QED BY <1>10, <1>11, <1>12, <1>13, <1>14, <1>15, <1>16, <1>17

LEMMA RunOutcome ==
    ASSUME TInv, StopMayFail = FALSE, NEW t \in Threads, NEW a \in Apps, thr[t].app = a,
           PodmanRm(t) \/ PodmanRun(t) \/ Record(t) \/ WaitForReady(t) \/ Cleanup(t)
    PROVE  Outcome(t, a) /\ OwnBox(a)
<1> DEFINE n == NameOf[a]
<1>0. /\ ThreadsOK /\ RowsOK /\ BoxOK /\ a \in Apps /\ n \in Names /\ thr[t] \in Thread
      /\ podman \in [Names -> Cid \cup {Untold}] /\ None \notin Cids /\ Untold \notin Cids
  BY NamesAssumption, NoneAssumption, UntoldAssumption DEF TInv, ThreadsOK, BoxOK
<1>1. CASE PodmanRm(t)
  <2>1. podman'[n] = None /\ \A m \in Names \ {n} : podman'[m] = podman[m]
    BY <1>0, <1>1, KillIs DEF PodmanRm
  <2>2. thr'[t].pc = "run" /\ thr'[t].app = a /\ thr'[t].keep = thr[t].keep /\ thr[t].pc = "rm" /\ row' = row
    BY <1>0, <1>1, GotoIs DEF PodmanRm, At
  <2> QED BY <2>1, <2>2 DEF Outcome, OwnBox, Established, Recorded, Fresh, Present
<1>2. CASE PodmanRun(t)
  <2>0. thr[t].pc = "run" /\ row' = row
    BY <1>2 DEF PodmanRun, At
  <2>1. ASSUME NEW c \in FreshCids, podman' = [podman EXCEPT ![n] = c],
               thr' = [thr EXCEPT ![t].pc = "record", ![t].cid = c]
        PROVE  Outcome(t, a) /\ OwnBox(a)
    <3>1. c \in Cids /\ podman'[n] = c /\ \A m \in Names \ {n} : podman'[m] = podman[m]
      BY <1>0, <2>1 DEF FreshCids
    <3>2. thr'[t].pc = "record" /\ thr'[t].app = a /\ thr'[t].keep = thr[t].keep /\ thr'[t].cid = c
      BY <1>0, <2>1 DEF ThreadsOK, Thread
    <3> QED BY <2>0, <3>1, <3>2 DEF Outcome, OwnBox, Established, Recorded, Fresh, Present
  <2>2. CASE Raise(t, "excwrite", "other") /\ UNCHANGED podman
    <3>1. thr'[t].pc = "excwrite" /\ thr'[t].app = a /\ thr'[t].keep = thr[t].keep
      BY <1>0, <2>2, RaiseIs
    <3> QED BY <1>0, <2>0, <2>2, <3>1 DEF Outcome, OwnBox, Established, Recorded, Fresh, Present
  <2>3. CASE podman' = [podman EXCEPT ![n] = Untold] /\ Raise(t, "excwrite", "other")
    <3>1. thr'[t].pc = "excwrite" /\ thr'[t].app = a /\ thr'[t].keep = thr[t].keep
      BY <1>0, <2>3, RaiseIs
    <3>2. podman'[n] = Untold /\ \A m \in Names \ {n} : podman'[m] = podman[m]
      BY <1>0, <2>3
    <3> QED BY <1>0, <2>0, <3>1, <3>2 DEF Outcome, OwnBox, Established, Recorded, Fresh, Present
  <2> QED BY <1>2, <2>1, <2>2, <2>3 DEF PodmanRun
<1>3. CASE Record(t)
  <2>0. thr[t].pc = "record" /\ podman' = podman
    BY <1>3 DEF Record, At, box
  <2>1. CASE UpdateRow(a, [row[a] EXCEPT !.cid = thr[t].cid]) /\ Goto(t, "wait")
    <3>1. /\ thr'[t].pc = "wait" /\ thr'[t].app = a
          /\ thr'[t].keep = thr[t].keep /\ thr'[t].cid = thr[t].cid
      BY <1>0, <2>1, GotoIs
    <3>2. Present(a) => row'[a].cid = thr[t].cid /\ row'[a].status = row[a].status
      <4>1. Present(a) => row'[a] = [row[a] EXCEPT !.cid = thr[t].cid]
        BY <1>0, <2>1, UpdateIs
      <4> QED BY <1>0, <4>1 DEF RowsOK, Rows
    <3> QED BY <2>0, <3>1, <3>2 DEF Outcome, OwnBox, Established, Recorded, Fresh, Present
  <2>2. CASE Raise(t, "cleanup", "other") /\ UNCHANGED row
    <3>1. /\ thr'[t].pc = "cleanup" /\ thr'[t].app = a
          /\ thr'[t].keep = thr[t].keep /\ thr'[t].cid = thr[t].cid
      BY <1>0, <2>2, RaiseIs
    <3> QED BY <2>0, <2>2, <3>1 DEF Outcome, OwnBox, Established, Recorded, Fresh, Present
  <2> QED BY <1>3, <2>1, <2>2 DEF Record
<1>4. CASE WaitForReady(t)
  <2>0. thr[t].pc = "wait" /\ podman' = podman /\ row' = row
    BY <1>4 DEF WaitForReady, At, box
  <2>1. /\ thr'[t].pc \in {"ready", "unready", "cleanup"} /\ thr'[t].app = a
        /\ thr'[t].keep = thr[t].keep /\ thr'[t].cid = thr[t].cid
    BY <1>0, <1>4, GotoIs, RaiseIs DEF WaitForReady
  <2> QED BY <2>0, <2>1 DEF Outcome, OwnBox, Established, Recorded, Fresh, Present
<1>5. CASE Cleanup(t)
  <2>0. thr[t].pc = "cleanup" /\ row' = row /\ Kill(n, thr[t].cid) /\ Goto(t, "excwrite")
    BY <1>5 DEF Cleanup, At
  <2>1. /\ podman'[n] = IF podman[n] = thr[t].cid THEN None ELSE podman[n]
        /\ \A m \in Names \ {n} : podman'[m] = podman[m]
    BY <1>0, <2>0, KillIs
  <2>2. thr'[t].pc = "excwrite" /\ thr'[t].app = a
    BY <1>0, <2>0, GotoIs
  <2> QED BY <1>0, <2>0, <2>1, <2>2 DEF Outcome, OwnBox, Established, Recorded, Fresh, Present
<1> QED BY <1>1, <1>2, <1>3, <1>4, <1>5

LEMMA WriteOutcome ==
    ASSUME TInv, NEW t \in Threads, NEW a \in Apps, thr[t].app = a,
           WriteRunning(t) \/ WriteUnready(t) \/ ExcWrite(t) \/ WriteFail(t)
    PROVE  Outcome(t, a) /\ OwnBox(a)
<1>0. ThreadsOK /\ RowsOK /\ BoxOK /\ thr[t] \in Thread /\ None \notin Cids
  BY NoneAssumption DEF TInv, ThreadsOK
<1>1. podman' = podman
  BY DEF WriteRunning, WriteUnready, ExcWrite, WriteFail, box
<1>2. OwnBox(a)
  BY <1>1 DEF OwnBox
<1> SUFFICES ASSUME Present(a), Established(t, a)
             PROVE  \/ thr'[t].app = a /\ Present(a)' /\ Established(t, a)'
                    \/ thr'[t].app = None /\ Rests(a)'
  BY <1>2 DEF Outcome
<1>3. ASSUME NEW s \in {"running", "error"}, NEW e, UpdateRow(a, [row[a] EXCEPT !.status = s, !.err = e])
      PROVE  row'[a].status = s /\ row'[a].cid = row[a].cid
  <2>1. row'[a] = [row[a] EXCEPT !.status = s, !.err = e]
    BY <1>0, <1>3, UpdateIs
  <2> QED BY <1>0, <2>1 DEF RowsOK, Rows
<1>4. ASSUME thr[t].pc \in {"ready", "unready"}, UNCHANGED row, Raise(t, "cleanup", "other")
      PROVE  thr'[t].app = a /\ Present(a)' /\ Established(t, a)'
  <2>1. /\ thr'[t].pc = "cleanup" /\ thr'[t].app = a
        /\ thr'[t].keep = thr[t].keep /\ thr'[t].cid = thr[t].cid
    BY <1>0, <1>4, RaiseIs
  <2> QED BY <1>1, <1>4, <2>1 DEF Established, Recorded, Fresh, Present
<1>5. CASE WriteRunning(t)
  <2>1. thr[t].pc = "ready"
    BY <1>5 DEF WriteRunning, At
  <2>2. CASE UpdateRow(a, [row[a] EXCEPT !.status = "running", !.err = "null"]) /\ Finish(t)
    <3>1. row'[a].status = "running" /\ row'[a].cid = row[a].cid /\ thr'[t].app = None
      BY <1>0, <1>3, <2>2, FinishIs
    <3> QED BY <1>0, <1>1, <2>1, <3>1 DEF Established, Rests, Lives, Fresh, Present
  <2> QED BY <1>4, <1>5, <2>1, <2>2 DEF WriteRunning
<1>6. CASE WriteUnready(t)
  <2>1. thr[t].pc = "unready"
    BY <1>6 DEF WriteUnready, At
  <2>2. CASE UpdateRow(a, [row[a] EXCEPT !.status = "error", !.err = "other"]) /\ Finish(t)
    <3>1. row'[a].status = "error" /\ row'[a].cid = row[a].cid /\ thr'[t].app = None
      BY <1>0, <1>3, <2>2, FinishIs
    <3> QED BY <1>0, <1>1, <2>1, <3>1 DEF Established, Rests, Lives, Fresh, Present
  <2> QED BY <1>4, <1>6, <2>1, <2>2 DEF WriteUnready
<1>7. CASE ExcWrite(t)
  <2>1. /\ \/ row'[a] = [status |-> "error", cid |-> thr[t].keep, err |-> thr[t].err]
           \/ row' = row
        /\ thr'[t].pc = "fail" /\ thr'[t].app = a /\ thr[t].pc = "excwrite"
    BY <1>0, <1>7, UpdateIs, GotoIs DEF ExcWrite, At
  <2> QED BY <1>1, <2>1 DEF Established, Recorded, Fresh, Present
<1>8. CASE WriteFail(t)
  <2>1. /\ row'[a].status = "error" /\ row'[a].cid = row[a].cid
        /\ thr'[t].app = None /\ thr[t].pc = "fail"
    BY <1>0, <1>3, <1>8, FinishIs DEF WriteFail, At
  <2> QED BY <1>1, <2>1 DEF Established, Recorded, Fresh, Rests, Lives, Present
<1> QED BY <1>5, <1>6, <1>7, <1>8

LEMMA RemoveOutcome ==
    ASSUME TInv, StopMayFail = FALSE, NEW t \in Threads, NEW a \in Apps, thr[t].app = a, Remove(t)
    PROVE  Outcome(t, a) /\ OwnBox(a)
<1> DEFINE n == NameOf[a]
<1>0. ThreadsOK /\ RowsOK /\ BoxOK /\ a \in Apps /\ n \in Names /\ thr[t] \in Thread /\ None \notin Cids
  BY NamesAssumption, NoneAssumption DEF TInv, ThreadsOK
<1>1. CASE RemoveRead(t)
  <2>0. thr[t].pc = "rmread" /\ podman' = podman /\ row' = row
    BY <1>1 DEF RemoveRead, At, box
  <2>1. Present(a) => thr'[t].pc = "rmstop" /\ thr'[t].app = a /\ thr'[t].keep = row[a].cid
    BY <1>0, <1>1 DEF RemoveRead, ThreadsOK, Thread
  <2> QED BY <2>0, <2>1 DEF Outcome, OwnBox, Established, Recorded, Fresh, Present
<1>2. CASE RemoveStop(t)
  <2>0. thr[t].pc = "rmstop" /\ row' = row /\ Kill(n, thr[t].keep) /\ Goto(t, "purge")
    BY <1>2 DEF RemoveStop, At
  <2>1. /\ podman'[n] = IF podman[n] = thr[t].keep THEN None ELSE podman[n]
        /\ \A m \in Names \ {n} : podman'[m] = podman[m]
    BY <1>0, <2>0, KillIs
  <2>2. thr'[t].pc = "purge" /\ thr'[t].app = a
    BY <1>0, <2>0, GotoIs
  <2> QED BY <1>0, <2>0, <2>1, <2>2 DEF Outcome, OwnBox, Established, Recorded, Fresh, Present
<1>3. CASE RemovePurge(t)
  <2>0. /\ thr[t].pc = "purge" /\ row' = row /\ podman' = podman
        /\ thr'[t].pc = "delete" /\ thr'[t].app = a
    BY <1>0, <1>3, GotoIs DEF RemovePurge, At
  <2> QED BY <2>0 DEF Outcome, OwnBox, Established, Recorded, Fresh, Present
<1>4. CASE RemoveDelete(t)
  <2>0. thr[t].pc = "delete" /\ podman' = podman /\ thr'[t].app = None
    BY <1>0, <1>4, FinishIs DEF RemoveDelete, At, box
  <2>1. Present(a) => row' = row \/ row'[a].status \notin {"running", "building"}
    <3>1. CASE row' = [row EXCEPT ![a] = NoRow]
      BY <1>0, <3>1 DEF RowsOK, NoRow
    <3>2. CASE UpdateRow(a, [row[a] EXCEPT !.status = "error", !.err = "other"])
      <4>1. Present(a) => row'[a] = [row[a] EXCEPT !.status = "error", !.err = "other"]
        BY <1>0, <3>2, UpdateIs
      <4> QED BY <1>0, <4>1 DEF RowsOK, Rows
    <3> QED BY <1>4, <3>1, <3>2 DEF RemoveDelete
  <2> QED BY <2>0, <2>1 DEF Outcome, OwnBox, Established, Recorded, Fresh, Rests, Lives
<1> QED BY <1>1, <1>2, <1>3, <1>4 DEF Remove

\* The rows in the table stay the same, or one is deleted.
SameRows == \A b \in Apps : Present(b)' <=> Present(b)
Fewer == \A b \in Apps : Present(b)' => Present(b)

LEMMA UpdateKeeps ==
    ASSUME RowsOK, NEW a \in Apps, NEW r, UpdateRow(a, r), Present(a) => r.status # "none"
    PROVE  SameRows
BY DEF RowsOK, UpdateRow, SameRows, Present

LEMMA StatusKeeps ==
    ASSUME RowsOK, NEW a \in Apps, NEW s, s # "none", NEW e,
           UpdateRow(a, [row[a] EXCEPT !.status = s, !.err = e])
    PROVE  SameRows
<1>1. [row[a] EXCEPT !.status = s, !.err = e].status = s
  BY DEF RowsOK, Rows
<1> QED BY <1>1, UpdateKeeps

LEMMA LaunchKeeps ==
    ASSUME TInv, NEW t \in Threads, NEW a \in Apps, thr[t].app = a, Launch(t)
    PROVE  SameRows
<1>0. RowsOK
  BY DEF TInv
<1>1. CASE row' = row
  BY <1>1 DEF SameRows, Present
<1>2. CASE MarkStarting(a)
  BY <1>0, <1>2, StatusKeeps DEF MarkStarting
<1>3. CASE UpdateRow(a, [row[a] EXCEPT !.cid = thr[t].cid])
  <2>1. [row[a] EXCEPT !.cid = thr[t].cid].status = row[a].status
    BY <1>0 DEF RowsOK, Rows
  <2> QED BY <1>0, <1>3, <2>1, UpdateKeeps DEF Present
<1>4. CASE UpdateRow(a, [row[a] EXCEPT !.status = "running", !.err = "null"])
  BY <1>0, <1>4, StatusKeeps
<1>5. CASE UpdateRow(a, [row[a] EXCEPT !.status = "error", !.err = "other"])
  BY <1>0, <1>5, StatusKeeps
<1>6. CASE UpdateRow(a, [row[a] EXCEPT !.status = "error", !.err = thr[t].err])
  BY <1>0, <1>6, StatusKeeps
<1>7. CASE UpdateRow(a, [status |-> "error", cid |-> thr[t].keep, err |-> thr[t].err])
  BY <1>0, <1>7, UpdateKeeps
<1> QED BY <1>1, <1>2, <1>3, <1>4, <1>5, <1>6, <1>7
        DEF Launch, DeployCheck, ReloadRead, StartRead, StartMark, RestartRead, Build, SelectRow, Prepare,
            PodmanRm, PodmanRun, Record, WaitForReady, WriteRunning, WriteUnready, Cleanup, ExcWrite, WriteFail

LEMMA RemoveFewer ==
    ASSUME TInv, NEW t \in Threads, NEW a \in Apps, thr[t].app = a, Remove(t)
    PROVE  Fewer /\ thr[t].kind = "remove"
<1>0. RowsOK /\ thr[t].pc \in RemoverPcs /\ thr[t].kind = "remove"
  BY DEF TInv, ThreadsOK, ThreadShape, Remove, RemoveRead, RemoveStop, RemovePurge, RemoveDelete, At, RemoverPcs
<1>1. CASE row' = row
  BY <1>0, <1>1 DEF Fewer, Present
<1>2. CASE row' = [row EXCEPT ![a] = NoRow]
  BY <1>0, <1>2 DEF Fewer, Present, RowsOK, NoRow
<1>3. CASE UpdateRow(a, [row[a] EXCEPT !.status = "error", !.err = "other"])
  BY <1>0, <1>3, StatusKeeps DEF SameRows, Fewer
<1> QED BY <1>0, <1>1, <1>2, <1>3 DEF Remove, RemoveRead, RemoveStop, RemovePurge, RemoveDelete

LEMMA FewerUnique ==
    ASSUME Unique, Fewer
    PROVE  Unique'
BY DEF Unique, Fewer

\* A thread's step on its app; it may heal an overlap on the app's name.
LEMMA NamesByThread ==
    ASSUME TInv, Unique, \A n \in Names : NameOK(n),
           NEW t \in Threads, NEW a \in Apps, thr[t].app = a,
           thr' \in [Threads -> Thread], \A s \in Threads \ {t} : thr'[s] = thr[s],
           thr'[t].todo = thr[t].todo, thr'[t].app \in {a, None},
           UNCHANGED threadElse, RowOnly(a), OwnBox(a), Outcome(t, a),
           overlap \ {NameOf[a]} \subseteq overlap',
           NameOf[a] \in overlap /\ NameOf[a] \notin overlap' => Alone(NameOf[a])' /\ Held(NameOf[a])'
    PROVE  \A n \in Names : NameOK(n)'
<1>0. /\ UNCHANGED <<req, grd, proc, snap>> /\ RowsOK
      /\ NameOf[a] \in Names /\ a \in InstalledAs(NameOf[a])
  BY NamesAssumption DEF threadElse, TInv, InstalledAs
<1>1. ASSUME NameOf[a] \notin overlap PROVE NameOK(NameOf[a])'
  <2>1. Present(a) /\ Established(t, a)
    BY <1>0, <1>1 DEF NameOK, Held
  <2>2. NameOK(NameOf[a])
    BY <1>0
  <2>3. CASE thr'[t].app = a /\ Present(a)' /\ Established(t, a)'
    BY <1>0, <1>1, <2>2, <2>3, ThreadGoesOn
  <2>4. CASE thr'[t].app = None /\ Rests(a)'
    <3>1. AtRest(NameOf[a])'
      BY <1>0, <2>1, <2>4, RestsAtRest
    <3> QED BY <1>0, <1>1, <2>2, <2>4, <3>1, ThreadLeaves
  <2> QED BY <2>1, <2>3, <2>4 DEF Outcome
<1>2. NameOK(NameOf[a])'
  BY <1>0, <1>1 DEF NameOK
<1>3. ASSUME NEW n \in Names, n # NameOf[a] PROVE NameOK(n)'
  <2>1. a \notin InstalledAs(n) /\ None \notin InstalledAs(n)
    BY <1>3, NoneAssumption DEF InstalledAs
  <2>2. \A s \in Threads : thr'[s] = thr[s] \/ {thr'[s].app, thr[s].app} \cap InstalledAs(n) = {}
    BY <2>1
  <2>3. \A s \in Threads : thr'[s].todo = thr[s].todo
    OBVIOUS
  <2>4. podman'[n] = podman[n]
    BY <1>3 DEF OwnBox
  <2>5. \A b \in InstalledAs(n) : row'[b] = row[b] /\ (Due(b)' => Due(b))
    BY <1>0, <2>1 DEF RowOnly, InstalledAs, Due
  <2>6. LeavesAlone(n)
    BY <1>0, <2>2, <2>3, <2>4, <2>5 DEF LeavesAlone, SameWork
  <2>7. n \in overlap => n \in overlap'
    BY <1>3
  <2> QED BY <1>0, <2>6, <2>7, Frame
<1> QED BY <1>2, <1>3

\* A thread that removes the old container has no container id to keep.
RmInv == \A t \in Threads : thr[t].pc = "rm" => thr[t].keep = None

\* The removal of the old container by a launch that is on its own leaves what an
\* overlap on the name left behind, and establishes what the launch goes on from.
LEMMA Heals ==
    ASSUME TInv, RmInv, StopMayFail = FALSE, NEW t \in Threads, NEW a \in Apps, thr[t].app = a,
           PodmanRm(t), Undisturbed(t)
    PROVE  Alone(NameOf[a])' /\ Held(NameOf[a])'
<1> DEFINE n == NameOf[a]
<1>0. ThreadsOK /\ BoxOK /\ n \in Names /\ a \in InstalledAs(n) /\ InstalledAs(n)' = InstalledAs(n) /\ Cid' = Cid
  BY NamesAssumption DEF TInv, InstalledAs, Cid
<1>1. /\ thr' = [thr EXCEPT ![t].pc = "run"] /\ thr[t].pc = "rm" /\ thr[t].keep = None
      /\ row' = row /\ req' = req /\ grd' = grd
  BY DEF PodmanRm, At, Goto, RmInv, threadElse
<1>2. /\ thr'[t].pc = "run" /\ thr'[t].app = a /\ thr'[t].keep = None
      /\ \A s \in Threads : thr'[s].todo = thr[s].todo /\ thr'[s].app = thr[s].app
  BY <1>0, <1>1 DEF ThreadsOK, Thread
<1>3. podman'[n] = None
  BY <1>0, KillIs DEF PodmanRm
<1>4. row[a].status = "starting"
  BY DEF Undisturbed
<1>5. ASSUME NEW b \in InstalledAs(n)
      PROVE  /\ \A s \in Threads : ~Lists(s, b) /\ (thr[s].app = b => s = t)
             /\ ~Handles(b)
  BY <1>5 DEF Undisturbed, InstalledAs
<1>6. \A s \in Threads : ~Queued(s, n)' /\ (AtWork(s, n)' => s = t)
  BY <1>0, <1>2, <1>5 DEF Queued, AtWork, Lists
<1>7. (\A r \in Reqs : ~Serves(r, n)') /\ ~Guarded(n)' /\ ~Listed(n)'
  BY <1>0, <1>1, <1>5 DEF Serves, Guarded, Listed, Handles
<1>8. OnlyThread(t, n)'
  BY <1>6, <1>7 DEF OnlyThread
<1>9. Present(a)' /\ Established(t, a)'
  BY <1>1, <1>2, <1>3, <1>4 DEF Present, Established
<1> QED BY <1>0, <1>2, <1>6, <1>8, <1>9, HeldAfter DEF HeldByOne

LEMMA AgreeByLaunch ==
    ASSUME TInv, RmInv, AgreeInv, StopMayFail = FALSE, NEW t \in Threads, Launch(t) \/ Remove(t)
    PROVE  AgreeInv'
<1> PICK a \in Apps : thr[t].app = a
  BY DEF TInv, ThreadsOK, ThreadShape, Launch, DeployCheck, ReloadRead, StartRead, StartMark,
         RestartRead, Build, SelectRow, Prepare, PodmanRm, PodmanRun, Record, WaitForReady,
         WriteRunning, WriteUnready, Cleanup, ExcWrite, WriteFail, At, LauncherPcs,
         Remove, RemoveRead, RemoveStop, RemovePurge, RemoveDelete, RemoverPcs
<1>0. ThreadsOK /\ RowsOK
  BY DEF TInv
<1>1. UNCHANGED threadElse /\ RowOnly(a) /\ Outcome(t, a) /\ OwnBox(a)
  <2>1. CASE Launch(t)
    <3>1. UNCHANGED threadElse /\ RowOnly(a)
      BY <2>1, LaunchSteps DEF LaunchOK, LauncherHistory
    <3>2. Outcome(t, a) /\ OwnBox(a)
      BY <2>1, EarlyOutcome, RunOutcome, WriteOutcome DEF Launch
    <3> QED BY <3>1, <3>2
  <2>2. CASE Remove(t)
    BY <2>2, RemoveSteps, RemoveOutcome DEF RemoveOK
  <2> QED BY <2>1, <2>2
<1>2. /\ thr' \in [Threads -> Thread] /\ \A s \in Threads \ {t} : thr'[s] = thr[s]
      /\ thr'[t].todo = thr[t].todo /\ thr'[t].app \in {a, None}
      /\ thr'[t].kind \in {thr[t].kind, "none"}
  <2>1. CASE Continues(t)
    BY <2>1 DEF Continues
  <2>2. CASE Ends(t)
    BY <1>0, <2>2 DEF Ends, Finished, RecoveryThread, IdleThread, ThreadsOK, ThreadShape
  <2>3. CASE Remove(t)
    <3>1. ThreadsOK'
      BY <2>3, RemoveSteps DEF RemoveOK
    <3>2. CASE Finish(t)
      BY <1>0, <3>2, FinishEnds, <2>2
    <3>3. CASE \/ \E p \in RemoverPcs : thr' = [thr EXCEPT ![t].pc = p]
               \/ thr' = [thr EXCEPT ![t].pc = "rmstop", ![t].keep = row[a].cid]
      BY <1>0, <3>1, <3>3 DEF ThreadsOK, Thread
    <3>4. {"purge", "delete"} \subseteq RemoverPcs
      BY DEF RemoverPcs
    <3> QED BY <2>3, <3>2, <3>3, <3>4
            DEF Remove, RemoveRead, RemoveStop, RemovePurge, RemoveDelete, Goto
  <2> QED BY <2>1, <2>2, <2>3, LaunchSteps DEF LaunchOK
<1>3. overlap' = overlap \/ (PodmanRm(t) /\ Undisturbed(t) /\ overlap' = overlap \ {NameOf[a]})
  BY DEF Launch, DeployCheck, ReloadRead, StartRead, StartMark,
         RestartRead, Build, SelectRow, Prepare, PodmanRm, PodmanRun, Record, WaitForReady,
         WriteRunning, WriteUnready, Cleanup, ExcWrite, WriteFail, history,
         Remove, RemoveRead, RemoveStop, RemovePurge, RemoveDelete
<1>7. \A n \in Names : NameOK(n)'
  <2>1. Unique /\ \A n \in Names : NameOK(n)
    BY DEF AgreeInv
  <2>2. overlap \ {NameOf[a]} \subseteq overlap'
    BY <1>3
  <2>3. NameOf[a] \in overlap /\ NameOf[a] \notin overlap' => Alone(NameOf[a])' /\ Held(NameOf[a])'
    BY <1>3, Heals
  <2> QED BY <1>1, <1>2, <2>1, <2>2, <2>3, NamesByThread
<1>4. Fewer /\ (SameRows \/ thr[t].kind = "remove")
  BY LaunchKeeps, RemoveFewer DEF SameRows, Fewer
<1>5. Unique'
  BY <1>4, FewerUnique DEF AgreeInv
<1>6. Shapes'
  <2>1. Shapes /\ UNCHANGED <<proc, snap, req, grd>>
    BY <1>1 DEF AgreeInv, threadElse
  <2>2. proc = "scan" => SameRows
    BY <1>4, <2>1 DEF Shapes
  <2>3. proc = "scan" => overlap' = overlap
    BY <1>3 DEF Undisturbed
  <2>4. \A s \in Threads, b \in Apps : thr'[s].app = b => thr[s].app = b
    BY <1>2, NoneAssumption
  <2>5. \A s \in Threads : thr'[s].kind = "remove" => thr[s].kind = "remove"
    BY <1>2
  <2>6. proc = "scan" => \A b \in Apps : snap[b].status # "none" => Present(b)'
    BY <2>1, <2>2 DEF Shapes, SameRows
  <2>7. proc = "scan" => \A s \in Threads, b \in Apps : thr'[s].app = b /\ NameOf[b] \notin overlap' =>
          snap[b].status # "running" /\ (snap[b].status = "building" => snap[b].cid = None)
    BY <2>1, <2>3, <2>4 DEF Shapes
  <2> QED BY <2>1, <2>5, <2>6, <2>7 DEF Shapes
<1> QED BY <1>5, <1>6, <1>7 DEF AgreeInv

-----------------------------------------------------------------------------
(* The steps of requests *)

\* Idle thread t is started on a, and does nothing else.
HandsOver(t, a) ==
    /\ thr[t].pc = "idle" /\ thr' \in [Threads -> Thread]
    /\ \A s \in Threads \ {t} : thr'[s] = thr[s]
    /\ thr'[t].app = a /\ thr'[t].todo = {}

LEMMA IdleIsFree ==
    ASSUME ThreadsOK, NEW t \in Threads, thr[t].pc = "idle", NEW n \in Names
    PROVE  ~AtWork(t, n) /\ ~Queued(t, n) /\ thr[t].app = None /\ thr[t].todo = {}
<1>1. thr[t] = IdleThread
  BY DEF ThreadsOK, ThreadShape
<1>2. None \notin InstalledAs(n)
  BY NoneAssumption DEF InstalledAs
<1> QED BY <1>1, <1>2 DEF IdleThread, AtWork, Queued

LEMMA RequestGoesOn ==
    ASSUME NEW r \in Reqs, NEW a \in Apps, req[r].app = a, NameOf[a] \notin overlap,
           NameOK(NameOf[a]), \A q \in Reqs \ {r} : req'[q] = req[q], UNCHANGED <<thr, grd>>,
           req'[r].app = a, Present(a)', Holds(r, a)'
    PROVE  NameOK(NameOf[a])'
<1> DEFINE n == NameOf[a]
<1>1. n \in Names /\ a \in InstalledAs(n) /\ InstalledAs(n)' = InstalledAs(n)
  BY NamesAssumption DEF InstalledAs
<1>2. OnlyRequest(r, n)
  BY <1>1 DEF NameOK, Alone, Serves
<1>3. \A q \in Reqs \ {r} : Serves(q, n)' <=> Serves(q, n)
  BY <1>1 DEF Serves
<1>4. /\ \A t \in Threads : (AtWork(t, n)' <=> AtWork(t, n)) /\ (Queued(t, n)' <=> Queued(t, n))
      /\ (Guarded(n)' <=> Guarded(n)) /\ (Listed(n)' <=> Listed(n))
  BY <1>1 DEF AtWork, Queued, Guarded, Listed, Cid
<1>5. OnlyRequest(r, n)'
  BY <1>2, <1>3, <1>4 DEF OnlyRequest
<1>6. a \in InstalledAs(n)'
  BY <1>1
<1>7. Alone(n)' /\ Held(n)'
  BY <1>1, <1>5, <1>6, HeldAfter DEF HeldByOne
<1> QED BY <1>7 DEF NameOK

LEMMA RequestLeaves ==
    ASSUME NEW r \in Reqs, NEW a \in Apps, req[r].app = a, NameOf[a] \notin overlap,
           NameOK(NameOf[a]), \A q \in Reqs \ {r} : req'[q] = req[q], UNCHANGED <<thr, grd>>,
           req'[r].app = None, AtRest(NameOf[a])'
    PROVE  NameOK(NameOf[a])'
<1> DEFINE n == NameOf[a]
<1>1. n \in Names /\ a \in InstalledAs(n) /\ InstalledAs(n)' = InstalledAs(n) /\ None \notin InstalledAs(n)
  BY NamesAssumption, NoneAssumption DEF InstalledAs
<1>2. OnlyRequest(r, n)
  BY <1>1 DEF NameOK, Alone, Serves
<1>3. \A q \in Reqs : ~Serves(q, n)'
  BY <1>1, <1>2 DEF Serves, OnlyRequest
<1>4. /\ \A t \in Threads : (AtWork(t, n)' <=> AtWork(t, n)) /\ (Queued(t, n)' <=> Queued(t, n))
      /\ (Guarded(n)' <=> Guarded(n)) /\ (Listed(n)' <=> Listed(n))
  BY <1>1 DEF AtWork, Queued, Guarded, Listed, Cid
<1>5. Nobody(n)'
  BY <1>2, <1>3, <1>4 DEF OnlyRequest, Nobody
<1>7. Alone(n)' /\ Held(n)'
  BY <1>1, <1>5, HeldAfter DEF HeldByOne
<1> QED BY <1>7 DEF NameOK

\* The name is free but for request r, which hands it over or never had it.
LEMMA ThreadTakesOver ==
    ASSUME ThreadsOK, NEW t \in Threads, NEW a \in Apps, NameOf[a] \notin overlap,
           \A s \in Threads : ~AtWork(s, NameOf[a]) /\ ~Queued(s, NameOf[a]),
           \A r \in Reqs : ~Serves(r, NameOf[a])', ~Guarded(NameOf[a]), ~Listed(NameOf[a]), grd' = grd,
           HandsOver(t, a), Present(a)', Established(t, a)'
    PROVE  NameOK(NameOf[a])'
<1> DEFINE n == NameOf[a]
<1>1. n \in Names /\ a \in InstalledAs(n) /\ InstalledAs(n)' = InstalledAs(n)
  BY NamesAssumption DEF InstalledAs
<1>2. \A s \in Threads \ {t} : ~AtWork(s, n)' /\ ~Queued(s, n)'
  BY <1>1 DEF AtWork, Queued, HandsOver
<1>3. ~Queued(t, n)' /\ thr'[t].app = a
  BY DEF Queued, HandsOver
<1>4. ~Guarded(n)' /\ ~Listed(n)'
  BY <1>1 DEF Guarded, Listed, Cid
<1>5. OnlyThread(t, n)'
  BY <1>2, <1>4 DEF OnlyThread
<1>6. a \in InstalledAs(n)'
  BY <1>1
<1>7. Alone(n)' /\ Held(n)'
  BY <1>1, <1>3, <1>5, <1>6, HeldAfter DEF HeldByOne
<1> QED BY <1>7 DEF NameOK

\* What the step of a request that is alone at its app's name leads to.
RequestOutcome(r, a) ==
    Present(a) /\ Holds(r, a) =>
      \/ req'[r].app = a /\ Present(a)' /\ Holds(r, a)' /\ thr' = thr
      \/ req'[r].app = None /\ Rests(a)' /\ thr' = thr
      \/ req'[r].app = None /\ \E t \in Threads : HandsOver(t, a) /\ Present(a)' /\ Established(t, a)'

LEMMA NamesByRequest ==
    ASSUME TInv, Unique, \A n \in Names : NameOK(n), NEW r \in Reqs, NEW a \in Apps, req[r].app = a,
           \A q \in Reqs \ {r} : req'[q] = req[q], req'[r].app \in {a, None},
           thr' = thr \/ \E t \in Threads : HandsOver(t, a),
           UNCHANGED reqElse, RowOnly(a), OwnBox(a), RequestOutcome(r, a)
    PROVE  \A n \in Names : NameOK(n)'
<1>0. /\ UNCHANGED <<grd, proc, snap>> /\ overlap' = overlap /\ RowsOK /\ ThreadsOK
      /\ NameOf[a] \in Names /\ a \in InstalledAs(NameOf[a]) /\ None \notin InstalledAs(NameOf[a])
  BY NamesAssumption, NoneAssumption DEF reqElse, history, TInv, InstalledAs
<1>1. ASSUME NameOf[a] \notin overlap PROVE NameOK(NameOf[a])'
  <2>1. Present(a) /\ Holds(r, a)
    BY <1>0, <1>1 DEF NameOK, Held
  <2>2. NameOK(NameOf[a])
    BY <1>0
  <2>3. CASE req'[r].app = a /\ Present(a)' /\ Holds(r, a)' /\ thr' = thr
    BY <1>0, <1>1, <2>2, <2>3, RequestGoesOn
  <2>4. CASE req'[r].app = None /\ Rests(a)' /\ thr' = thr
    <3>1. AtRest(NameOf[a])'
      BY <1>0, <2>1, <2>4, RestsAtRest
    <3> QED BY <1>0, <1>1, <2>2, <2>4, <3>1, RequestLeaves
  <2>5. ASSUME NEW t \in Threads, req'[r].app = None, HandsOver(t, a), Present(a)', Established(t, a)'
        PROVE  NameOK(NameOf[a])'
    <3>1. OnlyRequest(r, NameOf[a])
      BY <1>0, <1>1, <2>2 DEF NameOK, Alone, Serves
    <3>2. \A q \in Reqs : ~Serves(q, NameOf[a])'
      BY <1>0, <2>5, <3>1 DEF OnlyRequest, Serves, InstalledAs
    <3> QED BY <1>0, <1>1, <2>5, <3>1, <3>2, ThreadTakesOver DEF OnlyRequest
  <2> QED BY <2>1, <2>3, <2>4, <2>5 DEF RequestOutcome
<1>2. NameOK(NameOf[a])'
  BY <1>0, <1>1 DEF NameOK
<1>3. ASSUME NEW n \in Names, n # NameOf[a] PROVE NameOK(n)'
  <2>1. a \notin InstalledAs(n) /\ None \notin InstalledAs(n)
    BY <1>3, NoneAssumption DEF InstalledAs
  <2>2. \A q \in Reqs : req'[q] = req[q] \/ {req'[q].app, req[q].app} \cap InstalledAs(n) = {}
    BY <2>1
  <2>3. \A s \in Threads : /\ thr'[s] = thr[s] \/ {thr'[s].app, thr[s].app} \cap InstalledAs(n) = {}
                           /\ thr'[s].todo = thr[s].todo
    <3>1. CASE thr' = thr
      BY <3>1
    <3>2. ASSUME NEW t \in Threads, HandsOver(t, a)
          PROVE  \A s \in Threads : /\ thr'[s] = thr[s] \/ {thr'[s].app, thr[s].app} \cap InstalledAs(n) = {}
                                    /\ thr'[s].todo = thr[s].todo
      <4>1. thr[t].app = None /\ thr[t].todo = {}
        BY <1>0, <3>2, IdleIsFree DEF HandsOver
      <4>2. /\ {thr'[t].app, thr[t].app} \cap InstalledAs(n) = {}
            /\ thr'[t].todo = thr[t].todo
        BY <2>1, <3>2, <4>1 DEF HandsOver
      <4>3. \A s \in Threads \ {t} : thr'[s] = thr[s]
        BY <3>2 DEF HandsOver
      <4> QED BY <4>2, <4>3
    <3> QED BY <3>1, <3>2
  <2>4. podman'[n] = podman[n]
    BY <1>3 DEF OwnBox
  <2>5. \A b \in InstalledAs(n) : row'[b] = row[b] /\ (Due(b)' => Due(b))
    BY <1>0, <2>1 DEF RowOnly, InstalledAs, Due
  <2>6. LeavesAlone(n)
    BY <1>0, <2>2, <2>3, <2>4, <2>5 DEF LeavesAlone, SameWork
  <2> QED BY <1>0, <2>6, Frame
<1> QED BY <1>2, <1>3

LEMMA SpawnIs ==
    ASSUME ThreadsOK, NEW t \in Threads, NEW k \in {"deploy", "reload", "remove"}, NEW a \in Apps,
           NEW p \in {"check", "reload", "rmread"}, Spawn(t, k, a, p)
    PROVE  HandsOver(t, a) /\ thr'[t].pc = p /\ thr'[t].kind = k
<1> DEFINE x == [IdleThread EXCEPT !.kind = k, !.app = a, !.pc = p]
<1>1. x \in Thread /\ x.kind = k /\ x.app = a /\ x.pc = p /\ x.todo = {}
  BY IdleTypes DEF IdleThread, Thread, LauncherKinds, LauncherPcs, Pcs
<1> HIDE DEF x
<1>2. thr' \in [Threads -> Thread] /\ thr'[t] = x /\ \A s \in Threads \ {t} : thr'[s] = thr[s]
  BY <1>1 DEF ThreadsOK, Spawn, x
<1> QED BY <1>1, <1>2 DEF HandsOver, Spawn

\* What every step of a request does to requests, threads and rows.
RequestMove(r, a) ==
    /\ UNCHANGED reqElse /\ RowOnly(a) /\ OwnBox(a) /\ SameRows
    /\ \A q \in Reqs \ {r} : req'[q] = req[q]
    /\ req'[r].app \in {a, None}
    /\ thr' = thr \/ \E t \in Threads : HandsOver(t, a) /\ thr'[t].kind = "reload"
    /\ RequestOutcome(r, a)

LEMMA StopMoves ==
    ASSUME TInv, StopMayFail = FALSE, NEW r \in Reqs, NEW a \in Apps, req[r].app = a,
           StopByCid(r) \/ StopByName(r) \/ StopWrite(r)
    PROVE  RequestMove(r, a)
<1> DEFINE n == NameOf[a]
<1>0. /\ RowsOK /\ BoxOK /\ n \in Names /\ req \in [Reqs -> Request] /\ req[r] \in Request
      /\ IdleReq.app = None
  BY NamesAssumption DEF TInv, ReqsOK, IdleReq
<1>1. CASE StopByCid(r)
  <2>1. /\ podman'[n] = IF podman[n] = req[r].cid THEN None ELSE podman[n]
        /\ \A m \in Names \ {n} : podman'[m] = podman[m]
    BY <1>0, <1>1, KillIs DEF StopByCid
  <2>2. /\ req'[r].pc = "stopname" /\ req'[r].app = a /\ req[r].pc = "stopcid"
        /\ \A q \in Reqs \ {r} : req'[q] = req[q]
    BY <1>0, <1>1 DEF StopByCid, Request
  <2>3. row' = row /\ thr' = thr /\ UNCHANGED reqElse
    BY <1>1 DEF StopByCid
  <2>4. RequestOutcome(r, a)
    BY NoneAssumption, <2>1, <2>2, <2>3 DEF RequestOutcome, Holds, Recorded, Fresh, Present
  <2> QED BY <1>0, <2>1, <2>2, <2>3, <2>4 DEF RequestMove, RowOnly, RowsOK, OwnBox, SameRows, Present
<1>2. CASE StopByName(r)
  <2>0. Kill(n, podman[n]) /\ req' = [req EXCEPT ![r].pc = "stopwrite"]
    BY <1>2 DEF StopByName
  <2>1. podman'[n] = None /\ \A m \in Names \ {n} : podman'[m] = podman[m]
    BY <1>0, <2>0, KillIs
  <2>2. /\ req'[r].pc = "stopwrite" /\ req'[r].app = a
        /\ \A q \in Reqs \ {r} : req'[q] = req[q]
    BY <1>0, <2>0 DEF Request
  <2>3. row' = row /\ thr' = thr /\ UNCHANGED reqElse
    BY <1>2 DEF StopByName
  <2>4. RequestOutcome(r, a)
    BY NoneAssumption, <2>1, <2>2, <2>3 DEF RequestOutcome, Holds, Present
  <2> QED BY <1>0, <2>1, <2>2, <2>3, <2>4 DEF RequestMove, RowOnly, RowsOK, OwnBox, SameRows, Present
<1>3. CASE StopWrite(r)
  <2>0. UpdateRow(a, [row[a] EXCEPT !.status = "stopped", !.cid = None])
    BY <1>3 DEF StopWrite
  <2>1. podman' = podman /\ thr' = thr /\ UNCHANGED reqElse /\ req[r].pc = "stopwrite"
    BY <1>3 DEF StopWrite
  <2>2. req'[r].app = None /\ \A q \in Reqs \ {r} : req'[q] = req[q]
    BY <1>0, <1>3 DEF StopWrite
  <2>3. /\ [row[a] EXCEPT !.status = "stopped", !.cid = None] \in Rows
        /\ [row[a] EXCEPT !.status = "stopped", !.cid = None].status = "stopped"
    BY <1>0 DEF RowsOK, Rows, Statuses, Cid
  <2>4. RowOnly(a) /\ SameRows /\ (Present(a) => row'[a].status = "stopped")
    <3> DEFINE x == [row[a] EXCEPT !.status = "stopped", !.cid = None]
    <3>1. x \in Rows /\ x.status = "stopped" /\ UpdateRow(a, x)
      BY <2>0, <2>3
    <3> HIDE DEF x
    <3>2. SameRows
      BY <1>0, <3>1, UpdateKeeps
    <3>3. Present(a) => row'[a] = x
      BY <1>0, <3>1, UpdateIs
    <3>4. RowOnly(a)
      BY <1>0, <3>1 DEF RowOnly, RowsOK, UpdateRow
    <3> QED BY <3>1, <3>2, <3>3, <3>4
  <2>5. RequestOutcome(r, a)
    BY <2>1, <2>2, <2>4 DEF RequestOutcome, Holds, Rests, Lives, Fresh
  <2> QED BY <2>1, <2>2, <2>4, <2>5 DEF RequestMove, OwnBox
<1> QED BY <1>1, <1>2, <1>3

LEMMA PullMoves ==
    ASSUME TInv, NEW r \in Reqs, NEW a \in Apps, req[r].app = a, PullDone(r)
    PROVE  RequestMove(r, a)
<1>0. RowsOK /\ BoxOK /\ req \in [Reqs -> Request] /\ req[r] \in Request /\ IdleReq.app = None
  BY DEF TInv, ReqsOK, IdleReq
<1>1. podman' = podman /\ thr' = thr /\ UNCHANGED reqElse /\ req[r].pc = "pull" /\ OwnBox(a)
  BY DEF PullDone, OwnBox
<1>2. ASSUME row' = row PROVE RowOnly(a) /\ SameRows
  BY <1>0, <1>2 DEF RowOnly, RowsOK, SameRows, Present
<1>3. CASE req' = [req EXCEPT ![r].pc = "claim"] /\ row' = row
  <2>1. /\ req'[r].pc = "claim" /\ req'[r].app = a /\ req'[r].cid = req[r].cid
        /\ \A q \in Reqs \ {r} : req'[q] = req[q]
    BY <1>0, <1>3 DEF Request
  <2>2. RequestOutcome(r, a)
    BY <1>1, <1>3, <2>1 DEF RequestOutcome, Holds, Recorded, Fresh, Lives, Present
  <2> QED BY <1>1, <1>2, <1>3, <2>1, <2>2 DEF RequestMove
<1>4. CASE req' = [req EXCEPT ![r] = IdleReq] /\ row' = row
  <2>1. req'[r].app = None /\ \A q \in Reqs \ {r} : req'[q] = req[q]
    BY <1>0, <1>4
  <2>2. RequestOutcome(r, a)
    BY <1>1, <1>4, <2>1 DEF RequestOutcome, Holds, Recorded, Fresh, Lives, Present, Rests
  <2> QED BY <1>1, <1>2, <1>4, <2>1, <2>2 DEF RequestMove
<1>5. CASE /\ req' = [req EXCEPT ![r] = IdleReq]
           /\ UpdateRow(a, [row[a] EXCEPT !.status = "error", !.err = "other"])
  <2>1. req'[r].app = None /\ \A q \in Reqs \ {r} : req'[q] = req[q]
    BY <1>0, <1>5
  <2>2. RowOnly(a) /\ SameRows
    BY <1>0, <1>5, SettleRow, StatusKeeps, "error" \in Statuses, "other" \in Errors DEF Statuses, Errors
  <2>3. Present(a) => row'[a].status = "error" /\ row'[a].cid = row[a].cid
    BY <1>0, <1>5, ErrorIs
  <2>4. RequestOutcome(r, a)
    BY <1>1, <2>1, <2>3 DEF RequestOutcome, Holds, Recorded, Fresh, Lives, Present, Rests
  <2> QED BY <1>1, <2>1, <2>2, <2>4 DEF RequestMove
<1> QED BY <1>3, <1>4, <1>5 DEF PullDone

LEMMA ClaimMoves ==
    ASSUME TInv, NEW r \in Reqs, NEW a \in Apps, req[r].app = a, Claim(r)
    PROVE  RequestMove(r, a)
<1>0. RowsOK /\ BoxOK /\ req \in [Reqs -> Request] /\ req[r] \in Request /\ IdleReq.app = None
  BY DEF TInv, ReqsOK, IdleReq
<1>1. podman' = podman /\ thr' = thr /\ UNCHANGED reqElse /\ req[r].pc = "claim" /\ OwnBox(a)
  BY DEF Claim, OwnBox
<1>2. CASE /\ Claimable(a) /\ req' = [req EXCEPT ![r].pc = "stopold"]
           /\ row' = [row EXCEPT ![a] = [status |-> "building", cid |-> None, err |-> "null"]]
  <2>1. /\ req'[r].pc = "stopold" /\ req'[r].app = a /\ req'[r].cid = req[r].cid
        /\ \A q \in Reqs \ {r} : req'[q] = req[q]
    BY <1>0, <1>2 DEF Request
  <2>2. /\ RowOnly(a) /\ row'[a] = [status |-> "building", cid |-> None, err |-> "null"]
        /\ Present(a)
    BY <1>0, <1>2 DEF RowOnly, RowsOK, Rows, Statuses, Cid, Errors, Claimable
  <2>3. SameRows
    BY <2>2 DEF RowOnly, SameRows, Present
  <2>4. RequestOutcome(r, a)
    BY <1>1, <2>1, <2>2 DEF RequestOutcome, Holds, Recorded, Fresh, Present
  <2> QED BY <1>1, <2>1, <2>2, <2>3, <2>4 DEF RequestMove
<1>3. CASE /\ ~Claimable(a) /\ row' = row
           /\ req' = [req EXCEPT ![r] = IF req[r].oauth THEN [@ EXCEPT !.pc = "stopold"] ELSE IdleReq]
  <2>1. RowOnly(a) /\ SameRows /\ \A q \in Reqs \ {r} : req'[q] = req[q]
    BY <1>0, <1>3 DEF RowOnly, RowsOK, SameRows, Present
  <2>2. \/ req'[r].pc = "stopold" /\ req'[r].app = a /\ req'[r].cid = req[r].cid
        \/ req'[r].app = None
    BY <1>0, <1>3 DEF Request
  <2>3. RequestOutcome(r, a)
    BY <1>1, <1>3, <2>2 DEF Claimable, RequestOutcome, Holds, Recorded, Fresh, Lives, Present, Rests
  <2> QED BY <1>1, <2>1, <2>2, <2>3 DEF RequestMove
<1> QED BY <1>2, <1>3 DEF Claim

LEMMA StopOldMoves ==
    ASSUME TInv, StopMayFail = FALSE, NEW r \in Reqs, NEW a \in Apps, req[r].app = a,
           NEW t \in Threads, StopOld(r, t)
    PROVE  RequestMove(r, a)
<1> DEFINE n == NameOf[a]
<1>0. /\ ThreadsOK /\ RowsOK /\ BoxOK /\ n \in Names /\ req \in [Reqs -> Request] /\ req[r] \in Request
      /\ IdleReq.app = None
  BY NamesAssumption DEF TInv, ReqsOK, IdleReq
<1>1. /\ podman'[n] = IF podman[n] = req[r].cid THEN None ELSE podman[n]
      /\ \A m \in Names \ {n} : podman'[m] = podman[m]
  BY <1>0, KillIs DEF StopOld
<1>2. HandsOver(t, a) /\ thr'[t].pc = "reload" /\ thr'[t].kind = "reload"
  BY <1>0, SpawnIs DEF StopOld
<1>3. req'[r].app = None /\ (\A q \in Reqs \ {r} : req'[q] = req[q]) /\ req[r].pc = "stopold"
  BY <1>0 DEF StopOld
<1>4. row' = row /\ UNCHANGED reqElse
  BY DEF StopOld
<1>5. Present(a) /\ Holds(r, a) => Present(a)' /\ Established(t, a)'
  BY NoneAssumption, <1>1, <1>2, <1>3, <1>4 DEF Holds, Present, Established, Recorded, Fresh
<1>6. RequestOutcome(r, a)
  BY <1>2, <1>3, <1>5 DEF RequestOutcome
<1> QED BY <1>0, <1>1, <1>2, <1>3, <1>4, <1>6 DEF RequestMove, RowOnly, RowsOK, OwnBox, SameRows, Present

LEMMA AgreeByRequest ==
    ASSUME TInv, AgreeInv, StopMayFail = FALSE, NEW r \in Reqs, ReqStep(r)
    PROVE  AgreeInv'
<1> PICK a \in Apps : req[r].app = a
  BY DEF TInv, ReqsOK, ReqStep, StopByCid, StopByName, StopWrite, PullDone, Claim, StopOld
<1>1. RequestMove(r, a)
  BY StopMoves, PullMoves, ClaimMoves, StopOldMoves DEF ReqStep
<1>2. \A n \in Names : NameOK(n)'
  <2>1. Unique /\ \A n \in Names : NameOK(n)
    BY DEF AgreeInv
  <2> QED BY <1>1, <2>1, NamesByRequest DEF RequestMove
<1>3. Unique'
  BY <1>1, FewerUnique DEF AgreeInv, RequestMove, SameRows, Fewer
<1>4. Shapes'
  <2>1. Shapes /\ UNCHANGED <<proc, snap, grd>> /\ SameRows
    BY <1>1 DEF AgreeInv, RequestMove, reqElse
  <2>2. proc = "up"
    BY <2>1 DEF Shapes
  <2> QED BY <2>1, <2>2 DEF Shapes
<1> QED BY <1>2, <1>3, <1>4 DEF AgreeInv

-----------------------------------------------------------------------------
(* The steps of a recovery list and of the storage guard *)

\* Between two apps of its list a recovery thread is at work on none.
LEMMA BetweenApps ==
    ASSUME NEW t \in Threads, thr[t].pc = "next", NEW n \in Names, NameOK(n), n \notin overlap
    PROVE  thr[t].app \notin InstalledAs(n)
<1> SUFFICES ASSUME NEW a \in InstalledAs(n), thr[t].app = a PROVE FALSE
  OBVIOUS
<1>1. Established(t, a)
  BY DEF NameOK, Held
<1> QED BY <1>1 DEF Established

\* Thread t takes a from its list.
LEMMA ThreadTakes ==
    ASSUME NEW t \in Threads, NEW a \in Apps, NEW b \in BOOLEAN, <<a, b>> \in thr[t].todo,
           NameOf[a] \notin overlap, NameOK(NameOf[a]), \A s \in Threads \ {t} : thr'[s] = thr[s],
           thr'[t].todo = thr[t].todo \ {<<a, b>>}, UNCHANGED <<req, grd, row, podman>>,
           thr'[t].app = a, thr'[t].pc \in {"start", "restart"}
    PROVE  NameOK(NameOf[a])'
<1> DEFINE n == NameOf[a]
<1>1. n \in Names /\ a \in InstalledAs(n) /\ InstalledAs(n)' = InstalledAs(n)
  BY NamesAssumption DEF InstalledAs
<1>2. Queued(t, n) /\ OnlyThread(t, n)
  BY <1>1 DEF NameOK, Alone, Queued
<1>3. Present(a) /\ Recorded(a) /\ row[a].status # "running"
  BY <1>1 DEF NameOK, Held
<1>4. \A s \in Threads \ {t} : (AtWork(s, n)' <=> AtWork(s, n)) /\ (Queued(s, n)' <=> Queued(s, n))
  BY <1>1 DEF AtWork, Queued
<1>5. ~Queued(t, n)'
  <2>1. \A c \in InstalledAs(n), x \in BOOLEAN : <<c, x>> \in thr[t].todo => c = a /\ x = b
    BY <1>1 DEF NameOK, Alone
  <2> QED BY <1>1, <2>1 DEF Queued
<1>6. (\A r \in Reqs : Serves(r, n)' <=> Serves(r, n)) /\ (Guarded(n)' <=> Guarded(n)) /\ (Listed(n)' <=> Listed(n))
  BY <1>1 DEF Serves, Guarded, Listed, Cid
<1>7. OnlyThread(t, n)'
  BY <1>2, <1>4, <1>6 DEF OnlyThread
<1>8. a \in InstalledAs(n)' /\ Present(a)' /\ Established(t, a)'
  BY <1>1, <1>3 DEF Present, Established, Recorded, Fresh
<1>9. Alone(n)' /\ Held(n)'
  BY <1>1, <1>5, <1>7, <1>8, HeldAfter DEF HeldByOne
<1> QED BY <1>9 DEF NameOK

LEMMA AgreeByRecovery ==
    ASSUME TInv, Phases, AgreeInv, NEW t \in Threads, NextRecovery(t)
    PROVE  AgreeInv'
<1>0. /\ ThreadsOK /\ thr[t].pc = "next" /\ thr[t] \in Thread /\ thr[t].kind \in {"recover", "sync"}
      /\ UNCHANGED <<row, podman, req, grd, snap, overlap>>
  BY DEF TInv, ThreadsOK, ThreadShape, NextRecovery, At, db, box, history
<1>1. proc \in {"sync", "up"} /\ proc' \in {"sync", "up"} /\ (proc = "up" => proc' = "up")
  BY <1>0 DEF Phases, NextRecovery
<1>2. \A a \in Apps : Due(a)
  BY <1>1 DEF Due
<1>3. CASE thr[t].todo = {} /\ thr' = [thr EXCEPT ![t] = IdleThread]
  <2>1. /\ thr'[t].app = None /\ thr'[t].todo = {} /\ thr'[t].kind = "none"
        /\ \A s \in Threads \ {t} : thr'[s] = thr[s]
    BY <1>0, <1>3 DEF ThreadsOK, IdleThread
  <2>2. ASSUME NEW n \in Names PROVE NameOK(n)'
    <3>1. ASSUME n \notin overlap PROVE LeavesAlone(n)
      <4>1. {thr'[t].app, thr[t].app} \cap InstalledAs(n) = {}
        <5>1. thr[t].app \notin InstalledAs(n)
          BY <1>0, <3>1, BetweenApps DEF AgreeInv
        <5>2. None \notin InstalledAs(n)
          BY NoneAssumption DEF InstalledAs
        <5> QED BY <2>1, <5>1, <5>2
      <4>2. \A s \in Threads : /\ thr'[s] = thr[s] \/ {thr'[s].app, thr[s].app} \cap InstalledAs(n) = {}
                               /\ thr'[s].todo = thr[s].todo
        BY <1>3, <2>1, <4>1
      <4> QED BY <1>0, <1>2, <4>2 DEF LeavesAlone, SameWork, InstalledAs
    <3> QED BY <1>0, <3>1, Frame DEF AgreeInv
  <2>3. \A s \in Threads : thr'[s].kind = "remove" => thr[s].kind = "remove"
    BY <2>1
  <2>4. Unique' /\ Shapes'
    BY <1>0, <1>1, <2>3 DEF AgreeInv, Unique, Shapes, Present
  <2> QED BY <2>2, <2>4 DEF AgreeInv
<1>4. ASSUME NEW x \in thr[t].todo,
             thr' = [thr EXCEPT ![t].todo = @ \ {x}, ![t].app = x[1],
                                ![t].pc = IF x[2] THEN "start" ELSE "restart"]
      PROVE  AgreeInv'
  <2>1. PICK a \in Apps, b \in BOOLEAN : x = <<a, b>>
    BY <1>0 DEF Thread
  <2>2. /\ thr'[t].app = a /\ thr'[t].todo = thr[t].todo \ {<<a, b>>} /\ thr'[t].kind = thr[t].kind
        /\ thr'[t].pc \in {"start", "restart"}
        /\ \A s \in Threads \ {t} : thr'[s] = thr[s]
    <3> DEFINE y == [thr[t] EXCEPT !.todo = thr[t].todo \ {x}, !.app = a, !.pc = IF b THEN "start" ELSE "restart"]
    <3>1. thr' = [thr EXCEPT ![t] = y]
      BY <1>0, <1>4, <2>1 DEF ThreadsOK, Thread
    <3>2. thr'[t] = y /\ \A s \in Threads \ {t} : thr'[s] = thr[s]
      BY <1>0, <3>1 DEF ThreadsOK
    <3> QED BY <1>0, <2>1, <3>2 DEF Thread
  <2>3. ASSUME NameOf[a] \notin overlap PROVE NameOK(NameOf[a])'
    <3>1. NameOK(NameOf[a])
      BY NamesAssumption DEF AgreeInv
    <3> QED BY <1>0, <1>4, <2>1, <2>2, <2>3, <3>1, ThreadTakes
  <2>4. ASSUME NEW n \in Names PROVE NameOK(n)'
    <3>1. CASE n = NameOf[a]
      BY <1>0, <2>3, <3>1 DEF NameOK
    <3>2. ASSUME n # NameOf[a], n \notin overlap PROVE LeavesAlone(n)
      <4>1. a \notin InstalledAs(n) /\ thr[t].app \notin InstalledAs(n)
        <5>1. thr[t].app \notin InstalledAs(n)
          BY <1>0, <3>2, BetweenApps DEF AgreeInv
        <5> QED BY <3>2, <5>1 DEF InstalledAs
      <4>2. \A s \in Threads : thr'[s] = thr[s] \/ {thr'[s].app, thr[s].app} \cap InstalledAs(n) = {}
        BY <2>2, <4>1
      <4>3. \A s \in Threads, c \in InstalledAs(n), y \in BOOLEAN :
               <<c, y>> \in thr'[s].todo <=> <<c, y>> \in thr[s].todo
        BY <2>2, <4>1
      <4> QED BY <1>0, <1>2, <4>2, <4>3 DEF LeavesAlone, SameWork, InstalledAs
    <3> QED BY <1>0, <3>1, <3>2, Frame DEF AgreeInv
  <2>5. \A s \in Threads : thr'[s].kind = "remove" => thr[s].kind = "remove"
    BY <2>2
  <2>6. Unique' /\ Shapes'
    BY <1>0, <1>1, <2>5 DEF AgreeInv, Unique, Shapes, Present
  <2> QED BY <2>4, <2>6 DEF AgreeInv
<1> QED BY <1>3, <1>4 DEF NextRecovery

LEMMA InFlightIs == \A n \in Names : Nobody(n) <=> ~InFlight(n)
<1> SUFFICES ASSUME NEW n \in Names PROVE Nobody(n) <=> ~InFlight(n)
  OBVIOUS
<1>1. ASSUME Nobody(n), NEW a \in Apps, NameOf[a] = n, Touches(a) PROVE FALSE
  <2>1. a \in InstalledAs(n)
    BY <1>1 DEF InstalledAs
  <2> QED BY <1>1, <2>1 DEF Nobody, Touches, Lists, Handles, AtWork, Queued, Serves, Guarded, Listed
<1>2. ASSUME ~Nobody(n) PROVE InFlight(n)
  <2>1. PICK a \in InstalledAs(n) : Touches(a)
    BY <1>2 DEF Nobody, Touches, Lists, Handles, AtWork, Queued, Serves, Guarded, Listed
  <2> QED BY <2>1 DEF InFlight, InstalledAs
<1> QED BY <1>1, <1>2 DEF InFlight

\* An actor that starts on an app without overlapping finds nobody at work.
LEMMA FreshStart ==
    ASSUME NEW S \in SUBSET Apps, StartOn(S)
    PROVE  /\ overlap \subseteq overlap'
           /\ \A a \in S : NameOf[a] \notin overlap' => NameOf[a] \notin overlap /\ Nobody(NameOf[a])
<1>1. overlap \subseteq overlap'
  BY DEF StartOn
<1>2. ASSUME NEW a \in S, NameOf[a] \notin overlap' PROVE Nobody(NameOf[a])
  <2>1. ~InFlight(NameOf[a])
    BY <1>2 DEF StartOn
  <2> QED BY <2>1, InFlightIs, NamesAssumption
<1> QED BY <1>1, <1>2

\* The guard alone has the name: in its list, or it has just stopped it.
GuardHolds ==
    /\ \A n \in Names, a \in Apps :
         /\ a \in InstalledAs(n) /\ OnlyGuard(n) /\ ~Guarded(n) /\ Present(a) /\ Recorded(a)
         /\ <<a, row[a].cid>> \in grd.todo
         /\ \A b \in InstalledAs(n), d \in Cid : <<b, d>> \in grd.todo => b = a /\ d = row[a].cid
         => Alone(n) /\ Held(n)
    /\ \A n \in Names, a \in Apps :
         a \in InstalledAs(n) /\ OnlyGuard(n) /\ grd.app = a /\ ~Listed(n) /\ Present(a)
             /\ podman[n] \notin Cids => Alone(n) /\ Held(n)

LEMMA GuardHoldsIt == RowsOK => GuardHolds
<1> SUFFICES ASSUME RowsOK, NEW n \in Names, NEW a \in Apps, a \in InstalledAs(n), OnlyGuard(n), Present(a),
             \/ /\ ~Guarded(n) /\ Recorded(a) /\ <<a, row[a].cid>> \in grd.todo
                /\ \A b \in InstalledAs(n), d \in Cid : <<b, d>> \in grd.todo => b = a /\ d = row[a].cid
             \/ grd.app = a /\ ~Listed(n) /\ podman[n] \notin Cids
             PROVE  Alone(n) /\ Held(n)
  BY DEF GuardHolds
<1>1. \A s \in Threads, c \in InstalledAs(n), b \in BOOLEAN : <<c, b>> \notin thr[s].todo
  BY DEF OnlyGuard, Queued
<1>2. (\A s \in Threads : ~AtWork(s, n) /\ ~Queued(s, n)) /\ \A r \in Reqs : ~Serves(r, n)
  BY DEF OnlyGuard
<1>3. row[a].cid \in Cid
  BY DEF RowsOK, Rows
<1>4. CASE /\ ~Guarded(n) /\ Recorded(a) /\ <<a, row[a].cid>> \in grd.todo
           /\ \A b \in InstalledAs(n), d \in Cid : <<b, d>> \in grd.todo => b = a /\ d = row[a].cid
  <2>1. Listed(n) /\ ~Nobody(n)
    BY <1>3, <1>4 DEF Listed, Nobody
  <2>2. Alone(n)
    BY <1>1, <1>2, <1>4 DEF Alone
  <2>3. Held(n)
    BY <1>1, <1>2, <1>4, <2>1 DEF Held, AtWork, Serves, Guarded
  <2> QED BY <2>2, <2>3
<1>5. CASE grd.app = a /\ ~Listed(n) /\ podman[n] \notin Cids
  <2>1. Guarded(n) /\ ~Nobody(n)
    BY <1>5 DEF Guarded, Nobody
  <2>2. \A b \in InstalledAs(n), d \in Cid : <<b, d>> \notin grd.todo
    BY <1>5 DEF Listed
  <2>3. Alone(n)
    BY <1>1, <1>2, <1>5, <2>2 DEF Alone
  <2>4. Held(n)
    BY <1>1, <1>2, <1>5, <2>1, <2>2 DEF Held, AtWork, Serves
  <2> QED BY <2>3, <2>4
<1> QED BY <1>4, <1>5

LEMMA GuardAfter == RowsOK' => GuardHolds'
BY GuardHoldsIt, PTL

\* A name at rest whose row is there has no other container than the row's.
LEMMA RestRecorded ==
    ASSUME Unique, NEW a \in Apps, Present(a), AtRest(NameOf[a])
    PROVE  Recorded(a)
BY DEF AtRest, Recorded, Fresh, Unique, InstalledAs

LEMMA AgreeBySelect ==
    ASSUME TInv, AgreeInv, GuardSelect
    PROVE  AgreeInv'
<1> DEFINE S == {a \in Apps : row[a].status \in {"running", "starting"}}
<1>0. /\ RowsOK' /\ grd = IdleGuard /\ proc' = proc
      /\ UNCHANGED <<row, podman, thr, req, snap, proc>>
  BY DEF TInv, GuardSelect, AgreeInv, Shapes, db, box, RowsOK
<1>1. grd'.pc = "stop" /\ grd'.todo = {<<a, row[a].cid>> : a \in S} /\ grd'.app = None /\ StartOn(S)
  BY DEF GuardSelect
<1>2. overlap \subseteq overlap'
  BY <1>1, FreshStart
<1>3. ASSUME NEW n \in Names PROVE NameOK(n)'
  <2>1. None \notin InstalledAs(n) /\ InstalledAs(n)' = InstalledAs(n) /\ Cid' = Cid
    BY NoneAssumption DEF InstalledAs, Cid
  <2>2. CASE \E a \in S : NameOf[a] = n
    <3>1. PICK a \in S : NameOf[a] = n
      BY <2>2
    <3> SUFFICES ASSUME n \notin overlap' PROVE Alone(n)' /\ Held(n)'
      BY DEF NameOK
    <3>2. n \notin overlap /\ Nobody(n)
      BY <1>1, <3>1, FreshStart
    <3>3. AtRest(n) /\ Present(a) /\ a \in InstalledAs(n)
      BY <3>1, <3>2 DEF AgreeInv, NameOK, Held, Present, InstalledAs
    <3>4. Recorded(a)
      BY <3>1, <3>3, RestRecorded DEF AgreeInv
    <3>5. OnlyGuard(n)' /\ ~Guarded(n)'
      BY <1>0, <1>1, <2>1, <3>2 DEF Nobody, OnlyGuard, AtWork, Queued, Serves, Guarded
    <3>6. \A b \in InstalledAs(n), d \in Cid : <<b, d>> \in grd'.todo => b = a /\ d = row[a].cid
      BY <1>1, <3>1 DEF AgreeInv, Unique, Present, InstalledAs
    <3>7. <<a, row[a].cid>> \in grd'.todo
      BY <1>1, <3>1
    <3>8. Present(a)' /\ Recorded(a)' /\ row'[a] = row[a]
      BY <1>0, <3>3, <3>4 DEF Present, Recorded, Fresh
    <3> QED BY <1>0, <2>1, <3>3, <3>5, <3>6, <3>7, <3>8, GuardAfter DEF GuardHolds
  <2>3. CASE \A a \in S : NameOf[a] # n
    <3>1. \A a \in InstalledAs(n), c \in Cid : <<a, c>> \notin grd'.todo /\ <<a, c>> \notin grd.todo
      BY <1>0, <1>1, <2>3 DEF InstalledAs, IdleGuard
    <3>2. grd'.app = grd.app
      BY <1>0, <1>1 DEF IdleGuard
    <3>3. \A a \in Apps : Due(a)' <=> Due(a)
      BY <1>0 DEF Due
    <3>4. LeavesAlone(n)
      BY <1>0, <3>1, <3>2, <3>3 DEF LeavesAlone, SameWork, InstalledAs
    <3> QED BY <1>2, <3>4, Frame DEF AgreeInv
  <2> QED BY <2>2, <2>3
<1>4. Unique' /\ Shapes'
  BY <1>0, <1>1, <1>2 DEF AgreeInv, Unique, Shapes, Present
<1> QED BY <1>3, <1>4 DEF AgreeInv

LEMMA AgreeByStop ==
    ASSUME TInv, AgreeInv, StopMayFail = FALSE, GuardStop
    PROVE  AgreeInv'
<1>0. /\ RowsOK' /\ BoxOK /\ grd \in Guard /\ grd.pc = "stop" /\ grd.app = None
      /\ UNCHANGED <<row, thr, req, snap, proc, overlap>>
  BY DEF TInv, GuardOK, GuardStop, AgreeInv, Shapes, db, RowsOK, history
<1>1. PICK a \in Apps, c \in Cid :
         /\ <<a, c>> \in grd.todo /\ Kill(NameOf[a], c)
         /\ grd' = [pc |-> "write", todo |-> grd.todo \ {<<a, c>>}, app |-> a]
  <2>1. PICK x \in grd.todo : /\ Kill(NameOf[x[1]], x[2])
                             /\ grd' = [pc |-> "write", todo |-> grd.todo \ {x}, app |-> x[1]]
    BY DEF GuardStop
  <2>2. PICK a \in Apps, c \in Cid : x = <<a, c>>
    BY <1>0 DEF Guard
  <2>3. x[1] = a /\ x[2] = c
    BY <2>2
  <2> QED BY <2>1, <2>2, <2>3
<1> DEFINE m == NameOf[a]
<1>2. /\ podman'[m] = IF podman[m] = c THEN None ELSE podman[m]
      /\ \A n \in Names \ {m} : podman'[n] = podman[n]
      /\ m \in Names
  BY <1>0, <1>1, KillIs, NamesAssumption
<1>3. \A b \in Apps : Due(b)' <=> Due(b)
  BY <1>0 DEF Due
<1>4. ASSUME m \notin overlap PROVE Alone(m)' /\ Held(m)'
  <2>1. a \in InstalledAs(m) /\ InstalledAs(m)' = InstalledAs(m) /\ Cid' = Cid
    BY DEF InstalledAs, Cid
  <2>2. NameOK(m) /\ Listed(m)
    BY <1>1, <1>2, <2>1 DEF AgreeInv, Listed
  <2>3. Present(a) /\ Recorded(a) /\ c = row[a].cid /\ OnlyGuard(m)
    BY <1>1, <1>4, <2>1, <2>2 DEF NameOK, Held, Alone
  <2>4. OnlyGuard(m)' /\ Present(a)' /\ podman'[m] \notin Cids
    BY NoneAssumption, <1>0, <1>2, <2>1, <2>3 DEF OnlyGuard, AtWork, Queued, Serves, Present, Recorded
  <2>5. \A b \in InstalledAs(m), d \in Cid : <<b, d>> \in grd.todo => b = a /\ d = c
    BY <1>1, <1>4, <2>1, <2>2 DEF NameOK, Alone
  <2>6. ~Listed(m)'
    BY <1>1, <2>1, <2>5 DEF Listed
  <2>7. grd'.app = a /\ a \in InstalledAs(m)'
    BY <1>1, <2>1
  <2> QED BY <1>0, <1>2, <2>4, <2>6, <2>7, GuardAfter DEF GuardHolds
<1>5. ASSUME NEW n \in Names, n # m PROVE NameOK(n)'
  <2>1. a \notin InstalledAs(n) /\ None \notin InstalledAs(n)
    BY <1>5, NoneAssumption DEF InstalledAs
  <2>2. \A b \in InstalledAs(n), d \in Cid : <<b, d>> \in grd'.todo <=> <<b, d>> \in grd.todo
    BY <1>1, <2>1
  <2>3. {grd'.app, grd.app} \cap InstalledAs(n) = {}
    BY <1>0, <1>1, <2>1
  <2>4. LeavesAlone(n)
    BY <1>0, <1>2, <1>3, <1>5, <2>2, <2>3 DEF LeavesAlone, SameWork, InstalledAs
  <2> QED BY <1>0, <2>4, Frame DEF AgreeInv
<1>6. \A n \in Names : NameOK(n)'
  BY <1>0, <1>4, <1>5 DEF NameOK
<1>7. Unique' /\ Shapes'
  BY <1>0, <1>1 DEF AgreeInv, Unique, Shapes, Present
<1> QED BY <1>6, <1>7 DEF AgreeInv

LEMMA AgreeByWrite ==
    ASSUME TInv, AgreeInv, StopMayFail = FALSE, GuardWrite
    PROVE  AgreeInv'
<1>0. /\ RowsOK /\ grd \in Guard /\ grd.pc = "write" /\ grd.app \in Apps
      /\ UNCHANGED <<podman, thr, req, snap, proc, overlap>>
  BY DEF TInv, GuardOK, GuardWrite, box, history
<1> PICK a \in Apps : grd.app = a
  BY <1>0
<1> DEFINE m == NameOf[a]
           x == [status |-> "error", cid |-> None, err |-> "other"]
<1>1. x \in Rows /\ x.status = "error"
  BY DEF Rows, Statuses, Cid, Errors
<1>2. UpdateRow(a, x)
  BY DEF GuardWrite
<1>3. RowOnly(a) /\ (Present(a) => row'[a] = x)
  BY <1>0, <1>1, <1>2, UpdateRowOK
<1>4. SameRows
  BY <1>0, <1>1, <1>2, UpdateKeeps
<1>5. grd'.app = None /\ grd'.todo = grd.todo /\ grd'.pc # "write" /\ (grd'.pc = "idle" => grd' = IdleGuard)
  <2>1. grd' = IF grd.todo = {} THEN IdleGuard ELSE [grd EXCEPT !.pc = "stop", !.app = None]
    BY DEF GuardWrite
  <2>2. IdleGuard.pc = "idle" /\ IdleGuard.app = None /\ IdleGuard.todo = {}
    BY DEF IdleGuard
  <2>3. CASE grd.todo = {}
    BY <2>1, <2>2, <2>3
  <2>4. CASE grd.todo # {}
    BY <1>0, <2>1, <2>4 DEF Guard
  <2> QED BY <2>3, <2>4
<1> HIDE DEF x
<1>6. \A b \in Apps : Due(b)' <=> Due(b)
  BY <1>0 DEF Due
<1>7. ASSUME m \notin overlap PROVE Alone(m)' /\ Held(m)'
  <2>1. a \in InstalledAs(m) /\ InstalledAs(m)' = InstalledAs(m) /\ Cid' = Cid /\ m \in Names
        /\ None \notin InstalledAs(m)
    BY NamesAssumption, NoneAssumption DEF InstalledAs, Cid
  <2>2. NameOK(m) /\ Guarded(m)
    BY <2>1 DEF AgreeInv, Guarded
  <2>3. Present(a) /\ podman[m] \notin Cids /\ OnlyGuard(m) /\ ~Listed(m)
    BY <1>7, <2>1, <2>2 DEF NameOK, Held, Alone
  <2>4. Nobody(m)'
    BY <1>0, <1>5, <2>1, <2>3 DEF OnlyGuard, Nobody, AtWork, Queued, Serves, Guarded, Listed
  <2>5. Rests(a)'
    BY <1>0, <1>1, <1>3, <2>3 DEF Rests, Lives, Fresh
  <2>6. AtRest(m)'
    BY <1>0, <1>3, <2>3, <2>5, RestsAtRest DEF AgreeInv
  <2> QED BY <2>1, <2>4, <2>6, HeldAfter DEF HeldByOne
<1>8. ASSUME NEW n \in Names, n # m PROVE NameOK(n)'
  <2>1. a \notin InstalledAs(n) /\ None \notin InstalledAs(n)
    BY <1>8, NoneAssumption DEF InstalledAs
  <2>2. {grd'.app, grd.app} \cap InstalledAs(n) = {}
    BY <1>5, <2>1
  <2>3. \A b \in InstalledAs(n) : row'[b] = row[b]
    BY <1>3, <2>1 DEF RowOnly, InstalledAs
  <2>4. LeavesAlone(n)
    BY <1>0, <1>5, <1>6, <2>2, <2>3 DEF LeavesAlone, SameWork, InstalledAs
  <2> QED BY <1>0, <2>4, Frame DEF AgreeInv
<1>9. \A n \in Names : NameOK(n)'
  BY <1>0, <1>7, <1>8 DEF NameOK
<1>10. Unique'
  BY <1>4, FewerUnique DEF AgreeInv, SameRows, Fewer
<1>11. Shapes'
  BY <1>0, <1>4, <1>5 DEF AgreeInv, Shapes, SameRows
<1> QED BY <1>9, <1>10, <1>11 DEF AgreeInv

-----------------------------------------------------------------------------
(* The steps that start an actor on an app *)

\* Only an actor on a is started, and only its row changes.
StartMove(a) ==
    /\ RowOnly(a) /\ StartOn({a}) /\ UNCHANGED <<podman, proc, snap, grd>>
    /\ \/ thr' = thr /\ req' = req
       \/ thr' = thr /\ \E r \in Reqs : /\ req[r].pc = "idle" /\ req'[r].app = a
                                        /\ \A q \in Reqs \ {r} : req'[q] = req[q]
       \/ req' = req /\ \E t \in Threads : HandsOver(t, a)

\* What that leads to when nobody was at work on its name.
StartOutcome(a) ==
    AtRest(NameOf[a]) =>
      \/ thr' = thr /\ req' = req /\ AtRest(NameOf[a])'
      \/ thr' = thr /\ \E r \in Reqs : /\ req'[r].app = a /\ Present(a)' /\ Holds(r, a)'
                                       /\ \A q \in Reqs \ {r} : req'[q] = req[q]
      \/ req' = req /\ \E t \in Threads : HandsOver(t, a) /\ Present(a)' /\ Established(t, a)'

LEMMA RequestStarts ==
    ASSUME NEW r \in Reqs, NEW a \in Apps, Nobody(NameOf[a]), UNCHANGED <<thr, grd>>,
           \A q \in Reqs \ {r} : req'[q] = req[q], req'[r].app = a, Present(a)', Holds(r, a)'
    PROVE  Alone(NameOf[a])' /\ Held(NameOf[a])'
<1> DEFINE n == NameOf[a]
<1>1. n \in Names /\ a \in InstalledAs(n) /\ InstalledAs(n)' = InstalledAs(n)
  BY NamesAssumption DEF InstalledAs
<1>2. \A q \in Reqs \ {r} : ~Serves(q, n)'
  BY <1>1 DEF Nobody, Serves
<1>3. (\A t \in Threads : ~AtWork(t, n)' /\ ~Queued(t, n)') /\ ~Guarded(n)' /\ ~Listed(n)'
  BY <1>1 DEF Nobody, AtWork, Queued, Guarded, Listed, Cid
<1>4. OnlyRequest(r, n)' /\ a \in InstalledAs(n)'
  BY <1>1, <1>2, <1>3 DEF OnlyRequest
<1> QED BY <1>1, <1>4, HeldAfter DEF HeldByOne

LEMMA StillNobody ==
    ASSUME NEW n \in Names, Nobody(n), UNCHANGED <<thr, req, grd>>, AtRest(n)'
    PROVE  Alone(n)' /\ Held(n)'
<1>1. Nobody(n)'
  BY DEF Nobody, AtWork, Queued, Serves, Guarded, Listed, InstalledAs, Cid
<1> QED BY <1>1, HeldAfter DEF HeldByOne

\* An idle request is at work on nothing.
LEMMA IdleRequest ==
    ASSUME NEW r \in Reqs, req[r].pc = "idle", NEW n \in Names, NameOK(n), n \notin overlap
    PROVE  req[r].app \notin InstalledAs(n)
<1> SUFFICES ASSUME NEW a \in InstalledAs(n), req[r].app = a PROVE FALSE
  OBVIOUS
<1>1. Holds(r, a)
  BY DEF NameOK, Held
<1> QED BY <1>1 DEF Holds

LEMMA NamesByStart ==
    ASSUME TInv, \A n \in Names : NameOK(n), NEW a \in Apps, StartMove(a), StartOutcome(a)
    PROVE  \A n \in Names : NameOK(n)'
<1>0. /\ ThreadsOK /\ NameOf[a] \in Names /\ overlap \subseteq overlap' /\ UNCHANGED <<podman, proc, snap, grd>>
      /\ NameOf[a] \notin overlap' => NameOf[a] \notin overlap /\ Nobody(NameOf[a])
  BY NamesAssumption, FreshStart DEF StartMove, TInv
<1>1. ASSUME NameOf[a] \notin overlap' PROVE NameOK(NameOf[a])'
  <2>1. Nobody(NameOf[a]) /\ NameOf[a] \notin overlap /\ AtRest(NameOf[a])
    BY <1>0, <1>1 DEF NameOK, Held
  <2>2. CASE thr' = thr /\ req' = req /\ AtRest(NameOf[a])'
    BY <1>0, <2>1, <2>2, StillNobody DEF NameOK
  <2>3. ASSUME thr' = thr, NEW r \in Reqs, req'[r].app = a, Present(a)', Holds(r, a)',
               \A q \in Reqs \ {r} : req'[q] = req[q]
        PROVE  NameOK(NameOf[a])'
    BY <1>0, <2>1, <2>3, RequestStarts DEF NameOK
  <2>4. ASSUME req' = req, NEW t \in Threads, HandsOver(t, a), Present(a)', Established(t, a)'
        PROVE  NameOK(NameOf[a])'
    <3>1. \A r \in Reqs : ~Serves(r, NameOf[a])'
      BY <2>1, <2>4 DEF Nobody, Serves, InstalledAs
    <3> QED BY <1>0, <2>1, <2>4, <3>1, ThreadTakesOver DEF Nobody
  <2> QED BY <2>1, <2>2, <2>3, <2>4 DEF StartOutcome
<1>2. ASSUME NEW n \in Names, n # NameOf[a] PROVE NameOK(n)'
  <2> SUFFICES ASSUME n \notin overlap PROVE LeavesAlone(n)
    BY <1>0, Frame
  <2>1. a \notin InstalledAs(n) /\ None \notin InstalledAs(n)
    BY <1>2, NoneAssumption DEF InstalledAs
  <2>2. \A q \in Reqs : req'[q] = req[q] \/ {req'[q].app, req[q].app} \cap InstalledAs(n) = {}
    <3>1. ASSUME NEW r \in Reqs, req[r].pc = "idle", req'[r].app = a, \A q \in Reqs \ {r} : req'[q] = req[q]
          PROVE  \A q \in Reqs : req'[q] = req[q] \/ {req'[q].app, req[q].app} \cap InstalledAs(n) = {}
      <4>1. req[r].app \notin InstalledAs(n)
        BY <3>1, IdleRequest
      <4> QED BY <2>1, <3>1, <4>1
    <3> QED BY <3>1 DEF StartMove
  <2>3. \A s \in Threads : /\ thr'[s] = thr[s] \/ {thr'[s].app, thr[s].app} \cap InstalledAs(n) = {}
                           /\ thr'[s].todo = thr[s].todo
    <3>1. ASSUME NEW t \in Threads, HandsOver(t, a)
          PROVE  \A s \in Threads : /\ thr'[s] = thr[s] \/ {thr'[s].app, thr[s].app} \cap InstalledAs(n) = {}
                                    /\ thr'[s].todo = thr[s].todo
      <4>1. thr[t].app = None /\ thr[t].todo = {}
        BY <1>0, <3>1, IdleIsFree DEF HandsOver
      <4>2. /\ {thr'[t].app, thr[t].app} \cap InstalledAs(n) = {}
            /\ thr'[t].todo = thr[t].todo
        BY <2>1, <3>1, <4>1 DEF HandsOver
      <4>3. \A s \in Threads \ {t} : thr'[s] = thr[s]
        BY <3>1 DEF HandsOver
      <4> QED BY <4>2, <4>3
    <3> QED BY <3>1 DEF StartMove
  <2>4. \A b \in InstalledAs(n) : row'[b] = row[b] /\ (Due(b)' => Due(b))
    BY <1>0, <2>1 DEF StartMove, RowOnly, InstalledAs, Due
  <2> QED BY <1>0, <2>2, <2>3, <2>4 DEF LeavesAlone, SameWork
<1>3. NameOK(NameOf[a])'
  BY <1>1 DEF NameOK
<1> QED BY <1>2, <1>3

LEMMA AgreeByAdd ==
    ASSUME TInv, AgreeInv, NEW a \in Apps, NEW t \in Threads, AddApp(a, t)
    PROVE  AgreeInv'
<1> DEFINE x == [status |-> "building", cid |-> None, err |-> "null"]
<1>0. /\ ThreadsOK /\ RowsOK /\ UNCHANGED <<podman, proc, snap, grd, req>> /\ StartOn({a})
      /\ proc \in {"setup", "up"}
  BY DEF TInv, AddApp, Serving, box
<1>1. x \in Rows /\ x.status = "building"
  BY DEF Rows, Statuses, Cid, Errors
<1>2. row' = [row EXCEPT ![a] = x]
  BY DEF AddApp
<1> HIDE DEF x
<1>3. RowOnly(a) /\ row'[a] = x
  BY <1>0, <1>1, <1>2 DEF RowOnly, RowsOK
<1>4. HandsOver(t, a) /\ thr'[t].pc = "check" /\ thr'[t].kind = "deploy"
  BY <1>0, SpawnIs DEF AddApp
<1>5. \A b \in Apps : NameOf[b] = NameOf[a] => ~Present(b)
  BY DEF AddApp
<1>6. StartMove(a)
  BY <1>0, <1>3, <1>4 DEF StartMove
<1>7. StartOutcome(a)
  <2>1. AtRest(NameOf[a]) => podman'[NameOf[a]] \notin Cids
    BY <1>0, <1>5 DEF AtRest, InstalledAs
  <2>2. Present(a)'
    BY <1>1, <1>3 DEF Present
  <2>3. AtRest(NameOf[a]) => Established(t, a)'
    <3>1. row'[a].status = "building" /\ row'[a].cid = None
      BY <1>3 DEF x
    <3> QED BY <1>4, <2>1, <3>1 DEF Established, Recorded, Fresh
  <2> QED BY <1>0, <1>4, <2>2, <2>3 DEF StartOutcome
<1>8. \A n \in Names : NameOK(n)'
  BY <1>6, <1>7, NamesByStart DEF AgreeInv
<1>9. Unique'
  <2>1. \A b \in Apps \ {a} : Present(b)' <=> Present(b)
    BY <1>3 DEF RowOnly, Present
  <2> QED BY <1>5, <2>1 DEF AgreeInv, Unique
<1>10. Shapes'
  <2>1. \A s \in Threads : thr'[s].kind = "remove" => thr[s].kind = "remove"
    BY <1>4 DEF HandsOver
  <2> QED BY <1>0, <2>1 DEF AgreeInv, Shapes
<1> QED BY <1>8, <1>9, <1>10 DEF AgreeInv

LEMMA AgreeByStopApp ==
    ASSUME TInv, AgreeInv, NEW r \in Reqs, NEW a \in Apps, StopApp(r, a)
    PROVE  AgreeInv'
<1>0. /\ RowsOK /\ req \in [Reqs -> Request] /\ UNCHANGED <<row, podman, proc, snap, grd, thr>>
      /\ StartOn({a}) /\ proc = "up" /\ Present(a) /\ req[r].pc = "idle"
  BY DEF TInv, ReqsOK, StopApp, Serving, db, box
<1>1. /\ req'[r].app = a /\ req'[r].pc = "stopcid" /\ req'[r].cid = row[a].cid
      /\ \A q \in Reqs \ {r} : req'[q] = req[q]
  BY <1>0 DEF StopApp
<1>2. StartMove(a)
  BY <1>0, <1>1 DEF StartMove, RowOnly, RowsOK
<1>3. StartOutcome(a)
  <2>1. AtRest(NameOf[a]) => Recorded(a)
    BY <1>0, RestRecorded DEF AgreeInv
  <2>2. Recorded(a) => Holds(r, a)'
    BY <1>0, <1>1 DEF Holds, Recorded, Fresh
  <2>3. Present(a)'
    BY <1>0 DEF Present
  <2> QED BY <1>0, <1>1, <2>1, <2>2, <2>3 DEF StartOutcome
<1>4. \A n \in Names : NameOK(n)'
  BY <1>2, <1>3, NamesByStart DEF AgreeInv
<1>5. Unique' /\ Shapes'
  BY <1>0 DEF AgreeInv, Unique, Shapes, Present
<1> QED BY <1>4, <1>5 DEF AgreeInv

LEMMA AgreeByReload ==
    ASSUME TInv, AgreeInv, NEW r \in Reqs, NEW a \in Apps, NEW update \in BOOLEAN, NEW oauth \in BOOLEAN,
           ReloadApp(r, a, update, oauth)
    PROVE  AgreeInv'
<1>0. /\ RowsOK /\ req \in [Reqs -> Request] /\ UNCHANGED <<podman, proc, snap, grd, thr>>
      /\ StartOn({a}) /\ proc = "up" /\ Present(a) /\ req[r].pc = "idle"
  BY DEF TInv, ReqsOK, ReloadApp, Serving, box
<1>1. AtRest(NameOf[a]) => Recorded(a) /\ Lives(a)
  <2>1. Due(a)
    BY <1>0 DEF Due
  <2>2. AtRest(NameOf[a]) => Recorded(a)
    BY <1>0, RestRecorded DEF AgreeInv
  <2> QED BY <2>1, <2>2 DEF AtRest, InstalledAs
<1>2. CASE /\ req' = [req EXCEPT ![r] = [pc |-> IF update THEN "pull" ELSE "claim",
                                         app |-> a, cid |-> row[a].cid, oauth |-> oauth]]
           /\ row' = row
  <2>1. /\ req'[r].app = a /\ req'[r].pc \in {"pull", "claim"} /\ req'[r].cid = row[a].cid
        /\ \A q \in Reqs \ {r} : req'[q] = req[q]
    BY <1>0, <1>2
  <2>2. StartMove(a) /\ SameRows
    BY <1>0, <1>2, <2>1 DEF StartMove, RowOnly, RowsOK, SameRows, Present
  <2>3. StartOutcome(a)
    <3>1. Recorded(a) /\ Lives(a) => Holds(r, a)'
      BY <1>0, <1>2, <2>1 DEF Holds, Recorded, Fresh, Lives
    <3>2. Present(a)'
      BY <1>0, <1>2 DEF Present
    <3> QED BY <1>0, <1>1, <2>1, <3>1, <3>2 DEF StartOutcome
  <2> QED BY <1>0, <2>2, <2>3, NamesByStart, FewerUnique DEF AgreeInv, Shapes, SameRows, Fewer
<1>3. CASE UpdateRow(a, [row[a] EXCEPT !.status = "error", !.err = "other"]) /\ req' = req
  <2>1. RowOnly(a) /\ SameRows
    BY <1>0, <1>3, SettleRow, StatusKeeps, "error" \in Statuses, "other" \in Errors DEF Statuses, Errors
  <2>2. row'[a].status = "error" /\ row'[a].cid = row[a].cid
    BY <1>0, <1>3, ErrorIs
  <2>3. StartMove(a)
    BY <1>0, <1>3, <2>1 DEF StartMove
  <2>4. AtRest(NameOf[a]) => AtRest(NameOf[a])'
    <3>1. Recorded(a) => Rests(a)'
      BY <1>0, <2>2 DEF Recorded, Rests, Lives, Fresh, Present
    <3> QED BY <1>0, <1>1, <2>1, <3>1, RestsAtRest DEF AgreeInv
  <2>5. StartOutcome(a)
    BY <1>0, <1>3, <2>4 DEF StartOutcome
  <2> QED BY <1>0, <2>1, <2>3, <2>5, NamesByStart, FewerUnique DEF AgreeInv, Shapes, SameRows, Fewer
<1> QED BY <1>2, <1>3 DEF ReloadApp

LEMMA AgreeByRemove ==
    ASSUME TInv, AgreeInv, NEW a \in Apps, NEW t \in Threads, RemoveApp(a, t)
    PROVE  AgreeInv'
<1>0. /\ ThreadsOK /\ RowsOK /\ UNCHANGED <<podman, proc, snap, grd, req>>
      /\ StartOn({a}) /\ proc = "up" /\ Present(a)
  BY DEF TInv, RemoveApp, Serving, box
<1>1. AtRest(NameOf[a]) => Recorded(a)
  BY <1>0, RestRecorded DEF AgreeInv
<1>2. RowOnly(a) /\ row'[a].status \in {"removing", "error"} /\ row'[a].cid = row[a].cid
  <2>1. ASSUME NEW s \in {"removing", "error"}, NEW e \in Errors,
               row' = [row EXCEPT ![a].status = s, ![a].err = e]
        PROVE  RowOnly(a) /\ row'[a].status \in {"removing", "error"} /\ row'[a].cid = row[a].cid
    BY <1>0, <2>1 DEF RowOnly, RowsOK, Rows, Statuses
  <2> QED BY <2>1, "null" \in Errors, "other" \in Errors DEF RemoveApp, Errors
<1>3. SameRows
  BY <1>0, <1>2 DEF RowOnly, SameRows, Present
<1>4. Recorded(a) => Recorded(a)'
  BY <1>0, <1>2 DEF Recorded, Fresh
<1>5. CASE Spawn(t, "remove", a, "rmread")
  <2>1. HandsOver(t, a) /\ thr'[t].pc = "rmread"
    BY <1>0, <1>5, SpawnIs
  <2>2. StartMove(a)
    BY <1>0, <1>2, <2>1 DEF StartMove
  <2>3. StartOutcome(a)
    <3>1. Recorded(a) => Present(a)' /\ Established(t, a)'
      BY <1>2, <1>4, <2>1 DEF Established, Present
    <3> QED BY <1>0, <1>1, <2>1, <3>1 DEF StartOutcome
  <2> QED BY <1>0, <1>3, <2>2, <2>3, NamesByStart, FewerUnique DEF AgreeInv, Shapes, SameRows, Fewer
<1>6. CASE thr' = thr
  <2>1. StartMove(a)
    BY <1>0, <1>2, <1>6 DEF StartMove
  <2>2. AtRest(NameOf[a]) => AtRest(NameOf[a])'
    <3>1. Recorded(a) => Rests(a)'
      BY <1>0, <1>2 DEF Recorded, Rests, Lives, Fresh, Present
    <3> QED BY <1>0, <1>1, <1>2, <3>1, RestsAtRest DEF AgreeInv
  <2>3. StartOutcome(a)
    BY <1>0, <1>6, <2>2 DEF StartOutcome
  <2> QED BY <1>0, <1>3, <2>1, <2>3, NamesByStart, FewerUnique DEF AgreeInv, Shapes, SameRows, Fewer
<1> QED BY <1>5, <1>6 DEF RemoveApp

LEMMA AgreeByPromote ==
    ASSUME TInv, AgreeInv, PromoteDomain
    PROVE  AgreeInv'
<1> DEFINE marked == {a \in Apps : \/ row[a].status = "running"
                                   \/ row[a].status = "error" /\ row[a].cid # None}
<1>0. /\ RowsOK /\ UNCHANGED <<podman, proc, snap, grd, req, thr>> /\ StartOn(marked)
  BY DEF TInv, PromoteDomain, box
<1>1. /\ \A a \in Apps \ marked : row'[a] = row[a]
      /\ \A a \in marked : row'[a].status = "starting" /\ row'[a].cid = row[a].cid
  <2>1. \A a \in Apps : row'[a] = IF a \in marked THEN [row[a] EXCEPT !.status = "starting", !.err = "marker"]
                                                  ELSE row[a]
    BY DEF PromoteDomain
  <2> QED BY <1>0, <2>1 DEF RowsOK, Rows
<1>2. overlap \subseteq overlap' /\ \A a \in marked : Present(a)
  BY <1>0, FreshStart DEF Present
<1>3. SameRows
  BY <1>1, <1>2 DEF SameRows, Present
<1>4. ASSUME NEW n \in Names PROVE NameOK(n)'
  <2>1. InstalledAs(n)' = InstalledAs(n)
    BY DEF InstalledAs
  <2>2. ASSUME NEW a \in marked, NameOf[a] = n PROVE NameOK(n)'
    <3> SUFFICES ASSUME n \notin overlap' PROVE Alone(n)' /\ Held(n)'
      BY DEF NameOK
    <3>1. n \notin overlap /\ Nobody(n)
      BY <1>0, <2>2, FreshStart
    <3>2. AtRest(n) /\ Present(a) /\ a \in InstalledAs(n) /\ a \in Apps
      BY <1>2, <2>2, <3>1 DEF AgreeInv, NameOK, Held, InstalledAs
    <3>3. Recorded(a)
      BY <2>2, <3>2, RestRecorded DEF AgreeInv
    <3>4. \A b \in InstalledAs(n) : row'[b].status # "running"
      BY <1>1 DEF InstalledAs
    <3>5. podman'[n] \in Cids => Present(a)' /\ row'[a].cid = podman'[n]
      BY <1>0, <1>1, <2>2, <3>3 DEF Recorded, Present
    <3>6. \A b \in InstalledAs(n) : Fresh(b)'
      BY <1>1, <3>2 DEF AtRest, Fresh, InstalledAs
    <3>7. AtRest(n)'
      BY <2>1, <3>2, <3>4, <3>5, <3>6 DEF AtRest, Lives
    <3> QED BY <1>0, <3>1, <3>7, StillNobody
  <2>3. CASE \A a \in marked : NameOf[a] # n
    <3>1. \A a \in InstalledAs(n) : row'[a] = row[a] /\ (Due(a)' => Due(a))
      BY <1>0, <1>1, <2>3 DEF InstalledAs, Due
    <3>2. LeavesAlone(n)
      BY <1>0, <3>1 DEF LeavesAlone, SameWork
    <3> QED BY <1>2, <3>2, Frame DEF AgreeInv
  <2> QED BY <2>2, <2>3
<1>5. Unique'
  BY <1>3, FewerUnique DEF AgreeInv, SameRows, Fewer
<1>6. Shapes'
  BY <1>0, <1>2, <1>3 DEF AgreeInv, Shapes, SameRows
<1> QED BY <1>4, <1>5, <1>6 DEF AgreeInv

-----------------------------------------------------------------------------
(* The end of the router, its boot and check_app_status *)

LEMMA AgreeByDeath ==
    ASSUME TInv, AgreeInv, Exit \/ Crash
    PROVE  AgreeInv'
<1>0. /\ Die /\ row' = row /\ BoxOK
      /\ podman' = podman \/ podman' = [n \in Names |-> None]
  BY DEF TInv, Exit, Crash, Die
<1>1. /\ proc' = "down" /\ thr' = [t \in Threads |-> IdleThread] /\ req' = [r \in Reqs |-> IdleReq]
      /\ grd' = IdleGuard /\ overlap' = overlap \cup {n \in Names : InFlight(n)}
  BY <1>0 DEF Die
<1>2. /\ \A t \in Threads : thr'[t].app = None /\ thr'[t].todo = {} /\ thr'[t].kind = "none"
      /\ \A r \in Reqs : req'[r].app = None
      /\ grd'.app = None /\ grd'.todo = {} /\ grd'.pc = "idle"
  BY <1>1 DEF IdleThread, IdleReq, IdleGuard
<1>3. ASSUME NEW n \in Names, n \notin overlap' PROVE Alone(n)' /\ Held(n)'
  <2>1. None \notin InstalledAs(n) /\ InstalledAs(n)' = InstalledAs(n)
    BY NoneAssumption DEF InstalledAs
  <2>2. n \notin overlap /\ Nobody(n)
    BY <1>1, <1>3, InFlightIs
  <2>3. AtRest(n)
    BY <2>2 DEF AgreeInv, NameOK, Held
  <2>4. podman'[n] \in Cids => \E a \in InstalledAs(n)' : Present(a)' /\ row'[a].cid = podman'[n]
    BY <1>0, <2>1, <2>3, NoneAssumption DEF AtRest, Present
  <2>5. \A a \in InstalledAs(n)' : ~Due(a)' /\ Fresh(a)'
    BY <1>0, <1>1, <2>1, <2>3 DEF Due, AtRest, Fresh
  <2>6. Nobody(n)'
    BY <1>2, <2>1 DEF Nobody, AtWork, Queued, Serves, Guarded, Listed
  <2>7. AtRest(n)'
    BY <2>4, <2>5 DEF AtRest
  <2> QED BY <2>6, <2>7, HeldAfter DEF HeldByOne
<1>4. \A n \in Names : NameOK(n)'
  BY <1>3 DEF NameOK
<1>5. Unique' /\ Shapes'
  BY <1>0, <1>1, <1>2, NoneAssumption DEF AgreeInv, Unique, Shapes, Present
<1> QED BY <1>4, <1>5 DEF AgreeInv

\* The scan selects the rows as they are: a running one is not due yet.
LEMMA AgreeByBoot ==
    ASSUME TInv, AgreeInv, Boot \/ ScanSelect
    PROVE  AgreeInv'
<1>0. UNCHANGED <<row, podman, thr, req, grd, overlap>>
  BY DEF Boot, ScanSelect, db, box, history
<1>1. proc # "up" /\ \/ proc' = "init"
                     \/ proc' = "scan" /\ snap' = row
  BY DEF Boot, ScanSelect
<1>2. \A a \in Apps : Due(a)' => row[a].status # "running"
  BY <1>1 DEF Due
<1>3. ASSUME NEW n \in Names PROVE NameOK(n)'
  <2>1. LeavesAlone(n)
    BY <1>0, <1>2 DEF LeavesAlone, SameWork, InstalledAs
  <2> QED BY <1>0, <2>1, Frame DEF AgreeInv
<1>4. ASSUME NEW t \in Threads, NEW a \in Apps, thr[t].app = a, NameOf[a] \notin overlap
      PROVE  row[a].status # "running" /\ (row[a].status = "building" => row[a].cid = None)
  <2>1. Established(t, a)
    BY <1>4, NamesAssumption DEF AgreeInv, NameOK, Held, InstalledAs
  <2> QED BY <2>1 DEF Established, Recorded, Fresh
<1>5. Unique' /\ Shapes'
  BY <1>0, <1>1, <1>4 DEF AgreeInv, Unique, Shapes, Present
<1> QED BY <1>3, <1>5 DEF AgreeInv

\* A recovery list alone has the name: app a is in it, once.
InList(n, t, a, b) ==
    /\ a \in InstalledAs(n) /\ OnlyThread(t, n) /\ ~AtWork(t, n) /\ Present(a) /\ Recorded(a)
    /\ row[a].status # "running" /\ <<a, b>> \in thr[t].todo
    /\ \A c \in InstalledAs(n), x \in BOOLEAN : <<c, x>> \in thr[t].todo => c = a /\ x = b

QueueHolds ==
    \A n \in Names, t \in Threads, a \in Apps, b \in BOOLEAN :
        InList(n, t, a, b) => Alone(n) /\ Held(n)

LEMMA HeldByQueue ==
    ASSUME NEW n \in Names, NEW t \in Threads, NEW a \in Apps, NEW b \in BOOLEAN, InList(n, t, a, b)
    PROVE  Alone(n) /\ Held(n)
<1>0. /\ a \in InstalledAs(n) /\ OnlyThread(t, n) /\ ~AtWork(t, n) /\ Present(a) /\ Recorded(a)
      /\ row[a].status # "running" /\ <<a, b>> \in thr[t].todo
      /\ \A c \in InstalledAs(n), x \in BOOLEAN : <<c, x>> \in thr[t].todo => c = a /\ x = b
  BY DEF InList
<1>1. Queued(t, n)
  BY <1>0 DEF Queued
<1>2. \A s \in Threads \ {t} : ~AtWork(s, n) /\ ~Queued(s, n)
  BY <1>0 DEF OnlyThread
<1>3. \A s \in Threads \ {t}, c \in InstalledAs(n), x \in BOOLEAN : <<c, x>> \notin thr[s].todo
  BY <1>2 DEF Queued
<1>4. \A c \in InstalledAs(n), d \in Cid : <<c, d>> \notin grd.todo
  BY <1>0 DEF OnlyThread, Listed
<1>5. (\A r \in Reqs : ~Serves(r, n)) /\ ~Guarded(n) /\ ~Listed(n) /\ ~Nobody(n)
  BY <1>0, <1>1 DEF OnlyThread, Nobody
<1>6. \A s \in Threads, c, d \in InstalledAs(n), x, y \in BOOLEAN :
         <<c, x>> \in thr[s].todo /\ <<d, y>> \in thr[s].todo => c = d /\ x = y
  BY <1>0, <1>3
<1>7. Alone(n)
  BY <1>0, <1>2, <1>4, <1>5, <1>6 DEF Alone
<1>8. \A s \in Threads, c \in InstalledAs(n) :
         /\ thr[s].app # c
         /\ \A x \in BOOLEAN : <<c, x>> \in thr[s].todo => Present(c) /\ Recorded(c) /\ row[c].status # "running"
  BY <1>0, <1>2, <1>3 DEF AtWork
<1>9. Held(n)
  BY <1>4, <1>5, <1>8 DEF Held, Serves, Guarded
<1> QED BY <1>7, <1>9

LEMMA QueueHoldsIt == QueueHolds
BY HeldByQueue DEF QueueHolds

LEMMA QueueAfter == QueueHolds'
BY QueueHoldsIt, PTL

\* The scan keeps the container ids and the rows that are there.
LEMMA CheckedKeeps ==
    ASSUME TInv, NEW lost \in SUBSET Apps, NEW a \in Apps, snap[a].status # "none" => Present(a),
           row'[a] = CheckedRow(a, lost)
    PROVE  /\ row'[a].cid = row[a].cid /\ (Present(a)' <=> Present(a))
           /\ row'[a].status = "building" => row[a].status = "building"
<1>0. row[a] \in Rows
  BY DEF TInv, RowsOK
<1>1. ScannedRow(a, lost).cid = row[a].cid
  BY <1>0 DEF ScannedRow, Rows
<1>2. \/ ScannedRow(a, lost) = row[a]
      \/ ScannedRow(a, lost).status \in {"running", "error", "starting"} /\ Present(a)
  BY <1>0 DEF ScannedRow, KeepsRunning, Unrecoverable, Recovers, Scanned, Rows
<1>3. CASE Corrupt(a, lost)
  <2>1. Present(a)
    BY <1>2, <1>3 DEF Corrupt, Present
  <2>2. row'[a] = [row[a] EXCEPT !.status = "starting", !.err = "null"]
    BY <1>3 DEF CheckedRow
  <2> QED BY <1>0, <2>1, <2>2 DEF Rows, Present
<1>4. CASE ~Corrupt(a, lost)
  BY <1>1, <1>2, <1>4 DEF CheckedRow, Present
<1> QED BY <1>3, <1>4

\* The scan writes that an app is starting before it puts it on a list.
LEMMA QueuedStarts ==
    ASSUME TInv, NEW lost \in SUBSET Apps, NEW a \in Apps, NEW b \in BOOLEAN,
           <<a, b>> \in Promoted(lost) \cup ToRecover(lost)
    PROVE  CheckedRow(a, lost).status = "starting"
<1>0. row[a] \in Rows
  BY DEF TInv, RowsOK
<1>1. Recovers(a, lost) \/ Corrupt(a, lost)
  BY DEF Promoted, ToRecover
<1>2. CASE Corrupt(a, lost)
  BY <1>0, <1>2 DEF CheckedRow, Rows
<1>3. CASE Recovers(a, lost) /\ ~Corrupt(a, lost)
  <2>1. ~KeepsRunning(a) /\ ~Unrecoverable(a, lost)
    BY <1>3 DEF Recovers
  <2> QED BY <1>0, <1>3, <2>1 DEF CheckedRow, ScannedRow, Rows
<1> QED BY <1>1, <1>2, <1>3

\* An app is in one of the two lists, and there once; its row is there.
LEMMA QueuedOnce ==
    ASSUME TInv, NEW lost \in SUBSET Apps, NEW a \in Apps, snap[a].status # "none" => Present(a)
    PROVE  /\ \A b, c \in BOOLEAN :
                /\ <<a, b>> \in Promoted(lost) => <<a, c>> \notin ToRecover(lost)
                /\ <<a, b>> \in Promoted(lost) /\ <<a, c>> \in Promoted(lost) => b = c
                /\ <<a, b>> \in ToRecover(lost) /\ <<a, c>> \in ToRecover(lost) => b = c
           /\ \A b \in BOOLEAN : <<a, b>> \in Promoted(lost) \cup ToRecover(lost) => Present(a)
<1>0. row[a] \in Rows
  BY DEF TInv, RowsOK
<1>1. Corrupt(a, lost) => ~Recovers(a, lost) /\ Present(a)
  BY <1>0 DEF Corrupt, ScannedRow, Recovers, KeepsRunning, Unrecoverable, Scanned, Present, Rows
<1>2. Recovers(a, lost) => Present(a)
  BY DEF Recovers, Scanned
<1>3. \A b \in BOOLEAN : <<a, b>> \in Promoted(lost) => Recovers(a, lost) /\ PromotionRestart(a) /\ b = NeedsBuild(a)
  BY DEF Promoted
<1>4. \A b \in BOOLEAN : <<a, b>> \in ToRecover(lost) =>
        \/ Recovers(a, lost) /\ ~PromotionRestart(a) /\ b = NeedsBuild(a)
        \/ Corrupt(a, lost) /\ b = TRUE
  BY DEF ToRecover
<1> QED BY <1>1, <1>2, <1>3, <1>4

\* A row that says running after the scan: its container was found alive, or
\* the row was no longer the one selected.
LEMMA CheckedRunning ==
    ASSUME TInv, NEW lost \in SUBSET Apps, NEW a \in Apps, CheckedRow(a, lost).status = "running"
    PROVE  Alive(a) \/ (row[a].status = "running" /\ snap[a].status # "running")
<1>0. row[a] \in Rows
  BY DEF TInv, RowsOK
<1>1. ~Corrupt(a, lost) /\ ScannedRow(a, lost).status = "running"
  BY <1>0 DEF CheckedRow, Rows
<1>2. CASE KeepsRunning(a)
  BY <1>2 DEF KeepsRunning
<1>3. CASE ~KeepsRunning(a)
  <2>1. ~Unrecoverable(a, lost) /\ ~Recovers(a, lost)
    BY <1>0, <1>1, <1>3 DEF ScannedRow, Rows, Unrecoverable, Recovers
  <2>2. ~Scanned(a)
    BY <1>3, <2>1 DEF Recovers
  <2>3. row[a].status = "running"
    BY <1>1, <1>3, <2>1 DEF ScannedRow
  <2> QED BY <2>2, <2>3 DEF Scanned
<1> QED BY <1>2, <1>3

\* The lists go to two idle threads; nobody else is disturbed.
LEMMA CheckedThreads ==
    ASSUME TInv, NEW lost \in SUBSET Apps, NEW ts \in Threads, NEW tb \in Threads,
           CheckAppStatus(lost, ts, tb)
    PROVE  /\ \A s \in Threads : thr'[s] = thr[s] \/ (thr[s].pc = "idle" /\ thr'[s].app = None
                                                      /\ thr'[s].kind \in {"sync", "recover"})
           /\ \A s \in Threads \ {ts, tb} : thr'[s] = thr[s]
           /\ \A x : (x \in thr'[ts].todo <=> x \in Promoted(lost)) /\ (x \in thr'[tb].todo <=> x \in ToRecover(lost))
<1> DEFINE P == Promoted(lost)
           Q == ToRecover(lost)
<1>0. thr[ts].todo = {} /\ thr[tb].todo = {} /\ thr[ts].pc = "idle" /\ thr[tb].pc = "idle" /\ ts # tb
  <2>1. IdleThread.todo = {}
    BY DEF IdleThread
  <2> QED BY <2>1 DEF CheckAppStatus, TInv, ThreadsOK, ThreadShape
<1>1. \A s \in Threads : thr'[s] = IF s = ts /\ P # {} THEN RecoveryThread("sync", P)
                                   ELSE IF s = tb /\ Q # {} THEN RecoveryThread("recover", Q)
                                   ELSE thr[s]
  BY DEF CheckAppStatus
<1>2. P \in SUBSET (Apps \X BOOLEAN) /\ Q \in SUBSET (Apps \X BOOLEAN)
  BY QueuesOK
<1> HIDE DEF P, Q
<1>3. /\ RecoveryThread("sync", P).app = None /\ RecoveryThread("recover", Q).app = None
      /\ RecoveryThread("sync", P).todo = P /\ RecoveryThread("recover", Q).todo = Q
      /\ RecoveryThread("sync", P).kind = "sync" /\ RecoveryThread("recover", Q).kind = "recover"
  BY <1>2, RecoveryThreadOK DEF RecoveryThread, IdleThread
<1>4. thr'[ts].todo = P /\ thr'[tb].todo = Q
  BY <1>0, <1>1, <1>3
<1>5. \A s \in Threads : thr'[s] = thr[s] \/ (thr[s].pc = "idle" /\ thr'[s].app = None
                                             /\ thr'[s].kind \in {"sync", "recover"})
  BY <1>0, <1>1, <1>3
<1>6. \A s \in Threads \ {ts, tb} : thr'[s] = thr[s]
  BY <1>1
<1> QED BY <1>4, <1>5, <1>6 DEF P, Q

LEMMA AgreeByCheck ==
    ASSUME TInv, Phases, AgreeInv, NEW lost \in SUBSET Apps, NEW ts \in Threads, NEW tb \in Threads,
           CheckAppStatus(lost, ts, tb)
    PROVE  AgreeInv'
<1> DEFINE P == Promoted(lost)
           Q == ToRecover(lost)
           S == {x[1] : x \in P \cup Q}
<1>0. /\ ThreadsOK /\ RowsOK /\ proc = "scan" /\ proc' \in {"sync", "up"} /\ ts # tb
      /\ UNCHANGED <<podman, req, grd>> /\ StartOn(S)
  BY DEF TInv, CheckAppStatus, box
<1>1. \A a \in Apps : snap[a].status # "none" => Present(a)
  BY <1>0 DEF AgreeInv, Shapes
<1>2. \A a \in Apps : /\ row'[a] = CheckedRow(a, lost) /\ row'[a].cid = row[a].cid
                      /\ Present(a)' <=> Present(a)
                      /\ row'[a].status = "building" => row[a].status = "building"
  <2>1. \A a \in Apps : row'[a] = CheckedRow(a, lost)
    BY DEF CheckAppStatus
  <2> QED BY <1>1, <2>1, CheckedKeeps
<1>3. \A s \in Threads : thr[s].todo = {}
  BY <1>0 DEF Phases, ThreadsOK, ThreadShape
<1> HIDE DEF P, Q, S
<1>4. /\ \A s \in Threads \ {ts, tb} : thr'[s].todo = {}
      /\ \A x : (x \in thr'[ts].todo <=> x \in P) /\ (x \in thr'[tb].todo <=> x \in Q)
      /\ \A s \in Threads : thr'[s] = thr[s] \/ (thr[s].pc = "idle" /\ thr'[s].app = None)
  BY <1>3, CheckedThreads DEF P, Q
<1>5. /\ P \in SUBSET (Apps \X BOOLEAN) /\ Q \in SUBSET (Apps \X BOOLEAN)
      /\ S \in SUBSET Apps
  BY QueuesOK DEF P, Q, S
<1>6. \A a \in Apps, b \in BOOLEAN :
         <<a, b>> \in P \cup Q => a \in S /\ Present(a) /\ (<<a, b>> \in P => <<a, b>> \notin Q)
  <2>1. ASSUME NEW a \in Apps, NEW b \in BOOLEAN, <<a, b>> \in P \cup Q PROVE a \in S
    <3>1. <<a, b>>[1] = a
      OBVIOUS
    <3> QED BY <2>1, <3>1 DEF S
  <2> QED BY <1>1, <2>1, QueuedOnce DEF P, Q
<1>7. \A a \in Apps, b, c \in BOOLEAN :
         <<a, b>> \in P \cup Q /\ <<a, c>> \in P \cup Q => b = c
  BY <1>1, QueuedOnce DEF P, Q
<1>8. /\ overlap \subseteq overlap'
      /\ \A a \in S : NameOf[a] \notin overlap' => NameOf[a] \notin overlap /\ Nobody(NameOf[a])
  BY <1>0, <1>5, FreshStart
<1>9. \A a \in Apps : (Fresh(a) => Fresh(a)') /\ (Recorded(a) => Recorded(a)')
  BY <1>0, <1>2 DEF Recorded, Fresh
<1>10. ASSUME NEW n \in Names, n \notin overlap',
              NEW a \in Apps, NEW b \in BOOLEAN, NameOf[a] = n, <<a, b>> \in P \cup Q
      PROVE  Alone(n)' /\ Held(n)'
  <2>1. a \in S /\ Present(a)
    BY <1>10, <1>6
  <2>2. n \notin overlap /\ Nobody(n)
    BY <1>8, <1>10, <2>1
  <2>3. InstalledAs(n)' = InstalledAs(n) /\ None \notin InstalledAs(n) /\ a \in InstalledAs(n)
    BY <1>10, NoneAssumption DEF InstalledAs
  <2>4. Present(a) /\ AtRest(n)
    BY <2>1, <2>2 DEF AgreeInv, NameOK, Held
  <2>5. Present(a)' /\ Recorded(a)'
    BY <1>2, <1>9, <1>10, <2>4, RestRecorded DEF AgreeInv
  <2>6. ASSUME NEW c \in InstalledAs(n), NEW x \in BOOLEAN, <<c, x>> \in P \cup Q
        PROVE  c = a /\ x = b
    <3>1. c \in Apps /\ NameOf[c] = NameOf[a]
      BY <1>10, <2>6 DEF InstalledAs
    <3>2. c = a
      BY <1>6, <2>4, <2>6, <3>1 DEF AgreeInv, Unique
    <3> QED BY <1>10, <1>7, <2>6, <3>2
  <2>7. \A s \in Threads : ~AtWork(s, n)'
    BY <1>4, <2>2, <2>3 DEF Nobody, AtWork
  <2>8. PICK t \in {ts, tb} : <<a, b>> \in thr'[t].todo
    BY <1>10, <1>4
  <2>9. \A s \in Threads, c \in InstalledAs(n), x \in BOOLEAN :
           <<c, x>> \in thr'[s].todo => s = t /\ c = a /\ x = b
    <3> SUFFICES ASSUME NEW s \in Threads, NEW c \in InstalledAs(n), NEW x \in BOOLEAN, <<c, x>> \in thr'[s].todo
                 PROVE  s = t /\ c = a /\ x = b
      OBVIOUS
    <3>1. s \in {ts, tb}
      BY <1>4
    <3>2. <<c, x>> \in P \cup Q /\ (s = ts => <<c, x>> \in P) /\ (s = tb => <<c, x>> \in Q)
      BY <1>4, <3>1
    <3>3. c = a /\ x = b
      BY <2>6, <3>2
    <3>4. (t = ts => <<a, b>> \in P) /\ (t = tb => <<a, b>> \in Q)
      BY <1>4, <2>8
    <3>5. <<a, b>> \in P => <<a, b>> \notin Q
      BY <1>6
    <3> QED BY <1>0, <2>8, <3>1, <3>2, <3>3, <3>4, <3>5
  <2>10. \A s \in Threads \ {t} : ~Queued(s, n)'
    BY <2>3, <2>9 DEF Queued
  <2>11. (\A r \in Reqs : ~Serves(r, n)') /\ ~Guarded(n)' /\ ~Listed(n)'
    BY <1>0, <2>2, <2>3 DEF Nobody, Serves, Guarded, Listed, Cid
  <2>12. OnlyThread(t, n)'
    BY <2>7, <2>10, <2>11 DEF OnlyThread
  <2>13. a \in InstalledAs(n)' /\ t \in Threads /\ ~AtWork(t, n)'
    BY <2>3, <2>7
  <2>14. \A c \in InstalledAs(n)', x \in BOOLEAN : <<c, x>> \in thr'[t].todo => c = a /\ x = b
    BY <2>3, <2>9, <2>13
  <2>15. row'[a].status # "running"
    BY <1>2, <1>10, QueuedStarts DEF P, Q
  <2>16. InList(n, t, a, b)'
    BY <2>5, <2>8, <2>12, <2>13, <2>14, <2>15 DEF InList
  <2> QED BY <1>10, <2>13, <2>16, QueueAfter DEF QueueHolds
<1>11. ASSUME NEW n \in Names, n \notin overlap',
              \A a \in Apps, b \in BOOLEAN : NameOf[a] = n => <<a, b>> \notin P \cup Q
      PROVE  Alone(n)' /\ Held(n)'
  <2>1. Alone(n) /\ Held(n) /\ n \notin overlap
    BY <1>8, <1>11 DEF AgreeInv, NameOK
  <2>2. /\ InstalledAs(n)' = InstalledAs(n) /\ None \notin InstalledAs(n) /\ Cid' = Cid
        /\ \A a \in InstalledAs(n) : a \in Apps /\ NameOf[a] = n
    BY NoneAssumption DEF InstalledAs, Cid
  <2>3. \A s \in Threads, a \in InstalledAs(n), b \in BOOLEAN : <<a, b>> \notin thr'[s].todo
    <3> SUFFICES ASSUME NEW s \in Threads, NEW a \in InstalledAs(n), NEW b \in BOOLEAN, <<a, b>> \in thr'[s].todo
                 PROVE  FALSE
      OBVIOUS
    <3>1. s \in {ts, tb}
      BY <1>4
    <3>2. <<a, b>> \in P \cup Q
      BY <1>4, <3>1
    <3> QED BY <1>11, <2>2, <3>2
  <2>4. \A s \in Threads : thr'[s] = thr[s] \/ {thr'[s].app, thr[s].app} \cap InstalledAs(n) = {}
    <3> SUFFICES ASSUME NEW s \in Threads, thr'[s] # thr[s]
                 PROVE  {thr'[s].app, thr[s].app} \cap InstalledAs(n) = {}
      OBVIOUS
    <3>1. thr[s].pc = "idle" /\ thr'[s].app = None
      BY <1>4
    <3>2. thr[s].app = None
      BY <1>0, <3>1, IdleIsFree
    <3> QED BY <2>2, <3>1, <3>2
  <2>5. SameWork(n)
    BY <1>0, <1>3, <2>3, <2>4 DEF SameWork
  <2>6. Alone(n)'
    BY <2>1, <2>5, StillAlone
  <2>7. ASSUME NEW t \in Threads, NEW a \in InstalledAs(n), thr'[t].app = a
        PROVE  Present(a)' /\ Established(t, a)'
    <3>1. thr'[t] = thr[t]
      BY <2>4, <2>7
    <3>2. Present(a) /\ Established(t, a)
      BY <2>1, <2>7, <3>1 DEF Held
    <3>3. row'[a].cid = row[a].cid /\ podman'[NameOf[a]] = podman[NameOf[a]] /\ (Recorded(a) => Recorded(a)')
      BY <1>0, <1>2, <1>9, <2>2
    <3>4. snap[a].status # "running" /\ (snap[a].status = "building" => snap[a].cid = None)
      BY <1>0, <2>1, <2>2, <2>7, <3>1 DEF AgreeInv, Shapes
    <3>5. ~KeepsRunning(a)
      BY <3>4 DEF KeepsRunning, Scanned, Alive
    <3>6. row'[a].status # "running"
      <4>1. row[a] \in Rows /\ row[a].status # "running" /\ row'[a] = CheckedRow(a, lost)
        BY <1>0, <1>2, <2>2, <3>2 DEF RowsOK, Established
      <4> QED BY <3>5, <4>1 DEF CheckedRow, ScannedRow, Rows
    <3>7. row'[a].status = "building" => row[a].status = "building"
      BY <1>2, <2>2
    <3>8. Established(t, a)'
      BY <3>1, <3>2, <3>3, <3>6, <3>7 DEF Established
    <3> QED BY <1>2, <2>2, <3>2, <3>8
  <2>8. ASSUME NEW r \in Reqs, NEW a \in InstalledAs(n), req'[r].app = a PROVE FALSE
    BY <1>0, <2>2, <2>8 DEF AgreeInv, Shapes
  <2>9. /\ \A a \in InstalledAs(n) : grd'.app = a => Present(a)' /\ podman'[n] \notin Cids
        /\ \A a \in InstalledAs(n), c \in Cid :
             <<a, c>> \in grd'.todo => Present(a)' /\ Recorded(a)' /\ c = row'[a].cid
    BY <1>0, <1>2, <1>9, <2>1, <2>2 DEF Held
  <2>10. ASSUME Nobody(n)' PROVE AtRest(n)'
    <3>1. AtRest(n)
      BY <2>1, <2>5, <2>10, SameActors DEF Held
    <3>2. podman'[n] \in Cids => \E a \in InstalledAs(n)' : Present(a)' /\ row'[a].cid = podman'[n]
      BY <1>0, <1>2, <2>2, <3>1 DEF AtRest
    <3>3. ASSUME NEW a \in InstalledAs(n)', row'[a].status = "running"
          PROVE  podman'[n] # None /\ row'[a].cid = podman'[n]
      <4>1. a \in Apps /\ NameOf[a] = n /\ a \in InstalledAs(n) /\ row'[a].cid = row[a].cid
        BY <1>2, <2>2, <3>3
      <4>2. Present(a)
        BY <1>2, <3>3, <4>1 DEF Present
      <4>3. Recorded(a)
        BY <3>1, <4>1, <4>2, RestRecorded DEF AgreeInv
      <4>4. CASE Alive(a)
        <5>1. snap[a].cid \in Cid
          BY <4>1 DEF TInv, RestOK, Rows
        <5> QED BY <1>0, <4>1, <4>3, <4>4, <5>1 DEF Alive, Recorded, Cid
      <4>5. CASE row[a].status = "running" /\ snap[a].status # "running"
        <5>1. Lives(a)
          BY <1>0, <3>1, <4>1, <4>5 DEF AtRest, Due
        <5> QED BY <1>0, <4>1, <4>5, <5>1 DEF Lives
      <4> QED BY <1>2, <3>3, <4>1, <4>4, <4>5, CheckedRunning
    <3>4. \A a \in InstalledAs(n)' : Lives(a)' /\ Fresh(a)'
      BY <1>9, <2>2, <3>1, <3>3 DEF Lives, AtRest
    <3> QED BY <3>2, <3>4 DEF AtRest
  <2>11. Held(n)'
    BY <2>2, <2>3, <2>7, <2>8, <2>9, <2>10 DEF Held
  <2> QED BY <2>6, <2>11
<1>12. \A n \in Names : NameOK(n)'
  <2> SUFFICES ASSUME NEW n \in Names, n \notin overlap' PROVE Alone(n)' /\ Held(n)'
    BY DEF NameOK
  <2> QED BY <1>10, <1>11
<1>13. Unique'
  BY <1>2 DEF AgreeInv, Unique
<1>14. Shapes'
  <2>1. \A r \in Reqs : req'[r].app \notin Apps
    BY <1>0 DEF AgreeInv, Shapes
  <2>2. \A s \in Threads : thr'[s].kind # "remove"
    <3>1. \A s \in Threads : thr[s].kind # "remove"
      BY <1>0 DEF AgreeInv, Shapes
    <3> QED BY <3>1, CheckedThreads
  <2> QED BY <1>0, <2>1, <2>2 DEF AgreeInv, Shapes
<1> QED BY <1>12, <1>13, <1>14 DEF AgreeInv

-----------------------------------------------------------------------------
(* SettledAgrees *)

LEMMA AgreeInit == Init => AgreeInv
<1> SUFFICES ASSUME Init PROVE AgreeInv
  OBVIOUS
<1>1. /\ \A a \in Apps : row[a].status = "none" /\ ~Present(a)
      /\ \A t \in Threads : thr[t].app = None /\ thr[t].todo = {} /\ thr[t].kind = "none"
      /\ \A r \in Reqs : req[r].app = None
      /\ grd = IdleGuard /\ grd.app = None /\ grd.todo = {} /\ grd.pc = "idle"
  BY DEF Init, NoRows, NoRow, Present, IdleThread, IdleReq, IdleGuard
<1>2. ASSUME NEW n \in Names PROVE Alone(n) /\ Held(n)
  <2>1. None \notin InstalledAs(n) /\ podman[n] = None
    BY NoneAssumption DEF Init, InstalledAs
  <2>2. Nobody(n)
    BY <1>1, <2>1 DEF Nobody, AtWork, Queued, Serves, Guarded, Listed
  <2>3. AtRest(n)
    BY <1>1, <2>1, NoneAssumption DEF AtRest, Lives, Fresh, InstalledAs
  <2> QED BY <2>2, <2>3, HeldByNobody
<1>3. Unique /\ Shapes
  BY <1>1, NoneAssumption DEF Init, Unique, Shapes
<1> QED BY <1>2, <1>3 DEF AgreeInv, NameOK

\* A thread that cannot write its error leaves its app's row as it was, which says
\* of the container what is the case; so do the rows on its list.
LEMMA AgreeByLose ==
    ASSUME TInv, AgreeInv, NEW t \in Threads, LoseFail(t)
    PROVE  AgreeInv'
<1>0. /\ ThreadsOK /\ RowsOK /\ thr[t].pc = "fail" /\ UNCHANGED <<row, podman, req, grd, proc, snap, overlap>>
      /\ thr' = [thr EXCEPT ![t] = IdleThread]
  BY DEF TInv, LoseFail, At, box, threadElse
<1>1. /\ thr' \in [Threads -> Thread] /\ \A s \in Threads \ {t} : thr'[s] = thr[s]
      /\ thr'[t].app = None /\ thr'[t].todo = {} /\ thr'[t].kind = "none"
  BY <1>0, IdleTypes DEF ThreadsOK, IdleThread
<1> PICK a \in Apps : thr[t].app = a
  BY <1>0 DEF ThreadsOK, ThreadShape, LauncherPcs
<1>2. \A b \in Apps : RowOnly(b) /\ (Recorded(b) <=> Recorded(b)') /\ (Due(b)' <=> Due(b))
  BY <1>0 DEF RowOnly, RowsOK, Recorded, Fresh, Due
<1>3. ASSUME NEW b \in Apps, Present(b), Recorded(b), row[b].status # "running"
      PROVE  AtRest(NameOf[b])'
  <2>1. Rests(b)'
    BY <1>0, <1>3 DEF Recorded, Rests, Lives, Fresh, Present
  <2> QED BY <1>0, <1>2, <1>3, <2>1, RestsAtRest DEF AgreeInv
<1>4. ASSUME NEW n \in Names, n \notin overlap PROVE NameOK(n)'
  <2>0. /\ NameOK(n) /\ InstalledAs(n)' = InstalledAs(n) /\ Cid' = Cid /\ None \notin InstalledAs(n)
        /\ \A b \in InstalledAs(n) : b \in Apps /\ NameOf[b] = n
    BY NoneAssumption DEF AgreeInv, InstalledAs, Cid
  <2>1. CASE n = NameOf[a]
    <3>1. Present(a) /\ Recorded(a) /\ row[a].status # "running"
      BY <1>0, <1>4, <2>0, <2>1 DEF NameOK, Held, Established, InstalledAs
    <3>2. AtRest(NameOf[a])'
      BY <1>3, <3>1
    <3> QED BY <1>0, <1>1, <1>4, <2>0, <2>1, <3>2, ThreadLeaves
  <2>2. CASE n # NameOf[a] /\ Queued(t, n)
    <3>1. PICK b \in InstalledAs(n), x \in BOOLEAN : <<b, x>> \in thr[t].todo
      BY <2>2 DEF Queued
    <3>2. Present(b) /\ Recorded(b) /\ row[b].status # "running" /\ OnlyThread(t, n)
      BY <1>4, <2>0, <2>2, <3>1 DEF NameOK, Held, Alone
    <3>3. AtRest(n)'
      BY <1>3, <2>0, <3>1, <3>2
    <3>4. \A s \in Threads : ~AtWork(s, n)' /\ ~Queued(s, n)'
      BY <1>1, <2>0, <3>2 DEF OnlyThread, AtWork, Queued
    <3>5. (\A r \in Reqs : ~Serves(r, n)') /\ ~Guarded(n)' /\ ~Listed(n)'
      BY <1>0, <2>0, <3>2 DEF OnlyThread, Serves, Guarded, Listed
    <3>6. Nobody(n)'
      BY <3>4, <3>5 DEF Nobody
    <3> QED BY <3>3, <3>6, HeldAfter DEF HeldByOne, NameOK
  <2>3. CASE n # NameOf[a] /\ ~Queued(t, n)
    <3>1. \A c \in InstalledAs(n), y \in BOOLEAN : <<c, y>> \notin thr[t].todo
      BY <2>3 DEF Queued
    <3>2. \A s \in Threads :
             /\ thr'[s] = thr[s] \/ {thr'[s].app, thr[s].app} \cap InstalledAs(n) = {}
             /\ \A c \in InstalledAs(n), y \in BOOLEAN : <<c, y>> \in thr'[s].todo <=> <<c, y>> \in thr[s].todo
      BY <1>1, <2>0, <2>3, <3>1
    <3>3. LeavesAlone(n)
      BY <1>0, <1>2, <2>0, <3>2 DEF LeavesAlone, SameWork
    <3> QED BY <1>0, <2>0, <3>3, Frame
  <2> QED BY <2>1, <2>2, <2>3
<1>5. \A n \in Names : NameOK(n)'
  BY <1>0, <1>4 DEF NameOK
<1>6. Unique' /\ Shapes'
  BY <1>0, <1>1, NoneAssumption DEF AgreeInv, Unique, Shapes, Present
<1> QED BY <1>5, <1>6 DEF AgreeInv

\* Every thread goes to the removal of the old container in Prepare, or was there.
RmReached == \A s \in Threads : thr'[s].pc = "rm" => thr'[s] = thr[s] \/ thr'[s].keep = None

LEMMA RmByThread ==
    ASSUME TInv, NEW t \in Threads, ThreadStep(t)
    PROVE  RmReached
<1>0. ThreadsOK /\ thr[t] \in Thread
  BY DEF TInv, ThreadsOK
<1>1. ASSUME NEW p, p # "rm", NEW c, NEW e,
             \/ thr' = [thr EXCEPT ![t].pc = p]
             \/ thr' = [thr EXCEPT ![t].pc = p, ![t].err = e]
             \/ thr' = [thr EXCEPT ![t].pc = p, ![t].cid = c]
             \/ thr' = [thr EXCEPT ![t].pc = p, ![t].keep = c]
      PROVE  RmReached
  BY <1>0, <1>1 DEF ThreadsOK, Thread, RmReached
<1>2. ASSUME NEW q, thr' = [thr EXCEPT ![t] = q], q.pc # "rm"
      PROVE  RmReached
  BY <1>0, <1>2 DEF ThreadsOK, RmReached
<1>3. ASSUME Finish(t) PROVE RmReached
  <2>1. Finished(t).pc # "rm"
    BY DEF Finished, RecoveryThread, IdleThread
  <2> QED BY <1>2, <1>3, <2>1 DEF Finish
<1>11. IdleThread.pc # "rm"
  BY DEF IdleThread
<1>4. CASE Prepare(t)
  <2>1. CASE thr' = [thr EXCEPT ![t].pc = "rm", ![t].keep = None]
    BY <1>0, <2>1 DEF ThreadsOK, Thread, RmReached
  <2> QED BY <1>1, <1>4, <2>1 DEF Prepare, Raise
<1>5. CASE NextRecovery(t)
  <2>1. CASE thr' = [thr EXCEPT ![t] = IdleThread]
    BY <1>2, <1>11, <2>1
  <2>2. ASSUME NEW x \in thr[t].todo,
               thr' = [thr EXCEPT ![t].todo = @ \ {x}, ![t].app = x[1],
                                  ![t].pc = IF x[2] THEN "start" ELSE "restart"]
        PROVE  RmReached
    BY <1>0, <2>2 DEF ThreadsOK, Thread, RmReached
  <2> QED BY <1>5, <2>1, <2>2 DEF NextRecovery
<1>6. CASE LoseFail(t)
  BY <1>2, <1>6, <1>11 DEF LoseFail
<1>7. CASE DeployCheck(t) \/ ReloadRead(t) \/ StartRead(t) \/ StartMark(t) \/ RestartRead(t) \/ Build(t)
  BY <1>1, <1>3, <1>7 DEF DeployCheck, ReloadRead, StartRead, StartMark, RestartRead, Build, Goto, Raise
<1>8. CASE SelectRow(t) \/ PodmanRm(t) \/ PodmanRun(t) \/ Record(t) \/ WaitForReady(t)
  BY <1>1, <1>3, <1>8 DEF SelectRow, PodmanRm, PodmanRun, Record, WaitForReady, Goto, Raise
<1>9. CASE WriteRunning(t) \/ WriteUnready(t) \/ Cleanup(t) \/ ExcWrite(t) \/ WriteFail(t)
  BY <1>1, <1>3, <1>9 DEF WriteRunning, WriteUnready, Cleanup, ExcWrite, WriteFail, Goto, Raise
<1>10. CASE RemoveRead(t) \/ RemoveStop(t) \/ RemovePurge(t) \/ RemoveDelete(t)
  BY <1>1, <1>3, <1>10 DEF RemoveRead, RemoveStop, RemovePurge, RemoveDelete, Goto
<1> QED BY <1>4, <1>5, <1>6, <1>7, <1>8, <1>9, <1>10 DEF ThreadStep

LEMMA RmStep ==
    ASSUME IInv, RmInv, [Next]_vars
    PROVE  RmInv'
<1>0. TInv /\ ThreadsOK
  BY DEF IInv, TInv
<1> SUFFICES RmReached
  BY DEF RmInv, RmReached
<1>1. CASE thr' = thr
  BY <1>1 DEF RmReached
<1>2. ASSUME NEW t \in Threads, ThreadStep(t) PROVE RmReached
  BY <1>0, <1>2, RmByThread
<1>3. ASSUME NEW t \in Threads, NEW k, NEW a, NEW p, p # "rm", Spawn(t, k, a, p) PROVE RmReached
  BY <1>0, <1>3 DEF Spawn, ThreadsOK, IdleThread, RmReached
<1>4. ASSUME NEW r \in Reqs, ReqStep(r) PROVE RmReached
  BY <1>1, <1>3, <1>4 DEF ReqStep, StopByCid, StopByName, StopWrite, PullDone, Claim, StopOld
<1>5. ASSUME NEW a \in Apps, NEW t \in Threads, AddApp(a, t) \/ RemoveApp(a, t) PROVE RmReached
  BY <1>1, <1>3, <1>5 DEF AddApp, RemoveApp
<1>6. CASE Exit \/ Crash
  BY <1>6 DEF Exit, Crash, Die, IdleThread, RmReached
<1>7. ASSUME NEW lost \in SUBSET Apps, NEW ts \in Threads, NEW tb \in Threads, CheckAppStatus(lost, ts, tb)
      PROVE  RmReached
  <2>1. \A s \in Threads : thr'[s] = thr[s] \/ thr'[s].pc = "next"
    BY <1>7 DEF CheckAppStatus, RecoveryThread, IdleThread
  <2> QED BY <2>1 DEF RmReached
<1> QED
  BY <1>1, <1>2, <1>4, <1>5, <1>6, <1>7
     DEF Next, StartUp, StopApp, ReloadApp, PromoteDomain, GuardSelect, GuardStep, GuardStop, GuardWrite,
         Boot, ScanSelect, vars

LEMMA RmInductive == Spec => []RmInv
<1>1. Init => RmInv
  BY DEF Init, RmInv, IdleThread
<1> QED BY <1>1, RmStep, Inductive, PTL DEF Spec

LEMMA AgreeStep ==
    ASSUME StopMayFail = FALSE, IInv, RmInv, AgreeInv, [Next]_vars
    PROVE  AgreeInv'
<1>0. TInv /\ Phases
  BY DEF IInv
<1>1. ASSUME NEW t \in Threads, ThreadStep(t) PROVE AgreeInv'
  <2>1. Launch(t) \/ Remove(t) \/ NextRecovery(t) \/ LoseFail(t)
    BY <1>1 DEF ThreadStep, Launch, Remove
  <2> QED BY <1>0, <2>1, AgreeByLaunch, AgreeByRecovery, AgreeByLose
<1>2. ASSUME NEW r \in Reqs, ReqStep(r) PROVE AgreeInv'
  BY <1>0, <1>2, AgreeByRequest
<1>3. ASSUME NEW a \in Apps, NEW t \in Threads, AddApp(a, t) \/ RemoveApp(a, t) PROVE AgreeInv'
  BY <1>0, <1>3, AgreeByAdd, AgreeByRemove
<1>4. ASSUME NEW r \in Reqs, NEW a \in Apps, StopApp(r, a) PROVE AgreeInv'
  BY <1>0, <1>4, AgreeByStopApp
<1>5. ASSUME NEW r \in Reqs, NEW a \in Apps, NEW update \in BOOLEAN, NEW oauth \in BOOLEAN,
             ReloadApp(r, a, update, oauth)
      PROVE  AgreeInv'
  BY <1>0, <1>5, AgreeByReload
<1>6. CASE PromoteDomain
  BY <1>0, <1>6, AgreeByPromote
<1>7. CASE GuardSelect \/ GuardStep
  BY <1>0, <1>7, AgreeBySelect, AgreeByStop, AgreeByWrite DEF GuardStep
<1>8. CASE Exit \/ Crash
  BY <1>0, <1>8, AgreeByDeath
<1>9. CASE Boot \/ ScanSelect
  BY <1>0, <1>9, AgreeByBoot
<1>10. ASSUME NEW lost \in SUBSET Apps, NEW ts \in Threads, NEW tb \in Threads, CheckAppStatus(lost, ts, tb)
       PROVE  AgreeInv'
  BY <1>0, <1>10, AgreeByCheck
<1>11. CASE UNCHANGED vars
  <2>1. \A n \in Names : LeavesAlone(n) /\ overlap' = overlap
    BY <1>11 DEF LeavesAlone, SameWork, vars, history, Due
  <2>2. \A n \in Names : NameOK(n)'
    BY <2>1, Frame DEF AgreeInv
  <2>3. Unique' /\ Shapes'
    BY <1>11 DEF vars, history, AgreeInv, Unique, Shapes, Present
  <2> QED BY <2>2, <2>3 DEF AgreeInv
<1> QED
  BY <1>1, <1>2, <1>3, <1>4, <1>5, <1>6, <1>7, <1>8, <1>9, <1>10, <1>11 DEF Next, StartUp

\* SettledAgrees for any number of names, apps, threads and requests: while the
\* router is up and nobody is at work on a name, what podman runs under it and what
\* the rows say agree, whatever fails in a launch, but after an overlap only from
\* the next launch on that is on its own. Assumed is that stopping a container does
\* stop it, and that what records the stop is written: one that is said to be
\* stopped and is not leaves a container that no row records.
THEOREM Settles ==
    ASSUME StopMayFail = FALSE
    PROVE  Spec => []SettledAgrees
<1>1. IInv /\ RmInv /\ AgreeInv /\ [Next]_vars => AgreeInv'
  BY AgreeStep
<1>2. AgreeInv => SettledAgrees
  <2> SUFFICES ASSUME AgreeInv, proc = "up", NEW n \in Names \ overlap, ~InFlight(n)
               PROVE  /\ podman[n] \in Cids =>
                           \E a \in Apps : NameOf[a] = n /\ Present(a) /\ row[a].cid = podman[n]
                      /\ \A a \in Apps : NameOf[a] = n /\ row[a].status = "running" =>
                           podman[n] # None /\ row[a].cid = podman[n]
    BY DEF SettledAgrees
  <2>1. AtRest(n)
    BY InFlightIs DEF AgreeInv, NameOK, Held
  <2>2. \A a \in Apps : Due(a)
    BY DEF Due
  <2> QED BY <2>1, <2>2 DEF AtRest, Lives, InstalledAs
<1> QED BY <1>1, <1>2, AgreeInit, Inductive, RmInductive, PTL DEF Spec

-----------------------------------------------------------------------------
(* Removals: the safety half of RemovalEnds *)

Removes(t, a) == thr[t].kind = "remove" /\ thr[t].app = a

RemovalOwned ==
    \A a \in Apps : row[a].status = "removing" =>
        (\E t \in Threads : Removes(t, a)) \/ a \in abandoned

\* A step that claims no row for a removal and ends none.
RowsNotClaimed == \A a \in Apps : row'[a].status = "removing" => row[a].status = "removing"
RemoversKept == \A a \in Apps, t \in Threads : Removes(t, a) => Removes(t, a)'

LEMMA RemovalKept ==
    ASSUME RemovalOwned, RowsNotClaimed, RemoversKept, abandoned \subseteq abandoned'
    PROVE  RemovalOwned'
BY DEF RemovalOwned, RowsNotClaimed, RemoversKept

\* An UPDATE to another status claims no row for a removal.
LEMMA UpdateClaimsNone ==
    ASSUME RowsOK, NEW a \in Apps, NEW r, UpdateRow(a, r),
           r.status = row[a].status \/ r.status # "removing"
    PROVE  RowsNotClaimed
BY DEF RowsOK, UpdateRow, RowsNotClaimed, Present

LEMMA LaunchClaimsNone ==
    ASSUME TInv, NEW t \in Threads, Launch(t)
    PROVE  RowsNotClaimed /\ RemoversKept
<1> DEFINE a == thr[t].app
<1>0. ThreadsOK /\ RowsOK
  BY DEF TInv
<1>1. thr[t].pc \in LauncherPcs
  BY DEF Launch, DeployCheck, ReloadRead, StartRead, StartMark, RestartRead, Build,
       SelectRow, Prepare, PodmanRm, PodmanRun, Record, WaitForReady, WriteRunning, WriteUnready,
       Cleanup, ExcWrite, WriteFail, At, LauncherPcs
<1>2. a \in Apps /\ thr[t].kind # "remove" /\ row[a] \in Rows
  BY <1>0, <1>1 DEF ThreadsOK, ThreadShape, RowsOK, LauncherKinds
<1>3. RemoversKept
  <2>1. \A s \in Threads \ {t} : thr'[s] = thr[s]
    BY LaunchSteps DEF LaunchOK, Continues, Ends
  <2> QED
    BY <1>2, <2>1 DEF RemoversKept, Removes
<1> SUFFICES RowsNotClaimed
  BY <1>3
<1>4. ASSUME MarkStarting(a) PROVE RowsNotClaimed
  <2> DEFINE r == [row[a] EXCEPT !.status = "starting", !.err = IF @ = "marker" THEN @ ELSE "null"]
  <2>1. r.status = "starting" /\ UpdateRow(a, r)
    BY <1>2, <1>4 DEF MarkStarting, Rows
  <2> HIDE DEF r
  <2> QED
    BY <1>0, <1>2, <2>1, UpdateClaimsNone
<1>5. ASSUME NEW s, NEW e, s # "removing", UpdateRow(a, [row[a] EXCEPT !.status = s, !.err = e])
      PROVE  RowsNotClaimed
  <2> DEFINE r == [row[a] EXCEPT !.status = s, !.err = e]
  <2>1. r.status = s /\ UpdateRow(a, r)
    BY <1>2, <1>5 DEF Rows
  <2> HIDE DEF r
  <2> QED
    BY <1>0, <1>2, <1>5, <2>1, UpdateClaimsNone
<1>6. ASSUME row' = row PROVE RowsNotClaimed
  BY <1>6 DEF RowsNotClaimed
<1>7. CASE Record(t)
  <2>1. CASE UpdateRow(a, [row[a] EXCEPT !.cid = thr[t].cid])
    <3> DEFINE r == [row[a] EXCEPT !.cid = thr[t].cid]
    <3>1. r.status = row[a].status /\ UpdateRow(a, r)
      BY <1>2, <2>1 DEF Rows
    <3> HIDE DEF r
    <3> QED
      BY <1>0, <1>2, <3>1, UpdateClaimsNone
  <2> QED
    BY <1>6, <1>7, <2>1 DEF Record
<1>8. CASE ExcWrite(t)
  <2> DEFINE r == [status |-> "error", cid |-> thr[t].keep, err |-> thr[t].err]
  <2>1. r.status = "error" /\ (UpdateRow(a, r) \/ row' = row)
    BY <1>8 DEF ExcWrite
  <2> HIDE DEF r
  <2> QED
    BY <1>0, <1>2, <1>6, <2>1, UpdateClaimsNone
<1>9. CASE StartMark(t) \/ Prepare(t)
  BY <1>4, <1>6, <1>9 DEF StartMark, Prepare
<1>10. CASE WriteRunning(t) \/ WriteUnready(t) \/ WriteFail(t)
  BY <1>5, <1>6, <1>10 DEF WriteRunning, WriteUnready, WriteFail
<1>11. CASE \/ DeployCheck(t) \/ ReloadRead(t) \/ StartRead(t) \/ RestartRead(t) \/ Build(t)
            \/ SelectRow(t) \/ PodmanRm(t) \/ PodmanRun(t) \/ WaitForReady(t) \/ Cleanup(t)
  BY <1>6, <1>11 DEF DeployCheck, ReloadRead, StartRead, RestartRead, Build, SelectRow, PodmanRm,
       PodmanRun, WaitForReady, Cleanup
<1> QED
  BY <1>7, <1>8, <1>9, <1>10, <1>11 DEF Launch

\* A removing thread goes on with its app until the row is gone or says error.
LEMMA RemoveOwned ==
    ASSUME TInv, RemovalOwned, NEW t \in Threads, Remove(t)
    PROVE  RemovalOwned'
<1> DEFINE a == thr[t].app
<1>0. ThreadsOK /\ RowsOK
  BY DEF TInv
<1>1. thr[t].pc \in RemoverPcs
  BY DEF Remove, RemoveRead, RemoveStop, RemovePurge, RemoveDelete, At, RemoverPcs
<1>2. a \in Apps /\ thr[t].kind = "remove" /\ thr[t] \in Thread /\ row[a] \in Rows
  BY <1>0, <1>1 DEF ThreadsOK, ThreadShape, RowsOK
<1>4. ASSUME NEW p, NEW c, row' = row, abandoned' = abandoned,
             \/ thr' = [thr EXCEPT ![t].pc = p]
             \/ thr' = [thr EXCEPT ![t].pc = p, ![t].keep = c]
      PROVE  RemovalOwned'
  <2>1. \A s \in Threads : thr'[s].kind = thr[s].kind /\ thr'[s].app = thr[s].app
    BY <1>0, <1>2, <1>4 DEF ThreadsOK, Thread
  <2>2. RowsNotClaimed /\ RemoversKept
    BY <1>4, <2>1 DEF RowsNotClaimed, RemoversKept, Removes
  <2> QED
    BY <1>4, <2>2, RemovalKept
<1>5. ASSUME Finish(t), row'[a].status # "removing" \/ a \in abandoned', abandoned \subseteq abandoned',
             \A b \in Apps \ {a} : row'[b] = row[b]
      PROVE  RemovalOwned'
  <2>1. \A s \in Threads \ {t} : thr'[s] = thr[s]
    BY <1>0, <1>5 DEF Finish, ThreadsOK
  <2> QED
    BY <1>2, <1>5, <2>1 DEF RemovalOwned, Removes
<1>6. CASE RemoveRead(t)
  <2>1. CASE Present(a)
    BY <1>4, <1>6, <2>1 DEF RemoveRead, history
  <2>2. CASE ~Present(a)
    BY <1>5, <1>6, <2>2 DEF RemoveRead, Present, history
  <2> QED
    BY <2>1, <2>2
<1>7. CASE RemoveStop(t) \/ RemovePurge(t)
  BY <1>4, <1>7 DEF RemoveStop, RemovePurge, Goto, history
<1>8. CASE RemoveDelete(t)
  <2>1. CASE row' = [row EXCEPT ![a] = NoRow]
    BY <1>0, <1>2, <1>5, <1>8, <2>1 DEF RemoveDelete, RowsOK, NoRow
  <2>2. CASE UpdateRow(a, [row[a] EXCEPT !.status = "error", !.err = "other"])
    <3>1. RowOnly(a) /\ row'[a] = IF Present(a) THEN [row[a] EXCEPT !.status = "error", !.err = "other"]
                                  ELSE row[a]
      BY <1>0, <1>2, <2>2, UpdateRowOK, RowTypes, "error" \in Statuses, "other" \in Errors, None \in Cid
         DEF Statuses, Errors, Cid
    <3>2. row'[a].status # "removing"
      BY <1>2, <3>1 DEF Present, Rows
    <3> QED
      BY <1>5, <1>8, <3>1, <3>2 DEF RemoveDelete, RowOnly
  <2>3. CASE row' = row /\ abandoned' = abandoned \cup {a}
    BY <1>5, <1>8, <2>3 DEF RemoveDelete
  <2> QED
    BY <1>8, <2>1, <2>2, <2>3 DEF RemoveDelete
<1> QED
  BY <1>6, <1>7, <1>8 DEF Remove

\* A step that spawns or ends no thread.
LEMMA SameThreadsKept ==
    ASSUME thr' = thr
    PROVE  RemoversKept
BY DEF RemoversKept, Removes

\* A spawned thread had been idle: no removal loses its own.
LEMMA SpawnKeepsRemovers ==
    ASSUME ThreadsOK, NEW t \in Threads, NEW k, NEW a \in Apps, NEW p, Spawn(t, k, a, p)
    PROVE  RemoversKept /\ thr'[t].kind = k /\ thr'[t].app = a
<1>1. thr[t] = IdleThread
  BY DEF Spawn, ThreadsOK, ThreadShape
<1>2. thr'[t].kind = k /\ thr'[t].app = a /\ \A s \in Threads \ {t} : thr'[s] = thr[s]
  BY DEF Spawn, ThreadsOK, IdleThread
<1> QED
  BY <1>1, <1>2 DEF RemoversKept, Removes, IdleThread

LEMMA RequestOwned ==
    ASSUME TInv, RemovalOwned, NEW r \in Reqs, ReqStep(r)
    PROVE  RemovalOwned'
<1> DEFINE a == req[r].app
<1>0. ThreadsOK /\ RowsOK /\ ReqsOK
  BY DEF TInv
<1>1. a \in Apps /\ row[a] \in Rows
  BY <1>0 DEF ReqsOK, RowsOK, ReqStep, StopByCid, StopByName, StopWrite, PullDone, Claim, StopOld
<1>2. abandoned \subseteq abandoned'
  BY DEF ReqStep, StopByCid, StopByName, StopWrite, PullDone, Claim, StopOld, reqElse, history
<1>3. RemoversKept
  <2>1. CASE UNCHANGED thr
    BY <2>1, SameThreadsKept
  <2>2. CASE \E t \in Threads : StopOld(r, t)
    BY <1>0, <1>1, <2>2, SpawnKeepsRemovers DEF StopOld
  <2> QED
    BY <2>1, <2>2 DEF ReqStep, StopByCid, StopByName, StopWrite, PullDone, Claim
<1>4. RowsNotClaimed
  <2>1. CASE UNCHANGED row
    BY <2>1 DEF RowsNotClaimed
  <2>2. CASE StopWrite(r)
    <3> DEFINE x == [row[a] EXCEPT !.status = "stopped", !.cid = None]
    <3>1. x.status = "stopped" /\ (UpdateRow(a, x) \/ UNCHANGED row)
      BY <1>1, <2>2 DEF StopWrite, Rows
    <3> HIDE DEF x
    <3> QED
      BY <1>0, <1>1, <2>1, <3>1, UpdateClaimsNone
  <2>3. CASE PullDone(r)
    <3>1. CASE UpdateRow(a, [row[a] EXCEPT !.status = "error", !.err = "other"])
      <4> DEFINE x == [row[a] EXCEPT !.status = "error", !.err = "other"]
      <4>1. x.status = "error" /\ UpdateRow(a, x)
        BY <1>1, <3>1 DEF Rows
      <4> HIDE DEF x
      <4> QED
        BY <1>0, <1>1, <4>1, UpdateClaimsNone
    <3> QED
      BY <2>1, <2>3, <3>1 DEF PullDone
  <2>4. CASE Claim(r)
    <3>1. CASE row' = [row EXCEPT ![a] = [status |-> "building", cid |-> None, err |-> "null"]]
      BY <1>0, <1>1, <3>1 DEF RowsNotClaimed, RowsOK
    <3> QED
      BY <2>1, <2>4, <3>1 DEF Claim
  <2> QED
    BY <2>1, <2>2, <2>3, <2>4 DEF ReqStep, StopByCid, StopByName, StopOld
<1> QED
  BY <1>2, <1>3, <1>4, RemovalKept

\* A removal is claimed together with its worker, or given up at once.
LEMMA OwnerOwned ==
    ASSUME TInv, RemovalOwned, NEW a \in Apps, NEW t \in Threads, AddApp(a, t) \/ RemoveApp(a, t)
    PROVE  RemovalOwned'
<1>0. ThreadsOK /\ RowsOK /\ row[a] \in Rows
  BY DEF TInv, RowsOK
<1>1. abandoned \ {a} \subseteq abandoned'
  BY DEF AddApp, RemoveApp
<1>2. RemoversKept
  BY <1>0, SpawnKeepsRemovers, SameThreadsKept DEF AddApp, RemoveApp
<1>3. \A b \in Apps \ {a} : row'[b] = row[b]
  BY <1>0 DEF AddApp, RemoveApp, RowsOK
<1>4. row'[a].status = "removing" => Removes(t, a)' \/ a \in abandoned'
  <2>1. CASE AddApp(a, t)
    BY <1>0, <2>1 DEF AddApp, RowsOK
  <2>2. CASE RemoveApp(a, t)
    <3>1. CASE row' = [row EXCEPT ![a].status = "error", ![a].err = "other"]
      BY <1>0, <3>1 DEF RowsOK, Rows
    <3>2. CASE Spawn(t, "remove", a, "rmread")
      BY <1>0, <3>2, SpawnKeepsRemovers DEF Removes
    <3>3. CASE abandoned' = abandoned \cup {a}
      BY <3>3
    <3> QED
      BY <2>2, <3>1, <3>2, <3>3 DEF RemoveApp
  <2> QED
    BY <2>1, <2>2
<1> QED
  BY <1>1, <1>2, <1>3, <1>4 DEF RemovalOwned, RemoversKept

LEMMA HandlersOwned ==
    ASSUME TInv, RemovalOwned,
           \/ \E r \in Reqs, a \in Apps : StopApp(r, a)
           \/ \E r \in Reqs, a \in Apps, update, oauth \in BOOLEAN : ReloadApp(r, a, update, oauth)
           \/ PromoteDomain \/ GuardSelect \/ GuardStep
    PROVE  RemovalOwned'
<1>0. ThreadsOK /\ RowsOK /\ GuardOK
  BY DEF TInv
<1>1. abandoned \subseteq abandoned'
  BY DEF StopApp, ReloadApp, PromoteDomain, GuardSelect, GuardStep, GuardStop, GuardWrite, history
<1>2. RemoversKept
  BY SameThreadsKept DEF StopApp, ReloadApp, PromoteDomain, GuardSelect, GuardStep, GuardStop, GuardWrite
<1> SUFFICES RowsNotClaimed
  BY <1>1, <1>2, RemovalKept
<1>3. ASSUME NEW a \in Apps, UpdateRow(a, [row[a] EXCEPT !.status = "error", !.err = "other"])
      PROVE  RowsNotClaimed
  <2> DEFINE x == [row[a] EXCEPT !.status = "error", !.err = "other"]
  <2>1. x.status = "error" /\ UpdateRow(a, x)
    BY <1>0, <1>3 DEF RowsOK, Rows
  <2> HIDE DEF x
  <2> QED
    BY <1>0, <2>1, UpdateClaimsNone
<1>4. CASE UNCHANGED row
  BY <1>4 DEF RowsNotClaimed
<1>5. CASE \E r \in Reqs, a \in Apps, update, oauth \in BOOLEAN : ReloadApp(r, a, update, oauth)
  BY <1>3, <1>4, <1>5 DEF ReloadApp
<1>6. CASE PromoteDomain
  BY <1>0, <1>6 DEF PromoteDomain, RowsNotClaimed, RowsOK, Rows
<1>7. CASE GuardWrite
  <2>1. grd.app \in Apps
    BY <1>0, <1>7 DEF GuardOK, GuardWrite
  <2> DEFINE x == [status |-> "error", cid |-> None, err |-> "other"]
  <2>2. x.status = "error" /\ (UpdateRow(grd.app, x) \/ UNCHANGED row)
    BY <1>7 DEF GuardWrite
  <2> HIDE DEF x
  <2> QED
    BY <1>0, <1>4, <2>1, <2>2, UpdateClaimsNone
<1> QED
  BY <1>4, <1>5, <1>6, <1>7 DEF StopApp, GuardSelect, GuardStep, GuardStop, db

\* The scan writes no row that says removing, and recovers in idle threads.
LEMMA CheckOwned ==
    ASSUME TInv, RemovalOwned, NEW lost \in SUBSET Apps, NEW ts \in Threads, NEW tb \in Threads,
           CheckAppStatus(lost, ts, tb)
    PROVE  RemovalOwned'
<1>0. ThreadsOK /\ RowsOK
  BY DEF TInv
<1>1. abandoned \subseteq abandoned'
  BY DEF CheckAppStatus
<1>2. RemoversKept
  <2>1. thr[ts] = IdleThread /\ thr[tb] = IdleThread
    BY <1>0 DEF CheckAppStatus, ThreadsOK, ThreadShape
  <2>2. \A t \in Threads \ {ts, tb} : thr'[t] = thr[t]
    BY DEF CheckAppStatus
  <2> QED
    BY <2>1, <2>2 DEF RemoversKept, Removes, IdleThread
<1>3. RowsNotClaimed
  <2> SUFFICES ASSUME NEW a \in Apps PROVE row'[a].status = "removing" => row[a].status = "removing"
    BY DEF RowsNotClaimed
  <2>1. row[a] \in Rows /\ row'[a] = CheckedRow(a, lost)
    BY <1>0 DEF CheckAppStatus, RowsOK
  <2>2. ScannedRow(a, lost).status \in {"running", "error", "starting", row[a].status}
    BY <2>1 DEF ScannedRow, Rows
  <2>3. CheckedRow(a, lost).status \in {"starting", ScannedRow(a, lost).status}
    BY <2>1 DEF CheckedRow, Rows
  <2> QED
    BY <2>1, <2>2, <2>3
<1> QED
  BY <1>1, <1>2, <1>3, RemovalKept

\* The end of the router takes the removals' threads; it abandons them.
LEMMA DeathOwned ==
    ASSUME TInv, RemovalOwned, Exit \/ Crash
    PROVE  RemovalOwned'
<1>1. Die
  BY DEF Exit, Crash
<1>2. row' = row /\ abandoned \subseteq abandoned'
  BY <1>1 DEF Die
<1>3. ASSUME NEW a \in Apps, NEW t \in Threads, Removes(t, a) PROVE a \in abandoned'
  BY <1>1, <1>3 DEF Removes, Die
<1> QED
  BY <1>2, <1>3 DEF RemovalOwned

LEMMA OwnedStep ==
    ASSUME IInv, RemovalOwned, [Next]_vars
    PROVE  RemovalOwned'
<1>0. TInv
  BY DEF IInv
<1>1. ASSUME NEW t \in Threads, ThreadStep(t) PROVE RemovalOwned'
  <2>1. CASE Launch(t)
    <3>1. RowsNotClaimed /\ RemoversKept
      BY <1>0, <2>1, LaunchClaimsNone
    <3>2. abandoned' = abandoned
      BY <1>0, <2>1, LaunchSteps DEF LauncherHistory
    <3> QED
      BY <3>1, <3>2, RemovalKept
  <2>2. CASE Remove(t)
    BY <1>0, <2>2, RemoveOwned
  <2>3. CASE NextRecovery(t)
    <3>1. thr[t].kind # "remove" /\ \A s \in Threads \ {t} : thr'[s] = thr[s]
      BY <1>0, <2>3 DEF NextRecovery, At, TInv, ThreadsOK, ThreadShape
    <3>2. RemoversKept /\ RowsNotClaimed /\ abandoned \subseteq abandoned'
      BY <2>3, <3>1 DEF NextRecovery, RemoversKept, RowsNotClaimed, Removes, db, history
    <3> QED
      BY <3>2, RemovalKept
  <2>4. CASE LoseFail(t)
    <3>1. thr[t].kind # "remove" /\ \A s \in Threads \ {t} : thr'[s] = thr[s]
      BY <1>0, <2>4 DEF LoseFail, At, TInv, ThreadsOK, ThreadShape, LauncherPcs, LauncherKinds
    <3>2. RemoversKept /\ RowsNotClaimed /\ abandoned \subseteq abandoned'
      BY <2>4, <3>1 DEF LoseFail, RemoversKept, RowsNotClaimed, Removes
    <3> QED
      BY <3>2, RemovalKept
  <2> QED
    BY <1>1, <2>1, <2>2, <2>3, <2>4 DEF ThreadStep, Launch, Remove
<1>2. ASSUME UNCHANGED <<row, thr, abandoned>> PROVE RemovalOwned'
  BY <1>2 DEF RemovalOwned, Removes
<1>3. CASE Boot \/ ScanSelect \/ UNCHANGED vars
  BY <1>2, <1>3 DEF Boot, ScanSelect, vars, db, history
<1> QED
  BY <1>0, <1>1, <1>3, RequestOwned, OwnerOwned, HandlersOwned, CheckOwned, DeathOwned DEF Next, StartUp

\* The safety half of RemovalEnds: whatever of the stop, the purge and the DELETE
\* fails, and whatever the other threads and the owner do, a row that says removing
\* has its worker, or has been abandoned: the router ended under its worker, or the
\* worker could write neither the DELETE nor the error, or remove_app could neither
\* start one nor take its claim back. Nothing else leaves a row in removing.
THEOREM RemovalHasWorker == Spec => []RemovalOwned
<1>1. Init => RemovalOwned
  BY DEF Init, RemovalOwned, NoRows, NoRow
<1> QED
  BY <1>1, OwnedStep, Inductive, PTL DEF Spec
=============================================================================
