----------------------------- MODULE AppSource -----------------------------
(***************************************************************************)
(* The code an app runs and the places it lives in: the checkout under the *)
(* app's temporary directory, the manifest stored in its row, the storage  *)
(* directories that carry its name, and its ports.  Installing, updating,  *)
(* reloading, renaming and removing apps change them together, in handlers *)
(* that wait for git, for the disk and for OAuth in the middle.            *)
(*                                                                         *)
(* The checkout is what the next build uses, whoever asks for it; the      *)
(* owner reviews manifests.  What keeps the two together is the gate of an *)
(* update and the rollback of a refused one.  "spoiled" records the apps   *)
(* something happened to that these do not cover (see Spoil).  Built-in    *)
(* apps are copies of what the router ships and have neither.              *)
(***************************************************************************)
EXTENDS Naturals, Sequences, FiniteSets, FiniteSetsExt

CONSTANTS
  Apps, Names, Perms,
  Builtin,      \* the apps copied from the router's apps directory, without a .git
  Root,         \* the name that is also another component of every path, or None
  Commits,      \* what an upstream branch may point at
  Base,         \* the commit of the app that is there at the start; maps no port
  Broken,       \* the commits whose manifest does not parse
  Declares,     \* Declares[c]: the permissions the manifest of c asks for
  Maps,         \* Maps[c]: whether it maps a host port, a setting under review
  Ports, Tiers, \* Tiers: number of storage tiers, the second is the temporary one
  Reqs,         \* requests the router serves at a time
  MaxOps, MaxFaults, \* bounds on the requests, and on failures and crashes
  None

ASSUME AppSourceAssumption ==
  /\ Declares \in [Commits -> SUBSET Perms] /\ Maps \in [Commits -> BOOLEAN]
  /\ Base \in Commits \ Broken /\ Broken \subseteq Commits /\ ~Maps[Base]
  /\ Builtin \subseteq Apps /\ Root \in Names \cup {None}
  /\ IsFiniteSet(Ports) /\ Ports \subseteq Nat \ {0} /\ Ports # {}
  /\ Tiers \in Nat /\ Tiers >= 2
  /\ MaxOps \in Nat /\ MaxFaults \in Nat
  /\ None \notin Apps \cup Names \cup Commits

(* A row of the table of apps, as far as it matters here.  root and path   *)
(* are what renames have made of two components of its repo_path: the one  *)
(* that happens to be a possible name, and the one that is the app's.      *)
Statuses == {"building", "starting", "running", "stopped", "error"}
AppRow == [name : Names, status : Statuses, man : Commits, local : Ports, host : Ports \cup {0},
           root : Names \cup {None}, path : Names]
ASSUME NoneAssumption == None \notin AppRow

VARIABLES
  rows,     \* the apps table: name, status, man (manifest_raw), local, host (ports)
  dir,      \* dir[t][n]: whose directory carries name n in tier t
  tree,     \* tree[a]: the commit checked out in the temporary directory of a
  up,       \* the commit the upstream of an app points at; of a built-in one,
            \* what the router's apps directory holds under its name
  code,     \* the commit the container of an app runs
  grants,   \* permissions granted to an app
  accepted, \* history: all the owner accepted for an app: permissions, settings
  resume,   \* updates that wait for the owner in an OAuth flow
  req, worker,
  spoiled,  \* history: see Spoil
  ops, faults

store == <<rows, dir, tree>>
owner == <<grants, accepted>>
bounds == <<ops, faults>>
vars == <<store, up, code, owner, resume, req, worker, spoiled, bounds>>

Tmp == 2
Exists(a) == rows[a] # None
Taken(n) == \E a \in Apps : Exists(a) /\ rows[a].name = n
Status(a) == IF Exists(a) THEN rows[a].status ELSE "none"
Idle == [pc |-> "idle"]
Ask == ops < MaxOps /\ ops' = ops + 1
Fault == faults < MaxFaults /\ faults' = faults + 1
NoFault == UNCHANGED faults

(* Somebody is at work on an app, or about to give or take its name; who   *)
(* is at work under a name, or has a path to it (two renames of an app at  *)
(* a time leave it with the path of the first).                            *)
Busy(a) == worker[a] # Idle \/ \E r \in Reqs : req[r].pc # "idle" /\ req[r].app = a
NamesOf(q) == CASE q.pc \in {"idle", "cloned"} -> {}
                [] q.pc \in {"pick", "insert"} -> {q.to}
                [] q.pc \in {"move", "undo", "name"} -> {q.from, q.to}
                [] OTHER -> {q.path}
Wanted(n) == {req[r].app : r \in {q \in Reqs : n \in NamesOf(req[q])}} \cup
             {a \in Apps : worker[a].pc # "idle" /\ worker[a].path = n} \cup
             {a \in Apps : Exists(a) /\ rows[a].path = n}

(* The accidents nothing in the code covers: two actors at work on one app *)
(* or one name, a pull that failed after its checkout, a rollback or an    *)
(* undo that failed, a directory in the way of a rename, and a crash       *)
(* between two steps of a handler.                                         *)
Spoil(who) == spoiled' = spoiled \cup who
Overlap(a) == IF Busy(a) THEN {a} ELSE {}

(* The event loop is not held: insert_and_deploy and the launch that ends a *)
(* rename run on it without a pause, so only threads move meanwhile.       *)
LoopFree == /\ \A r \in Reqs : req[r].pc # "insert"
            /\ \A a \in Apps : worker[a] # Idle => ~worker[a].loop

Launch(n, onLoop) == [pc |-> "build", path |-> n, img |-> None, loop |-> onLoop]

(* Ports no other app holds, as its own or as a mapped one.                *)
Reserved(p, b) == \E a \in Apps \ {b} : Exists(a) /\ p \in {rows[a].local, rows[a].host}
Free(b) == {p \in Ports : ~Reserved(p, b)}

(* What a manifest asks for and sets, as far as it is under review; what   *)
(* the row keeps of it.                                                    *)
Manifest(c) == [perms |-> Declares[c], maps |-> Maps[c]]
Row(n, c, local, host) == [name |-> n, status |-> "building", man |-> c,
                           local |-> local, host |-> host, root |-> Root, path |-> n]

(* The commit a clone or a pull lands on.                                  *)
Target(a) == up[a]

(* Directories for a name are made where they miss; removed but the kept.  *)
Made(n, a) == [t \in 1..Tiers |-> [dir[t] EXCEPT ![n] = IF t = Tmp \/ @ # None THEN @ ELSE a]]
TakenOver(n, a) == [t \in 1..Tiers |-> [dir[t] EXCEPT ![n] = IF t = Tmp THEN @ ELSE a]]
Deprovisioned(n, keep) == [t \in 1..Tiers |->
                             IF keep /\ t # Tmp THEN dir[t] ELSE [dir[t] EXCEPT ![n] = None]]
MovedIn(n, a) == [dir EXCEPT ![Tmp][n] = a]

---------------------------------------------------------------------------
(* Installing                                                              *)

(* A clone, for the page the owner decides on or for the request itself;   *)
(* one whose manifest does not parse is refused.                           *)
Clone == \E r \in Reqs, a \in Apps :
  /\ Ask /\ LoopFree /\ req[r] = Idle
  /\ ~Exists(a) /\ tree[a] = None /\ Target(a) \notin Broken
  /\ \A q \in Reqs : req[q] # Idle => req[q].app # a
  /\ req' = [req EXCEPT ![r] = [pc |-> "cloned", app |-> a, commit |-> Target(a)]]
  /\ UNCHANGED <<store, up, code, owner, resume, worker, spoiled, faults>>

(* api_add_app: the clone is moved to the directory of the app's name,     *)
(* over whatever checkout is there, unless an app has that name.           *)
AddApp == \E r \in Reqs, n \in Names :
  /\ req[r].pc = "cloned" /\ LoopFree
  /\ LET a == req[r].app
     IN IF Taken(n)
        THEN req' = [req EXCEPT ![r] = Idle] /\ UNCHANGED <<dir, tree, spoiled>>
        ELSE /\ dir' = MovedIn(n, a)
             /\ tree' = [tree EXCEPT ![a] = req[r].commit]
             /\ req' = [req EXCEPT ![r] = [pc |-> "pick", app |-> a, to |-> n]]
             /\ Spoil(IF Wanted(n) = {} THEN {} ELSE Wanted(n) \cup {a})
  /\ UNCHANGED <<rows, up, code, owner, resume, worker, bounds>>

(* allocate_port and resolve_port_mappings read the committed tables; they *)
(* refuse a port asked for that another app holds.                         *)
PickPorts == \E r \in Reqs :
  /\ req[r].pc = "pick" /\ LoopFree
  /\ LET a == req[r].app
         local == Min(Free(a))
     IN \/ req' = [req EXCEPT ![r] = Idle]
        \/ /\ Free(a) # {}
           /\ \E host \in IF Maps[tree[a]] THEN Free(a) \ {local} ELSE {0} :
                req' = [req EXCEPT ![r] = [pc |-> "insert", app |-> a, to |-> req[r].to,
                                           local |-> local, host |-> host]]
  /\ UNCHANGED <<store, up, code, owner, resume, worker, spoiled, bounds>>

(* insert_and_deploy: the row, unless its name or a port of its own kind   *)
(* was taken meanwhile; the owner's grants; the build.  Data kept under    *)
(* the name by an earlier removal is taken over.                           *)
Insert == \E r \in Reqs, ticked \in SUBSET Perms :
  /\ req[r].pc = "insert"
  /\ LET a == req[r].app
         n == req[r].to
         clash == Taken(n) \/ \E b \in Apps : Exists(b) /\
                    (rows[b].local = req[r].local \/ (req[r].host # 0 /\ rows[b].host = req[r].host))
     IN /\ ticked \subseteq Manifest(tree[a]).perms
        /\ dir' = IF clash THEN Made(n, a) ELSE TakenOver(n, a)
        /\ IF clash
           THEN ticked = {} /\ UNCHANGED <<rows, owner, worker>>
           ELSE /\ rows' = [rows EXCEPT ![a] = Row(n, tree[a], req[r].local, req[r].host)]
                /\ grants' = [grants EXCEPT ![a] = ticked]
                /\ accepted' = [accepted EXCEPT ![a] =
                     [perms |-> Declares[tree[a]], maps |-> {Maps[tree[a]]}]]
                /\ worker' = [worker EXCEPT ![a] = Launch(n, FALSE)]
  /\ req' = [req EXCEPT ![r] = Idle]
  /\ UNCHANGED <<tree, up, code, resume, spoiled, bounds>>

---------------------------------------------------------------------------
(* Updating                                                                *)

UpstreamMoves == \E a \in Apps, c \in Commits :
  /\ ops < MaxOps /\ up[a] # c
  /\ up' = [up EXCEPT ![a] = c] /\ ops' = ops + 1
  /\ UNCHANGED <<store, code, owner, resume, req, worker, spoiled, faults>>

(* Where the repo_path of a row leads; the checkout a path leads to: the   *)
(* one of whoever's directory has that name now.                           *)
Lost(a) == rows[a].root # Root
Path(a) == IF Lost(a) THEN None ELSE rows[a].path
Checkout(n) == IF n = None THEN None
               ELSE IF dir[Tmp][n] = None THEN None ELSE tree[dir[Tmp][n]]
At(a) == Checkout(Path(a))
Parses(c) == c # None /\ c \notin Broken
HasGit(n) == n # None /\ dir[Tmp][n] \notin Builtin \cup {None}

SetStatus(a, st) == IF Exists(a) THEN [rows EXCEPT ![a].status = st] ELSE rows

(* Without a repository an update is an error.                             *)
NoRepository == \E a \in Apps :
  /\ Ask /\ LoopFree /\ Exists(a) /\ ~HasGit(Path(a))
  /\ rows' = SetStatus(a, "error")
  /\ UNCHANGED <<dir, tree, up, code, owner, resume, req, worker, spoiled, faults>>

(* reload_app with update, or its re-entry from an OAuth flow: the row is  *)
(* read once, and the deployed commit remembered for the rollback.         *)
BeginUpdate == \E r \in Reqs, a \in Apps, approve, again \in BOOLEAN :
  /\ LoopFree /\ req[r] = Idle /\ Exists(a) /\ HasGit(Path(a))
  /\ IF again THEN a \in resume /\ resume' = resume \ {a} /\ ~approve /\ UNCHANGED ops
     ELSE Ask /\ UNCHANGED resume
  /\ req' = [req EXCEPT ![r] =
       [pc |-> "pull", app |-> a, approve |-> approve, again |-> again, retried |-> again,
        path |-> Path(a), man |-> rows[a].man, pre |-> At(a)]]
  /\ Spoil(Overlap(a))
  /\ UNCHANGED <<store, up, code, owner, worker, faults>>

(* After a failed pull: again with a token, off to the OAuth provider for  *)
(* one, or an error.                                                       *)
AfterFailure == {"retry", "oauth", "error"}

(* git_pull: it fails before the checkout, or works, or fails after it, in *)
(* the submodules.  A GitHub upstream is tried again with a token, when    *)
(* there is one; without one the owner is sent to the OAuth provider.      *)
Pull == \E r \in Reqs, outcome \in {"ok", "failed", "half"},
           then \in AfterFailure :
  /\ req[r].pc = "pull"
  /\ LET q == req[r]
         whose == dir[Tmp][q.path]
         moved == outcome # "failed" /\ HasGit(q.path)
     IN /\ outcome # "failed" => moved
        /\ IF outcome = "half" THEN Fault ELSE NoFault
        /\ tree' = IF moved THEN [tree EXCEPT ![whose] = Target(q.app)] ELSE tree
        /\ IF outcome = "ok"
           THEN /\ then = "error"
                /\ req' = [req EXCEPT ![r].pc = "gate"]
                /\ UNCHANGED <<rows, resume>>
           ELSE CASE then = "retry" -> /\ ~q.retried /\ req' = [req EXCEPT ![r].retried = TRUE]
                                       /\ UNCHANGED <<rows, resume>>
                  [] then = "oauth" -> /\ ~q.retried \/ (q.again /\ outcome = "failed")
                                       /\ req' = [req EXCEPT ![r] = Idle]
                                       /\ resume' = resume \cup {q.app} /\ UNCHANGED rows
                  [] then = "error" -> /\ req' = [req EXCEPT ![r] = Idle]
                                       /\ rows' = SetStatus(q.app, "error")
                                       /\ UNCHANGED resume
        /\ Spoil(IF outcome = "half" THEN {q.app} ELSE {})
  /\ UNCHANGED <<dir, up, code, owner, worker, ops>>

(* Permissions that were neither granted nor declared before.              *)
NewPerms(a, c, prev) == (Declares[c] \ Declares[prev]) \ grants[a]

(* Mutant: the old manifest is read after the pull, from the checkout.     *)
NeedsReviewOfItself(a, c, prev) == NewPerms(a, c, c) # {} \/ Maps[c] # Maps[c]

NeedsReview(a, c, prev) == NewPerms(a, c, prev) # {} \/ Maps[c] # Maps[prev]

(* _gate_update_review compares with the manifest the request began with;  *)
(* a manifest that does not parse is let through.                          *)
Gate == \E r \in Reqs :
  /\ req[r].pc = "gate"
  /\ LET q == req[r]
         c == Checkout(q.path)
     IN IF ~Parses(c) \/ ~NeedsReview(q.app, c, q.man)
        THEN req' = [req EXCEPT ![r].pc = "claim"] /\ UNCHANGED owner
        ELSE IF ~q.approve
        THEN req' = [req EXCEPT ![r].pc = "roll back"] /\ UNCHANGED owner
        ELSE /\ req' = [req EXCEPT ![r].pc = "claim"]
             /\ grants' = [grants EXCEPT ![q.app] = @ \cup NewPerms(q.app, c, q.man)]
             /\ accepted' = [accepted EXCEPT ![q.app] =
                  [perms |-> @.perms \cup Declares[c], maps |-> @.maps \cup {Maps[c]}]]
  /\ UNCHANGED <<store, up, code, resume, worker, spoiled, bounds>>

RollBackNothing == \E r \in Reqs :
  /\ req[r].pc = "roll back"
  /\ req' = [req EXCEPT ![r] = Idle]
  /\ UNCHANGED <<store, up, code, owner, resume, worker, spoiled, bounds>>

(* A refused update puts the checkout back, as well as it can.             *)
RollBack == \E r \in Reqs, works \in BOOLEAN :
  /\ req[r].pc = "roll back"
  /\ IF works THEN NoFault ELSE Fault
  /\ LET whose == dir[Tmp][req[r].path]
     IN tree' = IF works /\ HasGit(req[r].path) THEN [tree EXCEPT ![whose] = req[r].pre] ELSE tree
  /\ req' = [req EXCEPT ![r] = Idle]
  /\ Spoil(IF works THEN {} ELSE {req[r].app})
  /\ UNCHANGED <<rows, dir, up, code, owner, resume, worker, ops>>

(* The claim of a settled row, the stop of its container and the thread; a *)
(* re-entry from OAuth goes on whatever the row says.                      *)
StartWorker(a, path, again) ==
  IF Exists(a) /\ (again \/ Status(a) \notin {"building", "starting"})
  THEN /\ worker' = [worker EXCEPT ![a] =
                      [pc |-> "copy", path |-> path, img |-> None, loop |-> FALSE]]
       /\ code' = [code EXCEPT ![a] = None]
       /\ rows' = IF Status(a) \in {"building", "starting"} THEN rows
                  ELSE SetStatus(a, "building")
  ELSE UNCHANGED <<worker, code, rows>>

Claim == \E r \in Reqs :
  /\ req[r].pc = "claim" /\ LoopFree
  /\ StartWorker(req[r].app, req[r].path, req[r].again)
  /\ req' = [req EXCEPT ![r] = Idle]
  /\ UNCHANGED <<dir, tree, up, owner, resume, spoiled, bounds>>

(* A plain reload claims at once: it is not under review, because what is  *)
(* on disk is taken for what was accepted.                                 *)
PlainReload == \E a \in Apps :
  /\ Ask /\ LoopFree /\ Exists(a) /\ Status(a) \notin {"building", "starting"}
  /\ StartWorker(a, Path(a), FALSE)
  /\ Spoil(Overlap(a))
  /\ UNCHANGED <<dir, tree, up, owner, resume, req, faults>>

(* The mapped port after a sync: a kept one, a new one or none.            *)
HostPorts(a, c) == IF ~Maps[c] THEN {0}
                   ELSE IF rows[a].host # 0 THEN {rows[a].host}
                   ELSE Free(a) \ {rows[a].local}

(* reload_app_background copies a built-in app again from the apps         *)
(* directory, if that has it under its name.  A copy that breaks off       *)
(* leaves the old files or part of the new ones; one to a path that leads  *)
(* nowhere is out of the data directory and fails.                         *)
Recopy == \E a \in Apps, outcome \in {"none", "copied", "failed"} :
  /\ worker[a].pc = "copy"
  /\ LET n == worker[a].path
     IN /\ outcome # "none" => a \in Builtin /\ Exists(a) /\ ~HasGit(n)
        /\ outcome = "copied" => n # None
        /\ IF outcome = "failed" /\ n # None THEN Fault ELSE NoFault
        /\ IF outcome = "failed"
           THEN /\ worker' = [worker EXCEPT ![a] = Idle] /\ UNCHANGED dir
                /\ rows' = SetStatus(a, "error")
                /\ tree' \in {tree, IF n = None THEN tree ELSE [tree EXCEPT ![a] = up[a]]}
           ELSE /\ worker' = [worker EXCEPT ![a].pc = "sync"] /\ UNCHANGED rows
                /\ dir' = IF outcome = "copied" THEN MovedIn(n, a) ELSE dir
                /\ tree' = IF outcome = "copied" THEN [tree EXCEPT ![a] = up[a]] ELSE tree
  /\ UNCHANGED <<up, code, owner, resume, req, spoiled, ops>>

(* Then it reads the manifest again, with the ports it maps, in one write  *)
(* transaction, which it skips when the manifest does not parse, and       *)
(* launches what the row leads to, which fails then ...                    *)
Sync == \E a \in Apps :
  /\ worker[a].pc = "sync"
  /\ LET c == Checkout(worker[a].path)
     IN IF ~Exists(a)
        THEN worker' = [worker EXCEPT ![a] = Idle] /\ UNCHANGED rows
        ELSE IF Parses(c) /\ HostPorts(a, c) = {}
        THEN /\ rows' = SetStatus(a, "error")
             /\ worker' = [worker EXCEPT ![a] = Idle]
        ELSE \E p \in IF Parses(c) THEN HostPorts(a, c) ELSE {rows[a].host} :
             LET starts == Parses(At(a))
             IN /\ rows' = [rows EXCEPT ![a].man = IF Parses(c) THEN c ELSE @, ![a].host = p,
                                        ![a].status = IF starts THEN "starting" ELSE "error"]
                /\ worker' = [worker EXCEPT ![a] = IF starts THEN Launch(Path(a), FALSE) ELSE Idle]
  /\ UNCHANGED <<dir, tree, up, code, owner, resume, req, spoiled, bounds>>

(* ... builds what is on disk, whose manifest must parse ...               *)
Build == \E a \in Apps, works \in BOOLEAN :
  /\ worker[a].pc = "build"
  /\ IF works /\ Parses(Checkout(worker[a].path))
     THEN /\ worker' = [worker EXCEPT ![a].pc = "run", ![a].img = Checkout(worker[a].path)]
          /\ UNCHANGED rows
     ELSE worker' = [worker EXCEPT ![a] = Idle] /\ rows' = SetStatus(a, "error")
  /\ UNCHANGED <<dir, tree, up, code, owner, resume, req, spoiled, bounds>>

(* ... and runs it, creating directories for the name that miss.           *)
Run == \E a \in Apps, works \in BOOLEAN :
  /\ worker[a].pc = "run"
  /\ worker' = [worker EXCEPT ![a] = Idle]
  /\ IF works /\ Exists(a)
     THEN /\ code' = [code EXCEPT ![a] = worker[a].img]
          /\ rows' = SetStatus(a, "running")
          /\ dir' = Made(rows[a].name, a)
     ELSE /\ rows' = SetStatus(a, "error")
          /\ UNCHANGED <<code, dir>>
  /\ UNCHANGED <<tree, up, owner, resume, req, spoiled, bounds>>

---------------------------------------------------------------------------
(* Renaming and removing                                                   *)

(* rename_app stops the app and moves its directories, tier by tier ...    *)
BeginRename == \E r \in Reqs, a \in Apps, n \in Names :
  /\ Ask /\ LoopFree /\ req[r] = Idle
  /\ Exists(a) /\ rows[a].name # n /\ ~Taken(n)
  /\ code' = [code EXCEPT ![a] = None]
  /\ rows' = SetStatus(a, "stopped")
  /\ req' = [req EXCEPT ![r] = [pc |-> "move", app |-> a, from |-> rows[a].name, to |-> n,
                                was |-> rows[a].status, tier |-> 1, moved |-> {}]]
  /\ Spoil(Overlap(a) \cup (IF Wanted(n) = {} THEN {} ELSE Wanted(n) \cup {a}))
  /\ UNCHANGED <<dir, tree, up, owner, resume, worker, faults>>

Moved(t, from, to) == [dir EXCEPT ![t][to] = dir[t][from], ![t][from] = None]

(* ... skipping a tier where either name says there is nothing to do ...   *)
MoveTier == \E r \in Reqs, works \in BOOLEAN :
  /\ req[r].pc = "move"
  /\ LET q == req[r]
         t == q.tier
         movable == dir[t][q.from] # None /\ dir[t][q.to] = None
     IN /\ works \/ movable
        /\ IF works THEN NoFault ELSE Fault
        /\ dir' = IF works /\ movable THEN Moved(t, q.from, q.to) ELSE dir
        /\ req' = [req EXCEPT ![r] =
             IF ~works THEN [q EXCEPT !.pc = "undo"]
             ELSE [q EXCEPT !.moved = IF movable THEN @ \cup {t} ELSE @, !.tier = t + 1,
                            !.pc = IF t = Tiers THEN "name" ELSE "move"]]
        /\ Spoil(IF dir[t][q.from] # None /\ dir[t][q.to] # None THEN {q.app} ELSE {})
  /\ UNCHANGED <<rows, tree, up, code, owner, resume, worker, ops>>

UndoLast == \E r \in Reqs :
  /\ req[r].pc = "undo"
  /\ LET q == req[r]
     IN /\ rows' = SetStatus(q.app, q.was)
        /\ dir' = IF q.moved = {} THEN dir ELSE Moved(Max(q.moved), q.to, q.from)
  /\ req' = [req EXCEPT ![r] = Idle]
  /\ UNCHANGED <<tree, up, code, owner, resume, worker, spoiled, bounds>>

(* ... puts back the moved ones, last first, when one fails, and restores  *)
(* the status (not the container) ...                                      *)
Undo == \E r \in Reqs, works \in BOOLEAN :
  /\ req[r].pc = "undo"
  /\ LET q == req[r]
         t == Max(q.moved)
     IN IF q.moved = {}
        THEN /\ works /\ NoFault /\ UNCHANGED <<dir, spoiled>>
             /\ rows' = SetStatus(q.app, q.was)
             /\ req' = [req EXCEPT ![r] = Idle]
        ELSE /\ IF works THEN NoFault ELSE Fault
             /\ dir' = IF works THEN Moved(t, q.to, q.from) ELSE dir
             /\ req' = [req EXCEPT ![r].moved = @ \ {t}]
             /\ Spoil(IF works THEN {} ELSE {q.app})
             /\ UNCHANGED rows
  /\ UNCHANGED <<tree, up, code, owner, resume, worker, ops>>

GiveNameOnly == \E r \in Reqs :
  /\ req[r].pc = "name" /\ LoopFree
  /\ rows' = IF ~Exists(req[r].app) \/ Taken(req[r].to) THEN rows
             ELSE [rows EXCEPT ![req[r].app].name = req[r].to]
  /\ req' = [req EXCEPT ![r] = Idle]
  /\ UNCHANGED <<dir, tree, up, code, owner, resume, worker, spoiled, bounds>>

(* ... and at last the row, whose names are unique, with its path, where   *)
(* every component that is the old name becomes the new one, and starts    *)
(* the app if it was running.                                              *)
GiveName == \E r \in Reqs :
  /\ req[r].pc = "name" /\ LoopFree
  /\ LET q == req[r]
         renamed(x) == IF x = q.from THEN q.to ELSE x
         root == renamed(rows[q.app].root)
         path == renamed(rows[q.app].path)
     IN IF ~Exists(q.app) \/ Taken(q.to)
        THEN UNCHANGED <<rows, worker>>
        ELSE /\ rows' = [rows EXCEPT ![q.app].name = q.to, ![q.app].root = root, ![q.app].path = path,
                           ![q.app].status = IF q.was \in {"running", "starting", "building"}
                                             THEN "starting" ELSE @]
             /\ worker' = IF q.was \in {"running", "starting", "building"}
                          THEN [worker EXCEPT ![q.app] =
                                  Launch(IF root = Root THEN path ELSE None, TRUE)]
                          ELSE worker
  /\ req' = [req EXCEPT ![r] = Idle]
  /\ UNCHANGED <<dir, tree, up, code, owner, resume, spoiled, bounds>>

(* Claim and thread of a removal in one; kept data stays under the name.   *)
Remove == \E a \in Apps, keep \in BOOLEAN :
  /\ Ask /\ Exists(a)
  /\ rows' = [rows EXCEPT ![a] = None]
  /\ code' = [code EXCEPT ![a] = None]
  /\ dir' = Deprovisioned(rows[a].name, keep)
  /\ grants' = [grants EXCEPT ![a] = {}]
  /\ Spoil(Overlap(a))
  /\ UNCHANGED <<tree, up, accepted, resume, req, worker, faults>>

(* The router dies and starts again: handlers and threads are gone, rows   *)
(* under way are launched again from what is on disk.                      *)
Crash ==
  /\ Fault
  /\ req' = [r \in Reqs |-> Idle]
  /\ worker' = [a \in Apps |-> IF Status(a) \in {"building", "starting"}
                               THEN Launch(Path(a), FALSE) ELSE Idle]
  /\ rows' = [a \in Apps |-> IF Status(a) = "building" THEN [rows[a] EXCEPT !.status = "starting"]
                             ELSE rows[a]]
  /\ Spoil({req[r].app : r \in {q \in Reqs : req[q].pc \in
                                    {"gate", "roll back", "claim", "move", "undo", "name"}}}
           \cup {a \in Apps : worker[a].pc \in {"copy", "sync"}})
  /\ UNCHANGED <<dir, tree, up, code, owner, resume, ops>>

(* An app was installed and runs; what came before leaves no other trace.  *)
Init == \E a \in Apps, n \in Names :
  /\ rows = [b \in Apps |-> IF b # a THEN None
                            ELSE [name |-> n, status |-> "running", man |-> Base,
                                  local |-> Min(Ports), host |-> 0, root |-> Root, path |-> n]]
  /\ dir = [t \in 1..Tiers |-> [m \in Names |-> IF m = n THEN a ELSE None]]
  /\ tree = [b \in Apps |-> IF b = a THEN Base ELSE None]
  /\ code = tree
  /\ \E c \in Commits : up = [b \in Apps |-> c]
  /\ grants = [b \in Apps |-> {}]
  /\ accepted = [b \in Apps |-> IF b = a THEN [perms |-> Declares[Base], maps |-> {FALSE}]
                                 ELSE [perms |-> {}, maps |-> {}]]
  /\ resume = {}
  /\ req = [r \in Reqs |-> Idle] /\ worker = [b \in Apps |-> Idle]
  /\ spoiled = {}
  /\ ops = 0 /\ faults = 0

Next ==
  \/ Clone \/ AddApp \/ PickPorts \/ Insert
  \/ UpstreamMoves \/ NoRepository \/ BeginUpdate \/ Pull \/ Gate \/ RollBack \/ Claim
  \/ PlainReload \/ Recopy \/ Sync \/ Build \/ Run
  \/ BeginRename \/ MoveTier \/ Undo \/ GiveName
  \/ Remove \/ Crash

Spec == Init /\ [][Next]_vars

---------------------------------------------------------------------------
(* Properties                                                              *)

(* Types, and the unique names of the table.                               *)
TypeOK ==
  /\ \A a \in Apps : Exists(a) => rows[a] \in AppRow
  /\ \A a, b \in Apps : Exists(a) /\ Exists(b) /\ a # b => rows[a].name # rows[b].name
  /\ dir \in [1..Tiers -> [Names -> Apps \cup {None}]]
  /\ tree \in [Apps -> Commits \cup {None}] /\ code \in [Apps -> Commits \cup {None}]
  /\ up \in [Apps -> Commits] /\ grants \in [Apps -> SUBSET Perms]
  /\ accepted \in [Apps -> [perms : SUBSET Perms, maps : SUBSET BOOLEAN]]
  /\ resume \subseteq Apps /\ spoiled \subseteq Apps
  /\ ops \in 0..MaxOps /\ faults \in 0..MaxFaults
  /\ \A r \in Reqs : req[r].pc \in {"idle", "cloned", "pick", "insert", "pull", "gate", "roll back",
                                    "claim", "move", "undo", "name"}
  /\ \A a \in Apps : worker[a].pc \in {"idle", "copy", "sync", "build", "run"}

Accepted(a, c) == /\ Manifest(c).perms \subseteq accepted[a].perms
                  /\ Manifest(c).maps \in accepted[a].maps

(* _reload_app_impl: when nobody is at work on an app, its checkout is the *)
(* commit whose manifest its row holds, so that a plain reload introduces  *)
(* nothing; also after refused, failed and interrupted updates.  Otherwise *)
(* the last attempt ended in an error (which a rename turns into a stop),  *)
(* and the path is one a rename has led astray, or the app a built-in one, *)
(* or the checkout one whose manifest does not parse, or an accepted one   *)
(* that found no port to map.                                              *)
TreeInSync ==
  \A a \in Apps : Exists(a) /\ ~Busy(a) /\ a \notin spoiled =>
    \/ At(a) = rows[a].man
    \/ /\ Status(a) \in {"error", "stopped"}
       /\ \/ Lost(a) \/ a \in Builtin
          \/ At(a) # None /\ (At(a) \in Broken \/ Accepted(a, At(a)))

(* _gate_update_review: a container that was not copied from the router's  *)
(* apps runs only code whose permissions and settings the owner accepted,  *)
(* at the install or in a review.                                          *)
ReviewedOnly ==
  \A a \in Apps \ Builtin :
    Exists(a) /\ code[a] # None /\ a \notin spoiled => Accepted(a, code[a])

(* rename_app: when nobody is at work on an app, its directories carry the *)
(* name of its row in every tier, also when a move failed half-way.        *)
DataFollows ==
  \A a \in Apps : Exists(a) /\ ~Busy(a) /\ a \notin spoiled =>
    \A t \in 1..Tiers : dir[t][rows[a].name] = a
============================================================================
