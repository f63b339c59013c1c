---------------------------- MODULE SystemUpdate ----------------------------
(***************************************************************************)
(* Updating the host.  An update is started from the dashboard, by the     *)
(* daily schedule or from the command line; it runs as a transient systemd *)
(* unit (the walk) that stops the router, checks out one release after the *)
(* other, runs each one's migrations and installs its dependencies, and    *)
(* starts the router again.  Meanwhile a small server (the updater) holds  *)
(* ports 80 and 443, and all of them share the progress log that the page  *)
(* in the owner's browser polls.  Every process may be killed between any  *)
(* two of its steps; systemd is modelled from how the code uses it.        *)
(***************************************************************************)
EXTENDS Naturals

CONSTANTS
    Releases,       \* the newest release; a host is at one of 0..Releases
    UseCli,         \* whether updates are also started from the command line
    StopMayFail,    \* whether stopping the updater may fail
    MaxStarts,      \* bound: updates asked for
    MaxKill         \* bound: processes killed, reboots, and walks led astray

ASSUME ReleasesAssumption == Releases \in Nat
ASSUME SwitchesAssumption == UseCli \in BOOLEAN /\ StopMayFail \in BOOLEAN
ASSUME UpdateBoundsAssumption == MaxStarts \in Nat /\ MaxKill \in Nat

VARIABLES
    router,    \* openhost.service
    front,     \* who listens on 80 and 443
    updater,   \* openhost-updater.service
    walk,      \* openhost-apply.service
    tree,      \* the release checked out
    host,      \* the release up to which system migrations were applied
    env,       \* the release whose dependencies are installed
    log,       \* the last entry of the progress log
    job,       \* the dashboard's task, which holds apply_lock unless idle
    agent,     \* update apply of the system agent, by who called it
    nstarts,   \* updates asked for
    nkill,     \* processes killed
    lost,      \* history: a "walk" killed while the router was up, or "ports" that a
               \* failed stop left with the updater
    blind,     \* history: the last walk was told that no release is left when one was
    bare       \* history: the last Caddy ended by itself

ghosts == <<lost, blind, bare>>

vars == <<router, front, updater, walk, tree, host, env, log, job, agent,
          nstarts, nkill, ghosts>>

code == <<tree, host, env>>
page == <<front, updater>>
bounds == <<nstarts, nkill>>

-----------------------------------------------------------------------------
(* Types *)

\* The router is down, waits to be restarted after it died, boots (stop the
\* updater, start Caddy, read the log, append to it), or listens on 8080.
Booting == {"release", "caddy", "read", "done", "failed", "listen"}
RouterStates == {"off", "wait", "up"} \cup Booting

\* "changing" are the steps that touch the tree, the host or the environment.
Changing == {"checkout", "astray", "migrate", "install", "next"}
WalkStates == {"none", "fetch", "cover", "stop", "restarting", "start", "post"} \cup Changing

Callers == {"dashboard", "cli"}

LostOK == lost \subseteq {"walk", "ports"} /\ blind \in BOOLEAN /\ bare \in BOOLEAN

TypeOK ==
    /\ router \in RouterStates
    /\ front \in {"free", "caddy", "updater"}
    /\ updater \in {"off", "idle", "poised", "serving"}
    /\ walk \in WalkStates
    /\ tree \in 0..Releases /\ host \in 0..Releases /\ env \in 0..Releases
    /\ log \in {"empty", "walking", "restarting", "done", "failed"}
    /\ job \in {"idle", "status", "token", "agent", "monitor"}
    /\ agent \in [Callers -> {"idle", "check", "reset", "detach", "wait"}]
    /\ nstarts \in 0..MaxStarts /\ nkill \in 0..MaxKill
    /\ LostOK

\* Earlier updates, and the owner's own checkouts, may have left the host behind
\* or ahead of its code.
Init ==
    /\ router = "up" /\ front = "caddy" /\ updater = "off"
    /\ walk = "none"
    /\ tree \in 0..Releases /\ host \in 0..Releases /\ env \in 0..Releases
    /\ log \in {"empty", "failed"}
    /\ job = "idle" /\ agent = [c \in Callers |-> "idle"]
    /\ nstarts = 0 /\ nkill = 0
    /\ lost = {} /\ blind = FALSE /\ bare = FALSE

Terminal == log \in {"done", "failed"}
Running == walk # "none"          \* apply_is_running
Ready == router = "up"            \* 127.0.0.1:8080 answers

-----------------------------------------------------------------------------
(* update apply: start_apply of the system agent *)

agentElse == <<router, page, code, nkill, ghosts>>

\* An update in flight owns the log: refuse before resetting it.
Check(c) ==
    /\ agent[c] = "check"
    /\ agent' = [agent EXCEPT ![c] = IF Running THEN "idle" ELSE "reset"]
    /\ job' = IF c = "dashboard" /\ Running THEN "idle" ELSE job
    /\ UNCHANGED <<walk, log, nstarts, agentElse>>

Reset(c) ==
    /\ agent[c] = "reset"
    /\ log' = "empty"
    /\ agent' = [agent EXCEPT ![c] = "detach"]
    /\ UNCHANGED <<walk, job, nstarts, agentElse>>

\* detach_apply: systemd-run starts the unit, finds its name taken, or fails; one
\* that times out may have started it.
Detach(c) ==
    /\ agent[c] = "detach"
    /\ \/ /\ ~Running
          /\ walk' = "fetch"
          /\ agent' = [agent EXCEPT ![c] = IF c = "cli" THEN "wait" ELSE "idle"]
          /\ job' = IF c = "dashboard" THEN "monitor" ELSE job
          /\ UNCHANGED log
       \/ /\ Running
          /\ agent' = [agent EXCEPT ![c] = "idle"]
          /\ job' = IF c = "dashboard" THEN "idle" ELSE job
          /\ UNCHANGED <<walk, log>>
       \/ /\ log' = "failed"
          /\ agent' = [agent EXCEPT ![c] = "idle"]
          /\ job' = IF c = "dashboard" THEN "idle" ELSE job
          /\ UNCHANGED walk \/ (~Running /\ walk' = "fetch")
    /\ UNCHANGED <<nstarts, agentElse>>

\* --wait polls until the unit is gone; its exit code is left out.
Wait ==
    /\ agent["cli"] = "wait" /\ ~Running
    /\ agent' = [agent EXCEPT !["cli"] = "idle"]
    /\ UNCHANGED <<walk, log, job, nstarts, agentElse>>

AgentStep(c) == Check(c) \/ Reset(c) \/ Detach(c)

CallCli ==
    /\ UseCli /\ agent["cli"] = "idle" /\ nstarts < MaxStarts
    /\ agent' = [agent EXCEPT !["cli"] = "check"]
    /\ nstarts' = nstarts + 1
    /\ UNCHANGED <<walk, log, job, agentElse>>

-----------------------------------------------------------------------------
(* The dashboard: the Update button and the daily schedule *)

jobElse == <<router, page, walk, code, nkill, ghosts>>

\* The route and the scheduled run both refuse while apply_lock is held.
Click ==
    /\ Ready /\ job = "idle" /\ nstarts < MaxStarts
    /\ job' = "status"
    /\ nstarts' = nstarts + 1
    /\ UNCHANGED <<log, agent, jobElse>>

\* run_auto_update, once its checks say that there is something to do.
Schedule ==
    /\ Ready /\ job = "idle" /\ nstarts < MaxStarts
    /\ host < tree \/ (host = tree /\ tree # Releases)
    /\ job' = "agent" /\ agent' = [agent EXCEPT !["dashboard"] = "check"]
    /\ nstarts' = nstarts + 1
    /\ UNCHANGED <<log, jobElse>>

\* The migration status is read; an unreadable one, or a host that is ahead of
\* its code, releases the lock.
Status ==
    /\ job = "status"
    /\ \/ job' = "idle"
       \/ host <= tree /\ job' = "token"
    /\ UNCHANGED <<log, agent, nstarts, jobElse>>

\* persist_update_token: the agent's set-token resets the log, or fails.
Token ==
    /\ job = "token"
    /\ log' \in {log, "empty"}
    /\ job' = "agent" /\ agent' = [agent EXCEPT !["dashboard"] = "check"]
    /\ UNCHANGED <<nstarts, jobElse>>

\* _apply_finished: an inactive unit and a terminal log; then the lock is free.
Monitor ==
    /\ job = "monitor" /\ ~Running /\ Terminal
    /\ job' = "idle"
    /\ UNCHANGED <<log, agent, nstarts, jobElse>>

-----------------------------------------------------------------------------
(* The walk *)

walkElse == <<job, agent, bounds, ghosts>>

\* An exception is recorded, and the unit goes to its ExecStopPost.
Fail == walk' = "post" /\ log' = "failed"

\* apply_update's preflight: refuse a dirty tree, fetch, pick the first step.
Fetch ==
    /\ walk = "fetch"
    /\ \/ walk' = "cover" /\ log' = "walking"
       \/ Fail
    /\ UNCHANGED <<router, page, code, walkElse>>

\* stop_updater is best-effort.
StopUpdater ==
    \/ /\ updater' = "off" /\ front' = IF front = "updater" THEN "free" ELSE front
       /\ UNCHANGED lost
    \/ StopMayFail /\ lost' = lost \cup {"ports"} /\ UNCHANGED page

\* launch_updater stops a stale unit, starts a new one and never raises: the page
\* may simply not be there.
Cover ==
    /\ walk = "cover" /\ walk' = "stop"
    /\ \/ StopUpdater
       \/ /\ updater' = "idle" /\ front' = IF front = "updater" THEN "free" ELSE front
          /\ UNCHANGED lost
    /\ UNCHANGED <<router, code, log, job, agent, bounds, blind, bare>>

\* The router and its children die, with the agent it may be running.
StopRouter ==
    /\ router' = "off"
    /\ front' = IF front = "caddy" THEN "free" ELSE front
    /\ job' = "idle"
    /\ agent' = [agent EXCEPT !["dashboard"] = "idle"]

\* Mutant: a router that cannot be stopped is left running.
StopOrCarryOn ==
    /\ walk = "stop"
    /\ walk' = IF tree = Releases THEN "migrate" ELSE "checkout"
    /\ StopRouter \/ UNCHANGED <<router, front, job, agent>>
    /\ UNCHANGED <<updater, code, log, bounds, ghosts>>

\* Mutant: the walk checks out a next release also when there is none.
StopAndCheckout ==
    /\ walk = "stop" /\ walk' = "checkout"
    /\ StopRouter
    /\ UNCHANGED <<updater, code, log, bounds, ghosts>>

\* stop_openhost, or an error: then the updater is stopped again.
StopOpenhost ==
    /\ walk = "stop"
    /\ \/ /\ StopRouter
          /\ walk' = IF tree = Releases THEN "migrate" ELSE "checkout"
          /\ UNCHANGED <<updater, log, lost>>
       \/ Fail /\ StopUpdater /\ UNCHANGED <<router, job, agent>>
    /\ UNCHANGED <<code, bounds, blind, bare>>

\* git checkout and git clean of the next release, then exec of its own code.
Checkout ==
    /\ walk \in {"checkout", "astray"}
    /\ \E next \in IF walk = "checkout" THEN {tree + 1} ELSE 0..Releases :
          \/ tree' = next /\ walk' = "migrate" /\ log' = "walking"
          \/ tree' \in {tree, next} /\ Fail
    /\ UNCHANGED <<router, page, host, env, walkElse>>

\* apply_system_migrations of the release that is checked out, one migration at a
\* time; each success is recorded in the host's own migration log. A host that is
\* ahead of the code is refused.
Migrate ==
    /\ walk = "migrate"
    /\ \/ host < tree /\ host' = host + 1 /\ UNCHANGED <<walk, log, blind>>
       \/ /\ host = tree /\ walk' = "install" /\ log' = "walking" /\ blind' = FALSE
          /\ UNCHANGED host
       \/ Fail /\ UNCHANGED <<host, blind>>
    /\ UNCHANGED <<router, page, tree, env, job, agent, bounds, lost, bare>>

\* pixi install.
Install ==
    /\ walk = "install"
    /\ \/ env' = tree /\ walk' = "next" /\ UNCHANGED log
       \/ env' \in {env, tree} /\ Fail
    /\ UNCHANGED <<router, page, tree, host, walkElse>>

\* Mutant: the walk starts the router before the last release is reached.
AdvanceEarly ==
    /\ walk = "next"
    /\ walk' \in {"checkout", "restarting"} /\ (tree = Releases => walk' = "restarting")
    /\ UNCHANGED <<router, page, code, log, walkElse>>

\* _next_step of the release just installed reads a git command that fails as an
\* empty answer: no tags, hence no release left; or, when it is the one about
\* HEAD or the pin, another release than the next.
Advance ==
    /\ walk = "next"
    /\ \/ /\ walk' = IF tree = Releases THEN "restarting" ELSE "checkout"
          /\ UNCHANGED <<blind, nkill>>
       \/ walk' = "restarting" /\ blind' = (tree # Releases) /\ UNCHANGED nkill
       \/ nkill < MaxKill /\ nkill' = nkill + 1 /\ walk' = "astray" /\ UNCHANGED blind
    /\ UNCHANGED <<router, page, code, log, job, agent, nstarts, lost, bare>>

\* "restarting" is recorded before the router is started.
Restarting ==
    /\ walk = "restarting" /\ walk' = "start" /\ log' = "restarting"
    /\ UNCHANGED <<router, page, code, walkElse>>

\* start_openhost: systemctl restart, which may fail; or time out, with the
\* router on its way.
StartOpenhost ==
    /\ walk = "start"
    /\ \/ router' = "release" /\ walk' = "post" /\ UNCHANGED log
       \/ router' \in {router, "release"} /\ Fail
    /\ UNCHANGED <<page, code, walkElse>>

\* Mutant: the unit has no ExecStopPost.
JustEnd ==
    /\ walk = "post" /\ walk' = "none"
    /\ UNCHANGED <<router, page, code, log, walkElse>>

\* ExecStopPost: reset-failed and start, which does nothing to a live router.
ExecStopPost ==
    /\ walk = "post" /\ walk' = "none"
    /\ router' = IF router \in {"off", "wait"} THEN "release" ELSE router
    /\ UNCHANGED <<page, code, log, walkElse>>

WalkStep ==
    \/ Fetch \/ Cover \/ StopOpenhost \/ Checkout \/ Migrate \/ Install \/ Advance
    \/ Restarting \/ StartOpenhost \/ ExecStopPost

-----------------------------------------------------------------------------
(* The updater *)

updElse == <<router, walk, code, log, job, agent, bounds, ghosts>>

\* It binds only once it has seen the router down ...
SeeDowntime ==
    /\ updater = "idle" /\ ~Ready /\ updater' = "poised"
    /\ UNCHANGED <<front, updElse>>

Bind ==
    /\ updater = "poised" /\ front = "free"
    /\ updater' = "serving" /\ front' = "updater"
    /\ UNCHANGED updElse

\* ... and leaves when the router answers, after waiting in vain for the downtime
\* or for the ports, or when its hour is over.
GiveUp ==
    /\ updater # "off"
    /\ updater = "idle" => Ready
    /\ updater = "poised" => Ready \/ front = "caddy"
    /\ updater' = "off"
    /\ front' = IF updater = "serving" THEN "free" ELSE front
    /\ UNCHANGED updElse

UpdaterStep == SeeDowntime \/ Bind \/ GiveUp

-----------------------------------------------------------------------------
(* The router boots *)

bootElse == <<walk, code, job, agent, bounds, ghosts>>

\* Mutant: Caddy is left to win the ports by itself.
CaddyFirst ==
    /\ router = "release" /\ router' = "caddy"
    /\ UNCHANGED <<page, log, bootElse>>

\* The updater is stopped before Caddy starts.
ReleasePorts ==
    /\ router = "release" /\ router' = "caddy"
    /\ StopUpdater
    /\ UNCHANGED <<walk, code, log, job, agent, bounds, blind, bare>>

\* Caddy binds; or keeps trying for 90 seconds and is left dead, which is longer
\* than a walk that put a new updater there takes to stop this router; or exits
\* for another reason, and the router comes up without it.
StartCaddy ==
    /\ router = "caddy" /\ router' = "read"
    /\ \/ front = "free" /\ front' = "caddy" /\ bare' = FALSE
       \/ front = "updater" /\ walk \notin {"cover", "stop"} /\ bare' = FALSE /\ UNCHANGED front
       \/ bare' = TRUE /\ UNCHANGED front
    /\ UNCHANGED <<updater, log, walk, code, job, agent, bounds, lost, blind>>

\* Mutant: only a walk that got to the end is finalised.
ReadRestarting ==
    /\ router = "read"
    /\ router' = IF log = "restarting" THEN "done" ELSE "listen"
    /\ UNCHANGED <<page, log, bootElse>>

\* mark_boot_complete reads the log ...
ReadLog ==
    /\ router = "read"
    /\ router' = IF log = "restarting" THEN "done"
                 ELSE IF log = "walking" /\ ~Running THEN "failed" ELSE "listen"
    /\ UNCHANGED <<page, log, bootElse>>

\* ... and appends to it.
MarkBoot ==
    /\ router \in {"done", "failed"}
    /\ log' = router /\ router' = "listen"
    /\ UNCHANGED <<page, bootElse>>

Listen ==
    /\ router = "listen" /\ router' = "up"
    /\ UNCHANGED <<page, log, bootElse>>

AutoRestart ==
    /\ router = "wait" /\ router' = "release"
    /\ UNCHANGED <<page, log, bootElse>>

BootStep == ReleasePorts \/ StartCaddy \/ ReadLog \/ MarkBoot \/ Listen \/ AutoRestart

-----------------------------------------------------------------------------
(* Processes die *)

RouterDies ==
    /\ router \notin {"off", "wait"} /\ nkill < MaxKill
    /\ router' = "wait"
    /\ front' = IF front = "caddy" THEN "free" ELSE front
    /\ job' = "idle" /\ agent' = [agent EXCEPT !["dashboard"] = "idle"]
    /\ nkill' = nkill + 1
    /\ UNCHANGED <<updater, walk, code, log, nstarts, ghosts>>

\* Nobody watches Caddy: its end is logged.
CaddyDies ==
    /\ front = "caddy" /\ nkill < MaxKill
    /\ front' = "free" /\ bare' = TRUE
    /\ nkill' = nkill + 1
    /\ UNCHANGED <<router, updater, walk, code, log, job, agent, nstarts, lost, blind>>

\* OOM, SIGKILL, RuntimeMaxSec: nothing is recorded, ExecStopPost still runs.
WalkDies ==
    /\ walk \notin {"none", "post"} /\ nkill < MaxKill
    /\ walk' = "post"
    /\ lost' = IF router # "off" THEN lost \cup {"walk"} ELSE lost
    /\ nkill' = nkill + 1
    /\ UNCHANGED <<router, page, code, log, job, agent, nstarts, blind, bare>>

\* Restart=on-failure brings the updater back to its beginning.
UpdaterDies ==
    /\ updater # "off" /\ nkill < MaxKill
    /\ updater' = "idle" /\ front' = IF front = "updater" THEN "free" ELSE front
    /\ nkill' = nkill + 1
    /\ UNCHANGED <<router, walk, code, log, job, agent, nstarts, ghosts>>

\* Transient units do not survive; openhost.service is enabled.
Reboot ==
    /\ nkill < MaxKill
    /\ router' = "release" /\ front' = "free" /\ updater' = "off" /\ walk' = "none"
    /\ job' = "idle" /\ agent' = [c \in Callers |-> "idle"]
    /\ nkill' = nkill + 1
    /\ UNCHANGED <<code, log, nstarts, ghosts>>

-----------------------------------------------------------------------------

Next ==
    \/ \E c \in Callers : AgentStep(c)
    \/ Wait \/ CallCli
    \/ Click \/ Schedule \/ Status \/ Token \/ Monitor
    \/ WalkStep \/ UpdaterStep \/ BootStep
    \/ RouterDies \/ CaddyDies \/ WalkDies \/ UpdaterDies \/ Reboot

\* Processes that run go on: their commands have timeouts, and systemd runs
\* ExecStopPost and restarts.
Fairness ==
    /\ \A c \in Callers : WF_vars(AgentStep(c))
    /\ WF_vars(Wait) /\ WF_vars(Status \/ Token) /\ WF_vars(Monitor)
    /\ WF_vars(WalkStep) /\ WF_vars(UpdaterStep) /\ WF_vars(BootStep)

Spec == Init /\ [][Next]_vars
FairSpec == Spec /\ Fairness

-----------------------------------------------------------------------------
(* Properties *)

\* apply_update stops the router "before touching the working tree, so
\* migrations no longer race a live router": nobody, whatever is killed, brings
\* it up while the tree, the host or the environment changes.
Quiesced == walk \in Changing => router = "off"

\* The page reports "done" only when the host and the environment are those of the
\* code, also when several updates, kills and boots write to the log, and so does
\* "restarting"; and the code is the newest release, unless a git command failed as
\* the walk asked for the next one.
DoneIsComplete ==
    log \in {"done", "restarting"} => host = tree /\ env = tree /\ (tree = Releases \/ blind)

\* "however the walk ends, systemd still starts openhost, so no exit path can
\* leave the instance stopped".
BackInService == router # "up" ~> router = "up"

\* "Finalize the log on boot so the /updating page can never hang": a log that
\* is under way reaches an entry the page leaves on (it also leaves an empty one),
\* unless the walk is killed while the router is up, when nothing boots.
PageLeavesUnlessLost == log \in {"walking", "restarting"} ~> Terminal \/ log = "empty" \/ "walk" \in lost

\* "Release 80/443 from the detached updater [...] before Caddy binds, so Caddy
\* can't lose the handoff race": a router that stays up has its ports served (but
\* for a walk killed under a booting router, whose updater binds before Caddy, and
\* for a Caddy that ends by itself, which nobody starts again before the next boot).
FrontDoor ==
    router = "up" ~> front = "caddy" \/ router # "up" \/ lost # {} \/ bare
=============================================================================
