# Verification of Cloud in a Bottle

TLA+ models of the parts of Cloud in a Bottle that are hard to test, TLC
configurations that check them on small instances, and proofs checked by TLAPS.
`PROJECT.json` is the index: which definition models which lines, which run
checks which property, and which hazard each property is for. Paths below are
relative to the repository; `CS` is `compute_space/src/compute_space` and `SA`
is `openhost_system_agent/src/openhost_system_agent`.

    tlc -workers 2 -config MCSystemUpdate_safe.cfg MCSystemUpdate
    tlapm SystemUpdateProofs.tla

## 1. Inventory

A machine runs one router (`compute_space`, a Litestar application under
`openhost.service`), which keeps an SQLite database, starts apps as rootless
podman containers, runs Caddy and CoreDNS as children, and calls a root helper
(`openhost_system_agent`) through sudo. Request handlers share one event loop;
deploys, reloads, removals, start-up recovery and the storage guard are daemon
threads; the archive mount, the update walk and the update page are systemd
units of their own, which outlive the router.

| Component | State | Operations | Hard behaviour |
| --- | --- | --- | --- |
| App lifecycle (`CS/core/apps.py`, `core/startup.py`, `web/routes/api/apps.py`) | rows of `apps`; podman containers and images by app name | install, stop, reload, update, remove, rename; recovery at start-up | threads and requests interleave between any two SQL statements; a crash leaves any intermediate row; podman commands fail after taking effect |
| Storage guard (`CS/core/storage.py`) | none; acts on rows it selected | stops apps when the disk is full | its SELECT is stale when it writes |
| Archive (`CS/core/archive_backend.py`) | row of `archive_backend`; the JuiceFS volume record; the live mount; the unit; objects in each store | configure (first configuration or migration), attach at start-up | seven external commands in a row, each may fail, hang or be followed by a crash; apps write meanwhile; the FUSE process restarts by itself |
| Operation locks (`CS/core/operation_locks.py`) | the lock, the shutdown flag | acquire, wait for operations | promotion, archive and shutdown wait for one another |
| Domains (`CS/core/domains.py`, `web/routes/api/domains.py`) | domain table, primary domain | add, remove, promote | five followers (DNS, mDNS, certificates, Caddy, rows of apps) change at other awaits; promotion runs in a thread and restarts the router |
| Source of apps (`CS/core/apps.py`, `git_ops.py`, `ports.py`) | checkout, manifest in the row, directories in every tier, ports | install, update, review, roll back, rename | git and disk work off the event loop; the checkout is shared by whoever builds |
| System update (`SA/update.py`, `apply_after_checkout.py`, `detach.py`) | the checkout, the host's migration version, the pixi environment; the unit `openhost-apply` | fetch, apply, `--wait`, set-remote, set-prereleases | dashboard, schedule and command line start it; it stops the process that asked for it; kill or reboot at any step; each step runs another release's code |
| Update page (`SA/updater/*`) | the progress log, the unit `openhost-updater`, ports 80/443 | launch, serve, stop, record, finalise | hand-over of the ports between Caddy and the updater; a log with many writers |
| Host migrations (`SA/migrations/runner.py`) | `migrations.jsonl` | apply pending migrations in order | failure or kill between two migrations |
| Auto-update (`CS/core/auto_update`) | schedule, last run, `apply_lock` | daily run | races the owner's button; due times across restarts |
| Database migrations (`CS/db/versioned`) | schema version | upgrade at start | crash half-way |
| TLS certificates (`CS/core/tls`) | certificates on disk, ACME or broker orders | acquire, renew | removal of a domain during acquisition; rate limits |
| DNS, mDNS (`CS/core/dns`, `core/mdns`) | record set, CoreDNS child, responder sockets | update, restart | reload while a challenge is pending |
| Caddy (`CS/core/caddy.py`) | configuration, child process | start, reload, cold restart, stop | bind conflicts; concurrent reloads |
| Authentication (`CS/core/auth`, `web/auth`) | sessions, API and app tokens | login, logout, sweep, authenticate | expiry compared at two resolutions; what browsers send and leave out |
| Services and permissions (`CS/core/service_interface`, `core/auth/permissions_v2.py`) | providers, defaults, grants | resolve, call, grant, revoke | providers come and go between resolution and delivery |
| OAuth provider (`apps/oauth_provider`) | flows in two dicts, stored tokens | authorise, poll, refresh, revoke | flows overlap; every request awaits several remote answers |
| First boot (`CS/core/first_boot.py`, `web/setup_app.py`, `web/start.py`) | owner row, claim token, seeds, process phase | seed, claim, hand over to the router | every boot seeds again; requests during and after a claim; deploys started by the setup server run on |
| Connect (`CS/core/connect.py`, `identity_store.py`) | the stored credential | connect, read | three commits |
| Default apps (`CS/core/default_apps.py`) | pending list | deploy, retry | retries across restarts |
| Streams (`CS/core/terminal.py`, `log_stream.py`) | subscribers, child processes | open, read, close | cancellation against the end of the process |
| Image pruner (`CS/core/image_pruner.py`) | podman images | prune, sweep | an image of an app installed again meanwhile |

`PROJECT.json` lists these and the remaining parts (pages, command lines, test
tooling, provisioning) with the reason why each is or is not modelled.

What makes each modelled component correct is stated with its module below.

## 2. Plan

Written, in this order: the four components whose failure costs most
(`AppLifecycle`, `ArchiveMigration`, `SystemUpdate`, `UpdateWalk`); what the
owner changes while the router serves (`DomainTable`, `Domains`, `AppSource`);
who may call what (`BrowserAuth`, `Services`, `OAuth`); and how a router gets to
serve at all (`Boot`). Two compositions are by shared modules: `Services`
extends `BrowserAuth`, and `Domains` is shown to implement `DomainTable`.
`SystemUpdate` counts releases on a line, and the walk of `UpdateWalk` is proved
to move along that line (`WalkRefinesLine`). The others share a boundary in prose: `Boot` ends where `AppLifecycle` begins (the
deploys of the setup server), and the archive operation of `Domains` is
`ArchiveMigration`.

Every safety property of the runs is a theorem (section 13). Theorems worth
proving next: which progress the liveness properties rest on, as far as it is not
a matter of fairness. A measure that each step of a worker decreases would be one.

Behaviour worth modelling next: the dispatch of the subdomain proxy with public
paths, the due times of automatic updates, subscribers
of log and terminal streams, the sweep of orphaned images.

## 3. AppLifecycle

Source: `CS/core/apps.py`, `core/startup.py`, `core/storage.py`,
`core/containers.py`, `web/routes/api/apps.py`, and the parts of
`web/setup_app.py` and `core/domains.py` that touch the same rows.

*State.* `row` is the `apps` table (status, container id and the four kinds of
error message the code distinguishes); `podman` and `image` are what podman has
under each app name; `thr` are the worker threads with their program counter;
`req` the requests and `loop` the one that holds the event loop; `grd` the
guard's pass; `proc` the phase of the process; `mine` the rows with
`created_at` after the process started; `snap` the rows `check_app_status`
selected.

*Actions.* One per SQL statement or podman command: `DeployCheck` to
`WriteFail` are `deploy_app_background`, `reload_app_background`,
`start_app_process`, `restart_app_process`, `_build_then_run_app` and
`run_app_image`; `RemoveRead` to `RemoveDelete` the removal; `AddApp`,
`StopApp`, `ReloadApp`, `PullDone`, `Claim`, `StopOld`, `RemoveApp`,
`PromoteDomain` the handlers, split at their awaits; `GuardSelect`,
`GuardStop`, `GuardWrite` the guard; `ScanSelect` and `CheckAppStatus`
start-up, the latter with the update of every scanned row as one transaction;
`Exit`, `Crash`, `Boot` the process.

*Properties.* `BusyHasOwner`: a row that says building or starting has somebody
who will settle it (otherwise reload answers "already reloading" for ever).
`SettledAgrees`: when nobody is at work on a name, table and podman agree.
`NoAppStranded`, `RemovalEnds`: the two liveness properties.

*Failures.* A build, a database write of a launch and a podman command may fail
at each step. `podman run` is given up after 60 s with the container started or
not; a container whose id nobody was told is `Untold`, which the next launch or
a stop by name ends. The error write of a launcher's outermost handler
(`LoseFail`), the one of a removal and the one of a removal that could not be
started may fail too: the thread ends and the row stays as it is. With
`StopMayFail` a stop of a container or the status write after it fails silently.

*What the history variables excuse.* Each names a window nothing in the code
closes. `overlap` holds the names on which a second actor started while one was
at work, or one ended half-way with the process. Such a name is left out of
`SettledAgrees` only until a launch that is on its own (`Undisturbed`) removes
whatever has the name and starts again (`PodmanRm`): from there on the row and
podman have to agree once more. `forgotten` excuses from `BusyHasOwner` and
`NoAppStranded` a row whose launcher could not write its error (or that a
recovery had not come to when it ended with that exception), and a deploy of the
setup server that ends between start-up's SELECT and its UPDATE and is marked
starting although nobody is left. `abandoned` excuses from `RemovalEnds` a
removal that ended with the router or whose error could not be written.

*Seen while modelling.* Start-up ignores rows in removing and every operation
refuses them, so a removal cut short by a restart is never finished
(`remove_app_background` says "the row never gets stuck in 'removing'"), and nor
is one whose handler cannot write its error, for which one full disk or locked
database is enough (`core/apps.py:1110`). Without the exception of `abandoned`
`RemovalEnds` is false, also without any crash. The error of one failed launch is written
twice, and the second write undoes the claim of a reload that came in between, so that two
reload workers may run ("only the first request flips the row").

*Left out.* set_remote, log files; rename, ports and the source tree are in
`AppSource`.

## 4. ArchiveMigration

Source: `CS/core/archive_backend.py` and its route. JuiceFS and systemd are
external and modelled from how the code uses them: the volume's record (`vol`)
says where new mounts read and write, a live FUSE process (`mnt`) keeps the
store it was started with, objects live under the volume's name in a store.

*Actions.* `Configure` (the request and its name check), `Format`,
`EnsureMounted`, `Quiesce`, `SyncStart` (lists the source), `SyncCopy` (one
object), `SyncEnd`, `Repoint`, `Umount`, `Remount`, `Flip`,
`Reclaim`, the handler `UndoPoint`, `UndoUmount`, `UndoMount`, and `Resume`;
each may fail, and a command that times out may have taken effect.
`Launch`, `Ready`, `StopApp`, `Write` are the apps; `FuseDown`, `FuseUp`
systemd's restarts; `Crash` and `AttachOnStartup` the router.

*Properties.* `ArchiveKept`: every file stays readable, whatever fails or dies.
`FailOpen`: a migration that ended leaves row and volume at one store.
`ReclaimedLast`: no object is deleted from a store that row, volume or mount
still names. Three windows are excused from `ArchiveKept` by history variables
(`raced`, `strayed`, `renamed`).

*Seen while modelling.* `raced`: quiescing stops the running archive apps; one
that is starting writes on, during the sync (which may take hours, and copies
what it listed; an object written later may be copied or not) or after it, and
what is not copied is lost, while a comment says that "no app may write into the
local store after we start syncing" (`core/archive_backend.py:1465`; `core/apps.py:679` skips what does not run): without the exception of `raced` `ArchiveKept` is false, also without any failure or crash. `renamed`: a volume with the legacy name is synced under the new name
("This rename is safe here"), which is not the prefix of its objects.
`strayed`: after a crash between re-point and flip the row says local while the
volume is in the bucket, and objects written then are left behind by a retry
that names another bucket (a retry to the same one finds them).

## 5. SystemUpdate

Source: `SA/update.py`, `apply_after_checkout.py`, `detach.py`,
`updater/*.py`, `migrations/runner.py`; `CS/core/system_agent`,
`core/auto_update/runner.py`, `web/routes/api/settings.py`, `web/start.py`,
`core/caddy.py`; `ansible/templates/openhost.service.j2`.

*State.* `router`, `walk` and `updater` are the three units, each with its
program counter; `front` who listens on 80/443; `tree`, `host` and `env` the
release that is checked out, migrated to and installed; `log` the last entry of
the progress log (the only one the code reads); `job` the dashboard's task,
which holds `apply_lock` unless it is idle; `agent` the `update apply` commands
in flight, one per caller.

*Actions.* `Check`, `Reset`, `Detach`, `Wait` are `start_apply`, three steps
because any other caller may come between them; `Click`, `Schedule`, `Status`,
`Token`, `Monitor` the dashboard; `Fetch` to `ExecStopPost` the walk;
`SeeDowntime`, `Bind`, `GiveUp` the updater; `ReleasePorts` to `Listen` the
router's boot, with `mark_boot_complete` split into its read and its append.
`RouterDies`, `CaddyDies`, `WalkDies`, `UpdaterDies`, `Reboot` kill a process
between any two steps. In `Advance` a git command may fail, which the walk reads
as no release left, or (a query about HEAD or the pin) as another release than
the next (`astray`). In `StartCaddy` Caddy may exit for a reason that is not a
bind conflict, and the router comes up without it. systemd is external: `Restart=on-failure`, a stop that cancels a pending
restart, ExecStopPost on every end of the walk's unit, a unit name as mutex.

*Abstractions.* The releases form a line 0..Releases (`UpdateWalk` covers the
choice of the next one; `WalkRefinesLine` proves that it goes along such a line),
and each has one system migration. `systemctl show`
answers (the code takes silence for "not running"). Writes of the progress log
succeed. The updater binds both ports or none.

*Properties.* `Quiesced`: the router is down while the walk changes tree, host
or environment. `DoneIsComplete`: only a host whose migrations and dependencies
are those of its code is reported done, and its code is the newest release unless
a failed git command told the walk so (`blind`).
`BackInService`, `PageLeavesUnlessLost`: the liveness properties. `FrontDoor`: a
router that is up has Caddy on its ports, unless Caddy ended by itself (`bare`:
nobody starts it again) or a stop of the updater failed; it is stated as a leads-to and holds
because of the order of the steps, without fairness (`PortsHandedOver`).

*Seen while modelling.* `_tag_list` answers an empty list when git fails: the walk
stops half-way with releases left and the next boot reports done: without the exception of
`blind` `DoneIsComplete` is false.
Not stated as properties: the log has more than one
owner: set-token (the Update button) and a caller that has passed the check may
blank it under a walk that the command line started; then the dashboard's
monitor, which waits for a terminal entry, keeps `apply_lock` until the router
restarts. A walk killed before it stops the router leaves the page polling and
`apply_lock` held until the next restart, although the boot finalises the log
"so the /updating page can never hang". `--wait` reports success for a walk that
was killed, which leaves no entry. And if the updater cannot be stopped (`StopMayFail`), nobody
serves 80 and 443: it leaves when 8080 answers, and 8080 answers after Caddy has
given up its 90 seconds of retries. `FrontDoor` excuses that behaviour, and a
walk killed under a booting router, through `lost`.

## 6. UpdateWalk

Source: `SA/update.py` 86-300 and 475-527, and the second copy of the same
functions in `apply_after_checkout.py` 77-198.

A pure algorithm inside a small state machine, for git commands that succeed (what
a failed one does to the walk is in `SystemUpdate`). `WalkInit` enumerates every history
of `N` commits (what each commit contains, merges included), every placement of up
to `K` version tags on it, which of them are release candidates, HEAD, the pin and
the opt-in. A tag is its rank under `_version_key`; `git merge-base --is-ancestor`
and `git tag --merged` look a commit up in `history`. `walker` is the walk's
process; `Step` is one turn of the walk; `SetRemote` and
`SetPrereleases` change the settings under it. `WellTagged` is the one
assumption on the repository: versions grow along the history, and tags on one
commit are a release and its candidates.

*Properties.* `WalkEnds`; `CheckAgrees` (`fetch_updates` and `_next_step`, two
independent functions, agree on whether there is an update); `NoStoneSkipped`
(no release on the way is passed over); `GoesForward` (towards a pin the walk
stays in the pin's history; without one a host on a candidate never goes back to
an older line's release).

## 7. Domains (and DomainTable)

Source: `CS/web/routes/api/domains.py`, `core/domains.py`,
`core/operation_locks.py`, `core/dns/coredns_provider`, `core/mdns`,
`core/tls`, `core/caddy.py`, and the parts of `web/start.py` and `web/app.py`
that boot and end the router.

*State.* `table`, `tls`, `primary` and `status` are the columns of the domains
table; `zones` and `served` the provider's set and what the CoreDNS child was
last started with; `mdns` the responder's names and socket; `cert` the pair of
files of a name; `caddyfile` and `caddy` the file and what the child loaded.
`zq` and `iq` are the two `asyncio` locks as queues (head: owner), `owner` and
`pending` the operation lock. `act` says where each request and the renewal
task is; `zone` is the primary this process booted with.

*Actions.* A step is what a coroutine does between two awaits. `AddDomain`,
`RemoveDomain` and `MakePrimary` begin the handlers; `ApplyZones`, `MdnsUpdate`,
`Mark`, `EnsureCert`, `Order`, `Issued`, `Refused` and the rest are the steps
after each await. `PromoteThread` runs in a worker thread and may come between
any two of them. `RenewCycle` and `NextAlias` are the renewal loop, `Boot*` the
start of the router (whose first certificate is asked for before Caddy), `Drain`
and `Exit` the graceful shutdown, `Signal` and `Crash` the other ends.
`ArchiveOperation` stands for the whole of `ArchiveMigration`: it holds the lock.

*Properties.* `TableRefines`: the table implements `DomainTable`, in which a
name is added once, the primary cannot be removed and only a name that is there
is promoted. `FollowersAgree`: the provider and CoreDNS (`DnsAgrees`), the
responder (`MdnsAgrees`) and Caddy (`CaddyAgrees`) agree with the table once
nobody is on the way to change them. `PromotedReady`: a restart under way never
meets a TLS primary without a certificate. `AcquiringEnds`,
`PrimaryTakesEffect`: liveness. `broken` records a child that failed, a
responder that was told of a name while it stopped, and a name that was removed
and added again while it was being promoted; the code does not repair these
before the next change or restart.

*Seen while modelling.* Certificate and key are two files: a crash between the
two writes leaves halves of two pairs (`cert = "torn"`), which
`get_cert_status` takes for a good one.

## 8. AppSource

Source: `CS/web/routes/api/apps.py`, `core/apps.py`, `core/git_ops.py`,
`core/ports.py`, `core/data.py`, `core/manifest.py`.

*State.* `rows` with the manifest's commit, the two kinds of port and what renames
have made of repo_path (`root` and `path`, below); `dir` says whose directory carries a name in each storage tier; `tree` which commit is
checked out; `code` which one the container runs; `grants`; `resume` the updates
that wait for the owner in an OAuth flow; `req` and `worker` who is at work.
A commit stands for its manifest: what it asks for (`Declares`) and whether it
maps a port (`Maps`), the two things a review looks at here; that of a commit in
`Broken` does not parse. `Builtin` apps are copies of the router's own, without a
.git; for these `up` is what the apps directory holds.

*Actions.* `Clone`, `AddApp`, `PickPorts`, `Insert` install; `BeginUpdate`,
`Pull`, `Gate`, `RollBack`, `Claim` update, `PlainReload` reloads; `Recopy`, `Sync`,
`Build`, `Run` are the worker, which copies a built-in app again first; `BeginRename`, `MoveTier`, `Undo`, `GiveName`
rename; `Remove`, `Crash`. The directory moves and git run in threads, so
handlers interleave there. `GiveName` rewrites every component of repo_path that is
the old name, as the REPLACE does: besides the app's own (`path`) one more component
can be a name (`Root`), and a path in which that one has changed leads nowhere
(`Lost`): updates and reloads of the app fail from then on.

*Properties.* `TreeInSync`: when nobody is at work on an app, its checkout is
the commit whose manifest its row holds, so that a plain reload, which is not
gated, introduces nothing. Otherwise the last attempt was an error (which a rename
turns into stopped), and the path is lost, the app a built-in one whose copy
failed, the commit one that does not parse, which the gate lets through, or one
the owner accepted and that found no port to map. `ReviewedOnly`: no container but
a built-in app's runs what the owner did not accept, the unparsable ones included. `DataFollows`: the directories carry the name of the row in every
tier. The history variable `spoiled` excuses apps that met an accident the code
does not cover: two actors on one app or name, a pull that failed after its
checkout, a failed rollback or undo, a directory in the way of a rename, a crash
between the steps of a handler. Each was found by TLC before it was excused, and
none is prevented by the code.

*Seen while modelling.* While an update waits between the pull and the review,
nothing marks the row: a plain reload claims it and builds the checkout that was
just pulled, and when the owner refuses, the rollback comes too late for the
container (a comment says that "a refused update leaves the app untouched").
A plain reload of a built-in app takes its source from the router's apps
directory once more, which after a router update is other code than the owner
reviewed (a comment says that a plain reload "can't introduce changes"); so
`ReviewedOnly` is about the others. A pull that fails after its checkout (submodules)
returns without the rollback that a refused review gets, and a crash between
pull and review leaves unreviewed source for the next plain reload. Two installs
of one name move their clones over one another before the unique name decides. A
failed rename restores the status it read, so a row says running whose container
it stopped. A rename skips a tier in which the new name exists. An install picks
a local port that a reload may map as a host port before it is inserted.

## 9. BrowserAuth and Services

Source: `CS/web/auth/auth.py`; `core/auth`, `core/service_interface`,
`web/routes/services_v2.py`, `web/helpers/proxy.py`, and the steps of
`core/apps.py` and `web/routes/api/apps.py` that write tokens, providers and
permissions.

`BrowserAuth` is a decision table without state: a request is described by what
happened (which page, what kind of load, TLS or not), the headers follow from
that, and the code sees the headers. What browsers send is external.

`Services` holds the sessions and the API key, the apps with their containers,
the token stored for each app and the one in its container, the providers, the
owner's defaults and grants, and the calls in flight. A call is resolved in
`Arrive` and delivered in `Send`, because its body is read in between; whoever
listens on the port then (`Listener`) gets it. Time is counted in half seconds,
because sessions are compared with microseconds, swept by whole seconds, and
apps dated by the second.

*Properties.* `SessionsLast`: a session lasts until its expiry or logout,
whatever logins sweep meanwhile. `TokenWorks`: the container of a running app
holds the token the router accepts. `RegisteredAsRun`: a running app is
registered for what its container was built from. `DeliveredAsResolved`: between
apps that are still installed a call reaches whom it was resolved for, with no
grant for anybody else (a removed app may be there because the provider was
removed and its port given away, or because the thread of an app removed earlier
starts its container late, on the port the two share). `DefaultStays`: no step
but the owner's own choice moves a service off an app that still provides it
(excused: two providers installed in one second, and an older app that starts to
provide the service). `OwnPagesOnly`: of all requests a
browser can make, the cookie serves the target's own pages, the owner's
navigations and the full-page navigations the route allows.

## 10. OAuth

Source: `apps/oauth_provider/src/oauth_provider`, with the router's grant table.

`pending` and `devs` are the two dicts of flows, `rows` the stored tokens, `req`
the requests that wait for credentials, an upstream provider or the router. An
action is what runs between two awaits; `Restart` loses dicts and requests.
The pages `/grant`, `/device` and `/callback` are public paths of the app
(`cloudinabottle.toml:11`): whoever opens one names the app and the scopes, and
for a device flow the account as well, and the code does not look at who it is.
Nor does the model: `OauthGrant` and `DevicePage` take any values, and
`consents` records that *somebody* approved upstream, as which account and in a
flow that named which app; `unnamed` are those whose identity call failed, so
that token and grant went under the account of the query. That the scopes the
callback is told are those the provider granted is assumed.

*Properties.* `GrantsConsented`: an app holds a grant only for scopes approved
in a flow that named that app, as the account of the grant. `AnswersConsented`:
an app that names an account gets a token of that account, with scopes approved
there in flows that named the app. Both except the approvals in `unnamed`, for
which the account of the query stands. Without that exception the second is what
the service's README says, and is false: a token whose identity call fails is
stored under the account that was asked for, whoever approved.

*Seen while modelling.* A request for the account "default" takes the first row
of any account. Two polls of one completed device flow both store the token, and
a revocation deletes one of the two rows; so does the next poll after the router
did not answer the grant call in time, because the exception skips the pop.
Flows that are abandoned stay in the dict until the restart, which loses all of
them.

## 11. Boot

Source: `CS/web/start.py`, `web/setup_app.py`, `web/app.py`,
`core/first_boot.py`, `core/default_apps.py`, `core/startup.py`,
`core/identity_store.py`, `core/connect.py`, `core/archive_backend.py`
(attachment of a new or taken-over volume), `db/versioned`.

*State.* What survives a process has a variable of its own: `db` (shape of the
tables and recorded version), `domains`, `users`, `tok` (claim token), `legacy`
(its file), `ident` (the credential's three parts), `arch`, `sentinel`
(default_apps.json), `apps`. `staged` is an open migration transaction, `flock`
the file lock, `pc` and `code` where each process is and which release it runs.
`disk` is the machine before its first start.

*Actions.* `TakeLock` to `Commit` and `RollBack` the migrations; `Seed*` and
`Reseed` first_boot.toml; `PostSetup` to `SetupEnds` the claim, whose handler
holds the event loop from the claim to the end of the default apps; `Attach`,
`Restore`, `Format`, `Formatted` the archive; `LoadSentinel`, `Retry` the default
apps at boot; `Exchange`, `StorePart` a connect; `Start`, `Stop`, `Crash` the
process.

*Properties.* `SchemaAgrees`: tables and recorded version belong together, and a
process that is past the migrations works on its own schema. `ClaimWorks`: a
space is claimed once (`ClaimedOnce`) and can be claimed as long as nobody owns
it (`Claimable`). `CredentialKept`: first_boot.toml never comes back over what
the owner connected. `ArchiveRestored`: a previous instance's archive survives
the first boots of the next. `DoneIsInstalled`: what default_apps.json calls done
was installed.

*Seen while modelling.* The claim is two commits: if `delete_setting` fails the
owner exists, the setup app stays up and the token works again (`stuck` excuses
it). An instance that asks for no token can be claimed twice at once. A
credential is three commits: a crash or an overlap mixes two (`torn` excuses it
until the next full write). `_local_volume_formatted` takes a database that is
locked for five seconds for an unformatted one; the model takes its answer to be
right. And the retry of default apps cannot succeed (run `retry`, below).

## 12. Runs

| Run | Bounds | Shows |
| --- | --- | --- |
| `races` | 2 ids of one name, 2 threads, 2 requests at a time, 3 requests, 3 container ids, 1 crash | `TypeOK`, `BusyHasOwner`, `SettledAgrees` |
| `live` | 1 app, 2 threads, 2 requests, 1 crash, stops that fail silently | `NoAppStranded`, `RemovalEnds` |
| `archive_kept` | 1 app, 2 objects, 2 buckets, 2 migrations, 1 crash, 1 FUSE death, every kind of zone | `TypeOK`, `ArchiveKept`, `FailOpen`, `ReclaimedLast` |
| `update_safe` | 2 releases, 2 updates asked for, 2 kills, command line, a stop of the updater that fails | `TypeOK`, `Quiesced`, `DoneIsComplete`, `BackInService`, `PageLeavesUnlessLost`, `FrontDoor` |
| `walk` | 4 commits, 3 tags, 1 change of settings | `CheckAgrees`, `WalkEnds`, `NoStoneSkipped`, `GoesForward` |
| `domains` | 3 names (one .local), 2 requests at a time, 3 requests, 1 order per acquisition, 1 crash or signal | `FollowersAgree`, `PromotedReady`, `TableRefines` |
| `domains_live` | 2 names, 2 requests in turn, 2 orders, 1 ageing certificate, 1 crash or signal | `AcquiringEnds`, `PrimaryTakesEffect` |
| `services` | 2 app ids, 2 names, 3 manifests (one provides nothing), 2 sessions, 1 call, 3 operations, 2 ticks, 1 crash | `SessionsLast`, `TokenWorks`, `RegisteredAsRun`, `DeliveredAsResolved`, `DefaultStays`, `OwnPagesOnly` |
| `sources` | a git app and a built-in one, a path with one of 3 names in it, 3 commits (one does not parse), 2 ports, 3 tiers, 2 requests at a time, 3 operations, 1 failure or crash | `TreeInSync`, `ReviewedOnly`, `DataFollows` |
| `consent` | 2 apps and the router, 2 accounts, 2 requests at a time, 3 operations, 1 device flow, 2 rows, 1 failure or restart | `GrantsConsented`, `AnswersConsented` |
| `boots` | 6 kinds of disk, 2 processes, 3 starts, 2 versions, 2 claims, 2 connects, 1 default app, 1 crash, 1 failure | `SchemaAgrees`, `ClaimWorks`, `CredentialKept`, `ArchiveRestored`, `DoneIsInstalled` |
| `retry` | the same | refutes `RetriesInstall` (finding) |

The type invariants of the other modules are theorems (section 13), and no run
checks them once more.

*Why the bounds are enough.* A race in `AppLifecycle` is between two writers of
one row, and a third request is what makes a stale writer meet a new claim;
three container ids give each of them one and leave one for the recovery. Two
migrations are needed for a retry after a crash, and two buckets for a retry
elsewhere. Two releases make the walk take a first step (`update.py`) and a
later one (`apply_after_checkout.py`). Four commits hold two lines of three and
two commits, and three tags a release, its successor and a candidate or hotfix.
In `Domains` two requests race for a lock and a third comes from another browser
tab while one of them waits; three names are the primary, one to promote and one
that is .local. In `Services` two apps are a provider and its rival or consumer,
and three operations install both and let one of them change; the clock reaches
the end of a session and the second after it. In `AppSource` three operations
are an update and two that overlap with it, or an install, a rename and an
update; three tiers let a move fail after one success and be undone; the third
name lets a rename follow a failed update while another app is at work. In `OAuth`
three requests are two flows and a request, refresh or revocation that overlaps.
In `Boot` three starts are the first boot, one after a crash, and one of another
release beside it.
Deadlock checking is off where the bound on requests and crashes makes every
behaviour end; it is on in `UpdateWalk`.

*Symmetry.* Threads, request slots and container ids (`AppLifecycle`), objects
and buckets (`ArchiveMigration`), request slots (`Domains`), names and sessions
(`Services`; not the app ids, which are ordered), requests and the names but `Root`
(`AppSource`), apps, accounts and requests (`OAuth`), processes, requests, names and
connects (`Boot`) are interchangeable; no run with a liveness property uses
symmetry.

*Fairness.* `AppLifecycle`: every thread, request and start-up step goes on
(podman commands return: the one loop without a timeout is listed as a hazard),
and the service manager restarts the router (`Restart=on-failure`, exit code
42). `SystemUpdate`: the walk's commands have timeouts and the unit has
`RuntimeMaxSec`; systemd runs ExecStopPost and restarts; the monitor polls. The
start limit of five starts in thirty minutes is above the number of kills.
`UpdateWalk`: every git command has a timeout. `Domains`: coroutines and threads
go on (each await has a timeout or a peer in the same process), the archive
operation ends, systemd starts the router again, and an authority that the
renewal loop or the boot asks again and again issues in the end (strong
fairness, because between two attempts it may not be asked). Nothing else is
fair: neither requests, nor kills, nor changes of settings.

### What the refuted run shows

It is quoted in `PROJECT.json` under `findings`, with the line that says
otherwise. `retry`: the retry of failed default apps opens its connection
without a row factory, and the code it calls reads rows by column name; the
TypeError counts as the app's failure, so that no retry ever installs anything
and the attempts are used up. Where else the code falls short of what a comment
says of it, a history variable names the window, the property excepts exactly
that, and "Seen while modelling" in the section of the module says what happens.

## 13. Proofs

Everything below is proved for every value of the constants, from the named
assumptions of the component's module (and `Settles` from one more). Besides
types and distinct values for `None` and the like these say: there is an attempt to make (`MaxAttempts`), a
token can be stored (`MaxRows`), a version exists (`MaxVersion`), the app ids
and ports are finite sets of numbers, there are two storage tiers, and the
commit an app starts from maps no port.

Each module proves an inductive invariant (`AppLifecycleProofs` two, one on top of
the other), a conjunction of named parts, by one lemma per action, and reads the
properties off it.

**AppLifecycleProofs.** `TypeCorrect` and `BusyOwned` (`BusyHasOwner`), for any
sets of apps, names, threads, requests and container ids. `BusyHasOwner` is not
inductive. `IInv` adds the shape of a thread's record at each of its steps (a
launcher has an app, an idle slot is empty), so that a thread counted as owner
really goes on to a final write; extends the claim back to the setup server's
phase, where during start-up's scan a row selected from the previous process is
a second reason to be busy; and says that a booted process has created no row
before the scan and that recovery threads exist only after it. The proof has
one step per action; most actions fall under one of a few lemmas (a thread
continues with its app, a thread ends, a row gets a final status, a row is
claimed with a new owner).

`Settles` is `SettledAgrees`, again for all values of the constants but one: a
stop and the status write after it have to succeed (`StopMayFail = FALSE`, as in
the run `races`). The code swallows the failure of a stop and clears the container id all the same,
so without this a live container may be left that no row records, or a row goes on
saying running after a stop that failed half-way (TLC refutes each half of the
property with `StopMayFail = TRUE`). The property is about names at which nobody
is at work; its strengthening `AgreeInv` is about what happens before. A name that no two actors overlapped on has one actor at a
time, be it a thread, a recovery list, a request or the guard's pass (`Alone`),
and `Held` says what that actor has established at each of its steps
(`Established`, `Holds`): that a live container is the recorded one, that the
thread has in hand the id the row is about to get, that nothing is alive. When
it leaves, its app is at rest (`AtRest`), and so the next one that finds nobody
there may start from that. A step of an actor is proved once for its own name,
by what it leads to (`Outcome`, `RequestOutcome`, `StartOutcome`), and leaves
every other name alone (`LeavesAlone`). What an overlap left behind ends with the `PodmanRm` of a
launch that is on its own (`Heals`): it leaves nothing under the name, and the
launch holds what any launch holds at that step (`RmInv`: it has no container id
to keep). A reboot kills containers whose rows say
running; `Due` excuses these rows until the scan has looked at them, except one
that a thread of the setup server wrote after the SELECT: it lives already.

`RemovalHasWorker` is the safety half of `RemovalEnds`. A row gets to removing in
the statement that starts its worker, the worker keeps the app until the row is
gone or says error, every other step writes another status, and a worker that
dies with the router or cannot write its error leaves its app in `abandoned`, as
does a removal whose worker could not be started (`RemovalOwned`).

**ArchiveMigrationProofs.** `ArchiveTypeCorrect`, `ArchiveSafe`
(`ArchiveKept`), `FailsOpen` (`FailOpen`) and `SourceReclaimedLast`
(`ReclaimedLast`, an action property). The invariant says what the worker has
established at each step (`Worker`), that from the listing of the sync on its
prefix is the volume's (`Named`), that the row's store holds every unexcused
object, that the sync lists them all and that past it the target has them too
(`Held`), and that row and volume agree except
between re-point and flip (`Pointed`). `Held` is the argument: at each moment
two stores have everything, or the row, the volume and the mount all name the
one that has.

**SystemUpdateProofs.** `UpdateTypeCorrect`, `RouterIsQuiesced` (`Quiesced`),
`DoneMeansComplete` (`DoneIsComplete`). The strengthening `Established` says
what the walk has reached at each point (a next release exists when it checks
one out; migrations are applied when it installs; all is complete when it
records "restarting", but for the release it was not told of), and that a router
about to append "done" has read "restarting". Completeness is stable: on a complete host the walk has nothing to
change. Three more invariants lie on top of it. `DownIsOwned`: a router that is
down is being booted or restarted, or a walk that has not reached its
ExecStopPost will start it (`StoppedRouterHasAWalk`, the safety half of
`BackInService`). `DoorHeld`: from the release of the ports in a boot on, Caddy
has them, an updater was lost or Caddy ended by itself (`PortsHandedOver`, which
is `FrontDoor`).
`LogIsFollowed`: a log under way has a walk about or a boot before it that will
finalise it (`NothingUnderWayIsLeft`, the safety half of `PageLeavesUnlessLost`).

The same module holds the theorems of `UpdateWalk`, for every history, placement
of tags, pin and change of the settings: `WalkTypeCorrect`, `CheckAgreesWithWalk`
(`CheckAgrees`), `WalkGoesForward` (`GoesForward`), `WalkSkipsNoStone`
(`NoStoneSkipped`) and two that no run states, `WalkAlwaysAdvances` and
`WalkRefinesLine`. A walk only reads the repository, so the invariant is that it
is well tagged (`RepositoryOK`), and the argument is about one step. Because
versions grow along the history, the tag that describes HEAD is the highest it
contains (`BaseIsHighest`), and checking out a tag above it raises it, by as much
as the highest tag on that commit (`BaseRises`). So each step raises the base or
is the last one, onto the pin (`WalkAdvances`, the safety half of `WalkEnds`: with
the settings left alone there are at most `K` + 1 steps); the tags it jumps over
share a commit with the one it lands on; and the commits with a release tag are a
line, of which the walk reaches the next one at each step and the last before it
ends (`WalksTheLine`). That is the line 0..Releases of `SystemUpdate`.

**BootProofs.** `BootTypeCorrect` and the five properties of the run `boots`.
The invariant is one conjunct per part of a start, preserved by itself but for
the schema's, on which the others lean. `SchemaInv`: one process is past the
migrations, the lock is held by whoever is in them, and the open transaction is
the holder's, of the right shape for its step. `ClaimInv`: a handler past the
check holds the event loop, and the token is there until an owner is, which
gives both halves of `ClaimWorks`. `CredInv`: a seed from first_boot.toml runs
only while nothing was stored, and the parts are whole unless `torn`. `ArchInv`:
what a process knows of the bucket at each step of the attachment. `AppsInv`:
what is called done was installed.

**DomainsProofs.** `DomainsTypeCorrect`, `FollowersFollow` (`FollowersAgree`),
`OnlyReadyPromoted` (`PromotedReady`), and the refinement `TableImplements`:
`Spec` implies `DomainTable`'s specification under the mapping of
`Domains` (`INSTANCE ... WITH`), initial states to initial states and every step
to a step or a stutter. The followers are the hard part: the two locks are FIFO
queues, so the invariant says who may be in them (`QueueOK`), that a name which
differs between table and zone file has a request waiting (`ZonesFollow`,
`ServedFollow`, `Responds`), and that somebody owes Caddy a reload while its
file or what it has loaded differs (`FileWritten`, `FileLoaded`). `Promotable`
says why a check made several awaits ago still holds: the promotion owns the
operation lock from its check on, and whoever could spoil the certificate
needs it. Two theorems are safety halves of the liveness properties:
`AcquiringHasOwner` (a name in acquiring has the request that added it or the
renewal loop, which the boot begins because such a name is always a TLS name) and
`PromotionRestarts` (a new primary has somebody to restart the router).

**OAuthProofs.** `OAuthTypeCorrect`, `OnlyConsentedGranted`
(`GrantsConsented`), `OnlyConsentedAnswered` (`AnswersConsented`). Every flow,
device flow, stored row, waiting request and grant is tied to an element of
`consents`, and a grant whose account was not named to one of `unnamed`
(`PendingOK`, `DevsOK`, `RowsOK`, `ReqsOK`, `GrantsOK`); a request
that waits for a refresh holds a snapshot of a row that may be gone, which is
why ids are never reused and the snapshot is related to the consents and not to
the table. The row with the smallest id exists because the order of the natural
numbers is well-founded.

**ServicesProofs.** `ServicesTypeCorrect` and the six properties of the run
`services`, two of them action properties. What the worker of an app has done
determines what its container must carry (`Deployed`): after it has minted a
token the container is the old one, and fits again when the worker runs it. An
app id is never reused, installed apps have ports of their own, tokens are
minted once for each operation or crash (which is why `Generations` is large
enough). `DefaultStays` needs that the oldest provider serves (`OldestServes`).

**AppSourceProofs.** `SourceTypeCorrect`, `TreeAlwaysInSync` (`TreeInSync`),
`OnlyReviewedRuns` (`ReviewedOnly`), `DataAlwaysFollows` (`DataFollows`). A name
is claimed by the app whose row has it and by whoever is at work under it; two
apps with a claim on one name are both spoiled (`ClaimsOK`). An actor writes only
what belongs to its app or is under a name its app claims (`ByApp`), so what
holds of an app that is not spoiled is changed by its own actors only, and it
has one at a time (`AloneOK`). It remains, for each operation, what that actor
has established at each step (`OwnedOK`, `ReqOK`, `WorkerOK`, `RestOK`): what is
checked out is accepted, or cannot be launched, or belongs to a built-in app
(`Known`), and a thread that runs has a path that leads somewhere. A crash
is the one step of no actor and is proved for all apps at once.

*What the proofs corrected.* Three properties held on the instances that TLC had
checked and are false in general; each attempt to prove one ended in a state that
a larger instance then reached. `DeliveredAsResolved`: a thread of a removed app
may start its container after the port was given to another app.
`DefaultStays`: an older app that starts to provide a service takes it over
(the old manifests all provided something from the start, hence `Bare`).
`TreeInSync`: a rename turns the error of a failed update into stopped (it takes
a third name). Each is restated as the code has it, and the instances
grew so that the case happens.

*What stays with TLC.* Liveness, because it rests on fairness. What each of these
properties needs in every state, somebody who will do what is still to be done, is
a theorem:

| Checked by TLC | Proved for it |
| --- | --- |
| `NoAppStranded` | `BusyOwned` |
| `RemovalEnds` | `RemovalHasWorker` |
| `BackInService` | `StoppedRouterHasAWalk` |
| `PageLeavesUnlessLost` | `NothingUnderWayIsLeft` |
| `WalkEnds` | `WalkAlwaysAdvances` |
| `AcquiringEnds` | `AcquiringHasOwner` |
| `PrimaryTakesEffect` | `PromotionRestarts` |

## 14. Not modelled

The components marked `not_modelled` in `PROJECT.json`, and inside the modelled
ones: formatting, logging, page contents, the dispatch of the subdomain proxy,
the contents of manifests beyond what a review looks at, images, wall-clock time (the order of events is
kept, durations are not, except where a comment in the module says which of two
waits is longer), the start limit of `openhost.service`, and the failure of
writes to the progress log.
