# TLA+ verification of AuroraBoot

AuroraBoot builds Kairos images, deploys them to machines over Redfish or
netboot, and manages the fleet of nodes that phone home afterwards.  This
directory models the fleet server, whose correctness depends on the order in
which concurrent requests, background goroutines, reconnecting agents and
restarts act on shared rows; the Redfish client, which drives machines through
BMCs that refuse, delay and forget; and the image builders, where concurrent
steps meet in shared directories and loop devices and every external tool may
fail.  TLC checks the models on small instances, and TLAPS proves every safety
property the passing runs check for all instances.

## 1. The system

One Go process serves a REST API and two WebSocket endpoints over one database
(SQLite or PostgreSQL through GORM).  Every request runs in a goroutine of its
own; long operations run in background goroutines.  They share the database rows
and a few in-memory maps.  There are almost no transactions: what keeps
goroutines apart is the *conditional UPDATE* (`... WHERE id = ? AND phase =
Pending`, RowsAffected = 1 means "I won").  Beside it the code uses the
*whole-row Save* (read a row, change a field, write every column back), which
respects nobody's conditional UPDATE.  Most of what is interesting here is where
the two meet.

| Component | State | Operations | Interacts with |
|---|---|---|---|
| Agent hub (`pkg/ws/hub.go`) | map node id -> connection, under a mutex | Register, Unregister, SendCommand, IsOnline | command push, decommission |
| Agent WebSocket (`pkg/ws/handler.go`) | a goroutine per connection | authenticate, register, send what is pending, read loop, deferred teardown | hub, command rows, node rows, eject trigger |
| Command queue (`pkg/handlers/commands.go`, `nodes.go`, store) | `node_commands` rows: phase, deadline | create (single, bulk, group), push, claim, poll, report status, admin status, delete | hub, agents |
| Node claims (`nodes.go`, `store.go`) | `managed_nodes`: group, claim key | claim, release, move, delete, heartbeat, labels | controllers (CAPI), agents |
| Deployments (`deploy.go`) | `deployments` rows; a goroutine per deployment | deploy, progress, complete, fail, arm the ejection, reconcile at start-up | BMC, ISO serving |
| Eject finalization (`finalize.go`) | `deployments.eject_state`, `.node_id` | phone-home finalize, manual finalize | BMC, node registration and heartbeats |
| Local builder (`internal/builder/auroraboot`) | in-memory builds, `artifact_records`, output directories | build, cancel, status | artifact API |
| Artifact API (`artifacts.go`) | the same rows and directories | create, upload, cancel, delete, clear failed, patch, reconcile | builders |
| Operator builder (`internal/builder/operator`) | OSArtifact resources and Secrets in a cluster, a watcher and a log streamer per build | build, watch, stream, cancel | artifact rows, uploads, cluster |
| Redfish client (`pkg/redfish`) | a BMC session, quirk profiles | connect, inspect, insert media, set boot, reset, poll task, eject, power-cycle | BMC, deployments, finalizers, CLI |
| BMC targets (`deploy.go`, `bmc_status.go`) | `bmc_targets` rows with a status cache; the refresh guard | create, update, delete, ping, inspect, refresh all | BMC |
| ISO serving (`pkg/isoserve`) and image source (`deploy.go`, settings) | token map, settings rows | register, serve, revoke, sweep; resolve the image URL | deployments |
| Netboot manager (`internal/netbootmgr`) | one child process and its status | start, stop, wait | netboot endpoints |
| Image pipeline (`deployer`, `pkg/ops`) | a graph of steps, the destination directory | prepare, copy config, dump, build, convert, inject, serve, clean | CLI, local builder |
| Raw disk, ISO and UKI builders (`pkg/ops`, `pkg/uki`) | temporary directories, loop devices, images | one straight sequence of tools each | pipeline, CLI |
| Key sets, auth, UI hub, routing | rows, files, nothing | single statements | |

What is hard, and what correctness means:

* **Command delivery.** Three paths hand the same row to an agent.  Deliver at
  most once; leave nothing behind on a connected node; never deliver a teardown
  to a node that comes back after its window; show only what the agent did;
  serve every pending command in the end.
* **Claims.** Callers race for the nodes of a pool and repeat calls that timed
  out.  A granted node stays with its key; a replay returns the same node; the
  node is from the pool.
* **Ejection.** Heartbeats of all nodes and operators race for one BMC, the
  server may stop in the middle.  One finalizer at a time; no row stuck; no
  foreign media ejected; ejected in the end.
* **Builds.** A build goroutine runs against cancel, delete, clear and restart.
  A finished or cancelled build stays so; a Ready one has its files; every build
  ends.  On the operator backend the same build is spread over a cluster, an
  upload endpoint and two goroutines: nothing is left in the cluster that no row
  shows, Ready means that all files arrived, the row and the upload token come to
  rest, the goroutines end.
* **Machines.** A BMC answers late, with tasks, or not at all, and somebody may
  use the power button meanwhile.  Sessions are returned, success means that the
  machine boots the installer or is rid of it, every operation with a deadline ends.
* **Services.** Whole-row Saves of BMC targets race admins; a token must live as
  long as the deployment it serves and no longer; a late goroutine of one netboot
  server must not hide the next.
* **Images.** What a build reports as made boots, resets, installs and carries
  the configuration it was given; tables match bytes; what it borrowed is given
  back whichever tool failed.

`PROJECT.json` lists every component with its status, and every hazard at the
line where it bites.

## 2. Modules

| Module | Models | Composes |
|---|---|---|
| `AgentHub` | the hub's map as a function and its four operations | |
| `CommandDelivery` | command rows, the creating handlers, connections, polls, agents, deletions | `AgentHub` |
| `NodeClaims` | claim requests, release, and every other writer of the rows | |
| `DeployEject` | deploy goroutines, finalizers, restart | |
| `LocalBuild` | a local build's row, map entry and directory, its goroutine, the artifact requests, restart | |
| `OperatorBuild` | a build on the cluster: CR, Secrets, row, watcher, streamer, exporter, uploads, admin requests, restart | |
| `BMCOperation` | abstract: what one operation on a BMC promises its caller | |
| `RedfishQuirks` | the client's decisions: profiles, registry, media candidates, reset types, task percentages | |
| `RedfishClient` | one machine, its BMC, and the client's operations on it | `RedfishQuirks`, refines `BMCOperation` |
| `BMCTargets` | target rows, checks of BMCs, the refresh guard | |
| `ImageServe` | where a deployment's ISO comes from, tokens, expiry, settings | |
| `NetbootManager` | the child process, its waiters, restart | |
| `ImagePipeline` | the graph of steps, its layers, the files the steps share | |
| `DiskFormats` | sizes, partition tables, Azure and GCE rules | |
| `RawDisk` | raw disk builds that share loop devices | `DiskFormats` |
| `IsoBuild`, `UkiBuild` | the ISO and the UKI build | |
| `MCServices` | `BMCTargets`, `ImageServe`, `NetbootManager`, one at a time | these |
| `MCImageBuilders` | the pipeline and the builders, one at a time | these |
| other `MC*` | small instances for TLC | |
| `ServicesProofs`, `ImageBuildersProofs` | theorems | `MCServices`, `MCImageBuilders` |
| other `*Proofs` | theorems | the module each is named after |

**Grain.** One step is one SQL statement, one operation on the hub, one
file-system operation or external tool, or one request to a BMC or the cluster
(in `DeployEject`, one BMC session).  SQL statements are atomic; a handler is the
sequence of its statements with a program counter per goroutine, so that any
other goroutine can act between two of them.  Errors (a locked database, a
cancelled request context) are separate actions where the code handles them.

**Data.** Ids are model values; a row is the columns the properties read.
Commands' arguments, results, messages, labels and OS data are left out.  A time
is modelled by what is compared with it: `expired` for `ExpiresAt`, `old` for
`CompletedAt` and the fallback window.  The empty string of the eject state
is `"unset"`.

**History variables** are marked in each module's VARIABLES; they record what
happened for the properties.  No guard of a code action reads one, except the
named bounds.

### CommandDelivery

`push[c]` is the goroutine that creates command `c` (`Create` for the three creating
handlers, which differ in how they choose nodes; `DecommissionCheck` and
`DecommissionCreate` for the teardown).  `PushIfOnline`, `PushClaim` and
`SendCommand` are `pushCommand`; Decommission joins it at the claim.  `serve[k]` is
a `HandleAgentWS` goroutine with its socket (`up`, `wire`); a socket may die
unnoticed (`Drop`) and the agent may reconnect before `Disconnect`.  `poll[p]` is a
`GetCommands` request.  Agents are external: they read what is sent, run it, and
report stages they entered, at any time, repeatedly (`ReportStatus`).  The nodes of
`Stranger` have no connection and only report, whatever they like, about commands of
others.  `UpdateStatus` is the admin's PUT, which accepts any phase; putting a row
back to Pending is counted and bounded by `MaxRequeues`. The node's Online/Offline
phase, written beside the hub, is not part of this model.

### NodeClaims

`Claim` to `LookupAgain` are the statements of `ClaimNode`.  The unique index on
(group, key) is `Duplicate`, which guards every write.  `ReadRow`/`SaveRow` are
`UpdateHeartbeat` and `SetLabels`: First, then a Save of all columns, which inserts
the row again when it was deleted.  `clobbered` marks rows saved from a copy that
was no longer current, `moved` nodes whose group an admin has changed. Node ids are
fresh UUIDs, so a deleted id is not registered again (`born`).

### DeployEject

`job[d]` is `runRedfishDeploy`: it reads the row into `copy[d]` and Saves it for
every progress report, at its end, and to arm the ejection.  `fin[f]` is a
finalizer: `PhoneHome` (list and correlate), `AutoClaim`, `AutoLink` for
`MaybeFinalizeForNode`; `FinalizeDeployment`, `ManualTry`, `ManualConflict` for the
operator; `EndSession`, `Mark`, `MarkRead`, `MarkSave`, `Timeout` for
`finalizeDeployment` and the functions that record the result.  `Restart` ends every
goroutine and applies `ReconcileOrphanedDeployments`, which may stop at a row it
cannot write: the server starts all the same, and the ejecting rows it did not get
to are `abandoned`.  BMC targets and their links are constants (`Link`, `Inline`):
an operator who re-links a BMC while a deployment is pending is not modelled.

### LocalBuild

`row`, `mem` and `dirs` are the three places that describe a build: the
`artifact_records` row, the entry of `Builder.builds`, the output directory.
`run[b]` is `Builder.run`: for each phase it sets the map entry (`SetPhase`),
reads the row (`ReadRow`) and Saves it (`SaveRow`); between phases it builds the
image (`Image`, which docker does under the build's context) and runs the
deployer (`DeployWrites`, `DeployEnds`, which do not look at the context).
`StepFails` is any of these failing.  `op[o]` is a request: `Create` to
`Reinsert`, `CancelRequest`, `DeleteRequest` to `Drop`, `ClearFailed` to
`ClearRows`, `Patch` and `PatchSave`.  `Builder.Cancel` keeps `Builder.mu` over its
two statements, so `mu` names its holder and `SetPhase` waits.
`ContextEnded` says which Save uses the build's context: only the one that
records Building.  `Restart` drops goroutines, requests and the map and applies
`ReconcileOrphanedArtifacts`.  Left out: `logs`, which are appended and never
rewritten, overlay directories and docker images, and the goroutine that a
cancelled UKI build leaves running.

### OperatorBuild

`create` is `ArtifactHandler.Create` with `Builder.Build` of the operator: Secrets
and CR, the two goroutines, the row, and the reaping of a CR whose row could not be
written.  A request to the cluster may be carried out and its answer lost:
`CreateCR` then fails with the CR in the cluster.  `watch` is `watchCRPhase` (read
the CR, write the phase, clear the token, cancel), `stream` is `streamPodLogs`,
`up[h]` a request to the upload endpoint (which reads the list of files before the
transfer and writes it after), `op[o]` an admin's Cancel, Delete, ClearFailed or
PATCH.  The cluster's operator, its garbage collection and the exporter Job, which
retries its uploads, are external.  `MaxFaults` bounds how many *kinds* of faults a
behaviour has; a kind may strike again and again.  `live` is the context the two
goroutines share, `active` the builder's entry that lets Cancel find it, `there` and
`onDisk` the build's directory and the files in it.  `lost` records faults and
writes that came to nothing; the properties name the ones they except.

### RedfishClient

A step is one request to the BMC with the code up to the next one.  `op` is the
operation under way (`deploy`, `finalize`, `cycle`, `inspect`, `probe`, and
`clideploy` of the command line), `pc` its next step.  The BMC refuses any request,
answers at once or with a task, hides a media collection from one discovery and
shows it to the next, and lets a graceful shutdown land late or never; a context may
end between any two requests.  `drive[i]` is what a drive holds.  An insert that the
BMC answers with a task leaves it `pulling`; `PullEnds` ends the fetch with the
image in the drive or without, at any time, and a boot from a drive that is still
pulling is not a boot from the image (`booted`).  The deploy goes on to the reset
meanwhile, and `pickTaskURI` polls the insert's task only when the reset has none
(`tasks` records which of the two had one).  `timed` says whether the operation's
context has a deadline (`Deadlines`): a deploy of the server, a finalize after a
phone-home and an eject of a saved BMC have one; the finalize of a deployment that
an operator asks for and an inspection have the bare request context, and the
command line's deploy one that never ends.  `Close` sends its logout under the
context the client was connected with, so once that has ended the session is lost. 
`RedfishQuirks` holds what is pure: which candidate (the first in the profile's
order of locations that takes a CD, else the first that does not say), which reset
type, which profile.  What a reset type does to a machine in either power state
(`Restarts`, `Starts`) is external.  `BMCOperation` says what a caller may rely on
(writes in the order of a plan, none twice, success only when the needed ones were
accepted); the client implements it (`KeepsPromise`), which is what lets
`DeployEject` take a session for one step.

### BMCTargets, ImageServe, NetbootManager

`work[w]` is a request on a target: it holds the copy it read until it Saves it;
a refresh holds the copies of one listing.  A target's configuration is a version
number, so that `newest` can say which write should stand.  In `ImageServe` a
deploy request resolves its image (`resolveOperatorImageURL`, `localServeEnabled`,
`Register`), creates its row and starts its goroutine, each a step, under a coarse
clock; a token past its expiry is refused by the handler whether or not the
sweeper has been there.  In `NetbootManager` a process ends when it likes and a
kill takes effect later; `waiter[p]` is the goroutine that waits for it.

### ImagePipeline and the builders

`RegisterAll` builds the graph the configuration asks for; `herd`, the library that
runs it, is external: layer by layer, the steps of a layer as concurrent goroutines,
a step whose dependency failed skipped and counted as failed, background steps (the
servers) waited for at the end.  A step that shares no file with its layer is one
action; raw disk builds and conversions, which do, are split.  `RawDisk`, `IsoBuild`
and `UkiBuild` are the steps' insides: a directory or image is the set of things in
it, every tool may fail, and the state keeps what is left on the machine.  Where a
file is found by its name, the name is kept: the loader that the firmware looks for
(`GetFallBackEfi` of a raw disk is amd64's for everything but arm64), the grub a
shim asks for, and `grub.efi`, which neither does.  The firmware of a board is
written piece by piece, each piece over the table or behind it, and a failure is
dropped and the disk converted all the same; a burn removes the old disc first and
leaves its checksum.  A MAAS conversion opens the raw disk and compresses it in a
later step, so that a VHD's footer can come between.  Sizes keep their arithmetic:
`DiskFormats` counts units of which a sector has `Sector`, so that small instances
meet every remainder. The configurations of the runs are the ones whose branches
differ.  The code accepts some that it cannot deliver ("Disagreements").  They are
explored too; the properties except them by name: `OneUseOfRaw` (GCE or MAAS with
VHD, an EFI with a BIOS disk on one `.raw`, separate partitions with MAAS) and
`NamedKairos` (an ISO prefix of one's own, a `kairos.iso` of an earlier build).

## 3. Runs

Passing runs:

| Run | Instance | Shows |
|---|---|---|
| `delivery_race` | 1 command, 2 connections, 2 polls, reports of 2 nodes, 1 requeue | `AtMostOnce`, `NothingStrandedWhileOnline`, `ReportedStageWasEntered` |
| `delivery_live` | 1 teardown with its deadline, 2 connections, 1 poll, fairness | `LateNodeSkipsTeardown`, `PendingIsServed` |
| `claims_pool` | 2 nodes, 1 group and none, 2 keys, 2 calls, 1 whole-row writer, moves and group deletion | `GrantIsHeld`, `OneNodePerKey` |
| `eject_safe` | 1 deployment, 2 nodes, 2 finalizers, 1 restart | `OneFinalizer`, `EjectingIsOwned` |
| `eject_live` | 1 deployment, 1 node, 1 finalizer, 1 restart, fairness | `PendingIsEjected` |
| `build_safe` | 1 build, 2 requests, 1 restart, fairness | `EarlyCancelSticks`, `InProgressIsDriven`, `ReadyHasOutput`, `BuildEnds` |
| `redfish_session` | 7 BMCs, 2 operations in a row, 1 use of the power button, fairness | `SessionsReturned`, `InstallBootStarted`, `FinalizeDelivers`, `ProgressInWindow`, `OperationEnds`, `KeepsPromise`, `TypeOK` |
| `operator_build` | 4 kinds of build, 2 files, 2 uploads, 1 admin request, 1 kind of fault, fairness | `CRIsAccountedFor`, `CancelSticks`, `ReadyIsComplete`, `BuildComesToRest`, `GoroutinesEnd`, `TypeOK` |
| `services` | 2 targets, 2 requests, 2 admin writes; 2 deployments, clock to 4; 3 netboot processes, fairness | `TargetsInOrder`, `TokenFollowsDeployment`, `RunningServerIsManaged`, `ServicesComeFree`, `TypeOK` |
| `image_builders` | 2 raw builds on 2 loop devices, and each branch of the ISO, UKI and pipeline configurations, fairness | `RawDiskIsRight`, `LoopDeviceIsMine`, `DiscIsRight`, `UkiIsRight`, `OutputsAreThisBuilds`, `CleansUp`, `BuildEnds`, `TypeOK` |

Several of these are conjunctions of named parts, each with its own comment:
`FinalizeDelivers` (`MediaOut`, `CycleLeavesItOn`), `CRIsAccountedFor`
(`SecretsMatchSpec`, `NoStrayCR`), `BuildComesToRest` (`BuildSettles`,
`TokenDies`), `TargetsInOrder` (`AdminEditStands`, `StatusComesFromChecks`,
`OneRefresh`), `TokenFollowsDeployment` (`NoStrayToken`, `ServedWhileDeploying`),
`ServicesComeFree` (`RefreshIsReleased`, `ExitIsNoticed`), `RawDiskIsRight`
(`TableMatches`, `BootsAndResets`, `CloudDiskIsValid`), `DiscIsRight`
(`DiscBootsEverywhere`, `LiveSystemCanInstall`, `ChecksumIsOfThisDisc`),
`UkiIsRight` (`InitramfsIsTheRootfs`, `EveryCmdlineBoots`),
`OutputsAreThisBuilds` (`DeliversWhatWasAsked`, `ConfigIsThisBuilds`,
`ServersServeThisBuild`), `CleansUp` (`LoopDeviceReturned`,
`WorkingDirsRemoved`, `NothingLeftBehind`).

Runs that exhibit a disagreement between the code and what the repository says
of it (each quoted under `findings`):

| Run | The code does |
|---|---|
| `delivery_online` | an old connection's Unregister takes a reconnected node offline |
| `claims_heartbeat` | a heartbeat's Save erases a claim; the node has two owners |

**What the properties leave out.**  A property that holds says so with the real
exceptions in it, each a named condition or a history variable.  What is left out is
not shown safe: most of it can go wrong, and the disagreements below and the notes
of the hazards in `PROJECT.json` say how.  They are: rows a stale whole-row Save has
written (`clobbered` in `GrantIsHeld`, `overruled` in `OneFinalizer`, a stale PATCH
in `InProgressIsDriven` and `BuildEnds`, straddled targets in `TargetsInOrder`);
nodes that were moved (`OneNodePerKey`); finalizes whose context ended or whose row
a failed reconciliation did not reach (`abandoned`); logouts that were not sent or
missed (`lost` in `SessionsReturned`); a deploy during which the power button was
used (`stale`), or whose image came with a task when the reset had one too
(`InstallBootStarted`); a discovery that missed a collection, an eject that overtook
the fetch, a power-off that was not seen to land (`partial`, `overtaken`, `~sure` in
`FinalizeDelivers`); a refused delete, a lost answer, a restart (`NoStrayCR`),
failed phase writes (`BuildComesToRest`), the list of files under overlapping
uploads (`ReadyIsComplete`); a device that a failed `kpartx -av` keeps (`CleansUp`);
boards whose firmware replaces the table and architectures without a loader
(`RawDiskIsRight`); the packaged `grub.efi` behind somebody else's shim, and what a
failed burn leaves (`DiscIsRight`); `OneUseOfRaw` and `NamedKairos`
(`OutputsAreThisBuilds`).

**Bounds.** Two contenders of a kind are the least that can race and, because all
contenders of a kind run the same code and meet in one row, the theorems below
confirm that more add nothing for the safety properties that are proved.  One
command, deployment or build is enough where rows do not influence each other;
two of something are used where they do (nodes of a pool, builds on one host's
loop devices, deployments in one token map, targets of one refresh).  Three
netboot processes let the waiters of two earlier ones meet a third.  Two BMC
operations in a row let the second find what the first left.  The seven BMCs differ
in where the drive hangs, what it advertises, how many systems there are, which
profile and login are used, and whether an eject works on a running machine.
`Sector = 2` and sizes around the limits of the formats meet every remainder and
every branch of the geometry.  Named bounds: `MaxRequeues`, `MaxRestarts`,
`MaxOps`, `MaxToggles`, `MaxRetries`, `MaxFaults`, `MaxEdits`, `MaxNow`.  A
connection is used once (`serve` ends in `closed`); a poll or finalizer slot is
used again and again.  Larger instances of `operator_build` were explored without
error: two admin requests at once (3.5 million states) and two kinds of faults in
one behaviour (4.2 million).  Symmetry is used over interchangeable connections,
polls, calls, nodes, keys and finalizers, in runs without liveness.
`CHECK_DEADLOCK FALSE` everywhere: when all connections are used up, all rows
deleted or the build has ended, a quiet system is not an error.

**Fairness.** `CommandDelivery`: a goroutine that has started takes its next step
(weak fairness; the Go scheduler), the agent polls on an interval and a claim that
is tried again and again does not fail each time (strong fairness on `PollStart` and
`PollClaim`).  Nothing is assumed of sockets, admins or deletions.  `DeployEject`: a
finalizer goes on and does not time out every time, the client of an operator's
finalize does not wait for ever for a BMC that does not answer (nothing else ends
that session), and the node keeps phoning home, since it triggers a finalize on
every registration and heartbeat.  `PendingIsEjected` excludes two cases that are
real, an abandoned row and an overruling Save (see below). `LocalBuild`: the
goroutine takes its next step, docker and the deployer end, a request that holds
`Builder.mu` goes on (weak fairness), and a goroutine that waits for the mutex gets
it although requests keep coming (strong fairness on `SetPhase`; Go's mutex hands
over to a waiter it would starve).  Nothing is assumed of requests, so a build ends
with nobody helping. `OperatorBuild`: the request that starts the build, the watcher
(a ticker) and a streamer that is cancelled or whose pod has ended go on; nothing is
assumed of the cluster, the uploads or the admin.  `RedfishClient`: nothing is
assumed of the BMC, which need not answer a request, since the HTTP client has no
timeout of its own (`Config.Timeout` and the command line's `--timeout` are read by
nobody).  A context with a deadline ends (`timed`); once a context has ended so does
the request, wait or poll under it; and steps that need no answer are taken
(`Local`).  `OperationEnds` promises an end to operations with a deadline only; the
others need not end (TLC shows it when the property is stated of every finalize).
`BMCTargets`: a refresh takes its next step, each ping has a deadline.
`NetbootManager`: the waiting goroutines are scheduled; nothing makes a process
end.  `ImagePipeline`: herd runs what it can and tools end.

**Mutants.** Every property of a passing run has a mutant of the model, an
operator defined just above the one it replaces and introduced by a comment
"Slip": the property fails when the code is changed in that way (a dropped
`phase = Pending`, a missing unique index, a reconciler that forgets the
ejecting rows, a token left behind by an error path, ...).

### Disagreements without a run

Met while modelling.  The properties above except what they concern.

*Rows and requests.*

* The UPDATE of `ClaimNode` matches `id = ? AND claim_key IS NULL` and not
  `group_id` (`store.go:371`), while `store.go:326` says it "atomically assigns one
  unclaimed node in groupID".  A `SetGroup` between snapshot and UPDATE makes the
  call return a node of another group, and a replay is then given a second node;
  `OneNodePerKey` holds only for nodes that were not moved.
* A teardown whose push failed after its claim is Delivered and never sent again
  (`nodes.go:352`).
* `correlateDeployment`'s single-pending fallback (`finalize.go:256`) does not
  look at whether the deployment's BMC target is linked to another node, while
  `finalize.go:186-187` speaks of never finalizing "a deployment a node is not
  legitimately correlated with".  `MaybeFinalizeForNode` stores the node of a
  guessed match in `Deployment.NodeID` (`finalize.go:207`), so after a restart
  the guess counts as a link outside the fallback window of `finalize.go:21-23`.
* `runRedfishDeploy` arms the ejection of a deployment with inline credentials
  (`deploy.go:523`); `finalize.go:101-102` says pending is only set "when a BMC is
  attached".  Its whole-row Save (`deploy.go:533`) can overrule a finalizer's
  compare-and-set; a finalizer whose context has expired cannot record its failure
  and leaves the row ejecting (`finalize.go:142`).
* `claimManualFinalize` tries its states one after the other and can answer 409
  for a row that was never ejecting, against `finalize.go:318-319`.
* `Delete` of a local build does not wait for its goroutine (`artifacts.go:795`):
  the deployer makes the directory again.
* A ping, inspection or refresh Saves a copy it read before it talked to the BMC:
  it brings a deleted target back, or reverts an edit.  `refresh-all` uses one
  5 s context for the check and for the Save (`bmc_status.go:85`), so a BMC that
  times out is never recorded as unreachable.  `BMCTarget.Password` is `json:"-"`
  (`store.go:358`), so the create and update endpoints never bind the password the
  UI sends, although `deployments.ts:131-133` says a blank one means "no change".
* The advertised URL setting is stored and shown while `isoserve` keeps the one it
  was launched with; the three writes of `UpdateImageSource` are not one
  transaction.
* A netboot child survives a restart of the server and nothing can stop it then
  (`orphans`).

*Machines.*  TLC refutes each of these claims in the present models, within two
operations of `RedfishClient`.

* `deploy.go:476-478` revokes the one-shot token when a deploy returns, because "The
  BMC has finished fetching the ISO by the time the deploy returns".  Deploy does
  not wait for the task of InsertMedia before the reset, and `pickTaskURI`
  (`deployer.go:394`) polls only the reset's task when both calls returned one: the
  deploy succeeds, and the URL is gone, while the BMC still fetches, and a fetch
  that fails afterwards is not noticed.
* `deployer.go:380-381` says "Reset with an explicit ResetType chosen from the
  current power state".  `reset` (`deployer.go:934`) uses the system fetched before
  discovery, insert and boot override; a machine switched on or off meanwhile gets a
  reset that starts nothing.
* `finalize.go:15` says "finalizeTimeout bounds a single eject/finalize session".
  `FinalizeDeployment` (`finalize.go:281`, `298`) passes the request's own context;
  `Config.Timeout` is read by nobody, so a BMC that never answers keeps the row
  ejecting until the client hangs up.

*Operator builds.*  The watcher starts before the row exists, so the first phases,
also a terminal one, update nothing and are remembered as written; a phase
write that fails is not retried.  A CR deleted by somebody else, and a Cancel
that finds no CR, leave the row Building.  Cancel of a Ready build makes it
Error; a Cancel whose delete fails has already stopped the watcher.  PATCH Saves
the whole row: it can revive a phase, a token or a deleted row.  `DeleteByPhase`
of ClearFailed can remove rows it did not list.  An upload's MkdirAll after
Delete's RemoveAll leaks a directory; overlapping uploads lose entries of the
list.  A restart marks the build Error while its CR goes on.  The custom
Dockerfile branch drops FIPS and TrustedBoot; a MAAS output is dropped silently.

*Image builders.*  `rawDiskGeneration.go:39` says that the images are "concatenated
together with a GPT partition table"; the firmware of odroid-c2 (line 1109) and
pinebookpro (lines 1121, 1126) is then written over the sectors of that table.
`iso.go:720` says of the name grub is copied to "Same name as the source, shim looks
for that name"; when no grub of the rootfs can be copied the packaged one is written
as `grub.efi` (line 747), also beside the rootfs's own shim, which does not look for
that. `FinalizeImage`'s error is dropped and Build returns nil, with part of a
board's firmware written.  A raw EFI disk of riscv64 gets the loader of amd64.  The
loop device leaks when `kpartx -av` fails, although the comment says that "the
deferred cleanup below detaches exactly that one"; after a refused unmount RemoveAll
empties the mounted recovery.  The raw disk steps read `config.yaml` without
depending on the step that writes it (the layers happen to order them).  EFI and
BIOS builds write the same `.raw`; GCE, VHD and MAAS conversions run at once on one
raw file; partitions with MAAS passes Validate and finds no raw.  An ISO name prefix
meets hard-coded kairos names; `getIsoFile` can pick an ISO of an earlier build; a
failed download leaves a partial one; a failed burn leaves the old checksum.
`createEFI`'s directory and a failed tar's `image.tar` stay.  On riscv64 the
fallback grub is not where `startup.nsh` looks, and the UKI's file list names
BOOTX64.EFI.  `PublicKeysDir` is optional in the documentation and its keys are
always listed; command lines may get the same name.  The fleet server's builder
never calls `CleanTmpDirs`.

## 4. Proofs

Every theorem holds for all values of the constants that satisfy the modules'
`ASSUME`s.  These say that constants have their types and that "none" values are
not real ones, and a few more things, each of which the code or its environment
gives: an operator build has a file to upload, there are finitely many targets, no
build is called "host" or "free", a sector is not empty and a megabyte is 2048 of
them, and the command lines of one UKI build get different names (when they do
not, one `.efi` replaces another; see "Disagreements").  A raw disk job is a
`RawImage`: only an EFI disk has separate partitions or a MAAS layout, and
separate partitions are not converted, as the constructors' callers and
`Validate` see to it.  A configuration is a `Config`: any combination of options,
except that `build-iso` always has a container image and a state directory and never
a disk, since it fills its configuration in itself.

*Commands.*

* **`AtMostOnceDelivery`** (`AtMostOnce`).  Not inductive: that the agent has
  received a command at most once says nothing of
  the copies under way.  `DeliveryInv` adds that the delivery of a command that
  was queued once is in one place: the Pending row, the pusher that won it, one
  connection's hand or wire, one poll's response, or the agent.
  Two lemmas carry most steps: a step that does not touch a command's
  places (`Untouched`), and one that only takes it out of some (`Withdrawn`).
* **`OnlineNodeIsServed`** (`NothingStrandedWhileOnline`) is the handshake between
  "insert, then look at the hub" and "register, then list".  `HandshakeInv` says
  that whatever is Pending for a node with a live hub entry is in somebody's hands:
  its creator has not looked yet or is about to claim it, or the registered
  connection has yet to list it or to work it off.  It needs `HubLeadsToPeer`: a hub
  entry leads to a connection of that node that is past authentication and open.
* **`LateConnectionsSkipTeardown`** (`LateNodeSkipsTeardown`): `LateInv` follows the
  expired teardown from the listing to the claim.  **`ReportsAreTrue`**
  (`ReportedStageWasEntered`) is inductive with the types.

*Claims and ejection.*

* **`GrantsAreHeld`** (`GrantIsHeld`) is inductive with the type invariant: each
  conditional UPDATE writes only rows whose key allows it, and a Save that
  changes the key marks the row.  **`ReplayReturnsTheSameNode`**
  (`OneNodePerKey`) needs `PoolInv`: candidates, copies and grants carry the
  group of the row as long as the node was not moved, and the index leaves a key
  one row per group.  It says nothing of moved nodes (section 3 shows why it
  cannot).
* **`FinalizersAreApart`** (`OneFinalizer`) and **`EjectingHasAnOwner`**
  (`EjectingIsOwned`) are the two halves of one inductive invariant, `EjectInv`:
  in-flight finalizers and ejecting rows correspond one to one, but for the
  abandoned and the overruled, and a finalizer
  about to Save holds a copy that says ejecting.  `SaveKeeps`, `ClaimKeeps`,
  `EndKeeps` and `QuietKeeps` treat the four kinds of change once each.

*Builds.*

* **`CancelledEarlyNeverReady`** (`EarlyCancelSticks`) needs `BuildInv`: one
  request starts a build (`StartInv`), a row or a PATCH's copy says Ready only
  once the goroutine has meant to (`OnlyBuiltIsReady`), and the context of a
  build cancelled early stays cancelled as long as its goroutine lives
  (`EarlyInv`).  **`InProgressRowsAreDriven`** (`InProgressIsDriven`) rests on
  `StartInv`.
* **`ReadyArtifactsKeepOutput`** (`ReadyHasOutput`).  The notion it turns on is
  `GivenUp`: a build that was asked away, or whose goroutine has ended or is about
  to fail without Ready.  Being given up is stable, and `DiscardInv` says that every
  row in Error, every build on a clean-up's list or in its hand, and every started
  build without a directory is given up.
* The operator backend has one inductive invariant, `OperatorInv` of fourteen
  named parts (**`OperatorInvariant`**), from which its four properties follow.
  **`NoCRIsLost`** (`CRIsAccountedFor`): a request that removes the row has deleted
  the CR, or failed to, and a request that made one without a row reaps it unless it
  never learned of it (`SecretInv`, `StrayInv`).  **`CancelsStick`**
  (`CancelSticks`): the watcher is stopped before the row is marked (`CancelInv`).
  **`ReadyBuildsAreComplete`** (`ReadyIsComplete`): the exporter has sent the files
  before the one it is at, what was sent is on the disk, and listed while uploads do
  not overlap (`ExportInv`, `DoneInv`, `DiskInv`, `ListInv`).
  **`BuildsComeToRest`** (`BuildComesToRest`): whoever stops the watcher has seen to
  the row, and it leaves a dead token (`WatchInv`, `ClearInv`, `TokenInv`,
  `SettleInv`).

*Machines.*

* **`SessionsAreReturned`** (`SessionsReturned`) counts: open sessions are the lost
  logouts plus the client's own, and each lost one belongs to another operation
  (`SessionInv`).  **`ProgressStaysInWindow`** (`ProgressInWindow`, an action
  property) follows from the percentage each step is reached with (`PercentInv`).
* **`InstallBootIsStarted`** (`InstallBootStarted`) and **`FinalizeDoesDeliver`**
  (`FinalizeDelivers`) rest on **`OperationInvariant`**: which writes the BMC has
  accepted at each step (`WriteInv`); that a machine seen off stays off unless
  somebody uses the button (`PowerInv`); and, in `MediaInv`, that every complete
  discovery chooses the same candidate, so that the image is in no other drive
  (`DeviceInv`, `DriveInv`, `EmptyInv`), that the reset of a deploy whose insert had
  no task finds the image in the drive (`StartInv`), and that one that waited for
  the insert's task has it there (`FetchInv`).  The proof showed that an earlier
  form of `InstallBootStarted` was wrong for a profile whose rule turns the reset
  into ForceOff, which the runs' profiles do not have: its hypothesis is now that
  the chosen reset type starts the machine.
* **`ClientKeepsPromise`** (`KeepsPromise`): the client refines `BMCOperation`.
  Each action maps to one write, one return or a stutter, by `WriteInv`
  and `PathInv`.

*Services.*

* **`NetbootIsManaged`** (`RunningServerIsManaged`) needs `NetbootInv`: the
  status is on exactly while there is an active command, and a waiter about to
  clear it has seen its process exit, so a late one finds another command.
* **`TokensFollowDeployments`** (`TokenFollowsDeployment`) needs `ServeInv`: a token
  whose deployment started in time expires no earlier than the deployment's context.
* **`TargetsStayInOrder`** (`TargetsInOrder`) needs `TargetInv`: no row and no copy
  in hand shows a status nobody measured, targets in either were created, and the
  refresh that runs holds the guard.

*Images* (each over `MCImageBuilders`, whose builders run one at a time).

* **`DiscsAreRight`** (`DiscIsRight`): `IsoInv` says, stage by stage, what is already
  where the firmware, the loader or the installer will look for it, under the name it
  looks for; the packaged `grub.efi` counts only where it is the loader itself.
* **`UkisAreRight`** (`UkiIsRight`) is about lists of command lines of any length:
  `EntryInv` says that the `.efi` files and menu entries made so far are exactly those
  of the entries behind `uki.next`, none of which replaced another; `SourceInv`
  what the steps have made of the rootfs; `OutputInv` that the output is
  all of them.
* **`LoopDevicesAreMine`** (`LoopDeviceIsMine`), for any number of builds and
  devices: a build knows which device it is attached to, and has no other unless it
  gave one up (`LoopInv`).
* **`RawDisksAreRight`** (`RawDiskIsRight`), for every size of rootfs, partitions
  and disk.  `BuildInv` says at each step which partitions there are (`PartInv`),
  what is in them (`ContentInv`), that the disk is their concatenation and its
  table theirs, once written and unless the board is one of `BoardsWithoutTable`
  (`TableInv`), and whether grub is in the boot sector
  (`GrubInv`).  A disk has three partitions or four; for each the recursive sums of
  the table and of the concatenation are unrolled, and compared as sectors,
  since every partition is a whole number of MB.  That the VHD geometry reaches no
  further than the disk and falls short of it by less than a cylinder is proved
  rule by rule, from bounds of the quotients (`CloudInv`).
* **`OutputsAreRight`** (`OutputsAreThisBuilds`), for every configuration.  The
  layers are the only recursive definition in it; they are shown to be an
  explicit level of each step (`LayersOf`), which is enough to see that a step
  starts after all it depends on and a raw disk step after the cloud config, which
  it does not depend on.  `GraphInv` says so of every step that has begun;
  `SourcesInv` what is then unpacked and copied, `ImageInv` which ISO is new and
  what is injected, `DisksInv` whose disk `kairos-<name>.raw` is while one step at a
  time uses it.  Each action is first taken apart into what it does to each part of
  the files (`Changes`), so that each invariant is shown once for each way its own
  part can change.
* **`BuildersCleanUp`** (`CleansUp`) combines `LoopInv`, the ISO and UKI builders'
  own invariants (`IsoTidy`, `UkiTidy`) and `CleanInv` of the pipeline: the rootfs
  is only unpacked where the clean-up removes it, and no step is under way once the
  errors are collected.

*Types.*  `TypeCorrect`, `ClaimsTypeCorrect`, `EjectTypeCorrect`,
`BuildTypeCorrect`, `ClientTypeCorrect`, `OperatorTypeCorrect`,
`ServicesTypeCorrect`, `BuildersTypeCorrect`.  The first four runs leave the type
invariant to the proof.

Only model-checked: liveness (`PendingIsServed`, `PendingIsEjected`, both
`BuildEnds`, `OperationEnds`, `GoroutinesEnd`, `ServicesComeFree`), which under
fairness is out of the prover's reach.

## 5. Not modelled

* Cloud-config merging, templates, Dockerfile composition: text processing.
* SecureBoot key sets: a straight sequence of external tools and one row.
* Authentication (its result is used), routing, wiring at start-up (the
  reconciliations are in the Restart actions), the client library, the UI and its
  hub, the Helm chart, generated API documentation: no state of their own that
  other parts depend on.
* Of the Redfish client, the rules for TLS and redirects and the parsing of
  profile files; of ISO serving, `ValidateMediaURL`, a pure check of a string and a
  DNS answer.
* The Online/Offline phase written beside the hub and the day-2 reset lifecycle
  (`resolveReset`, `AdvanceReset`): planned.
* BMC targets and their links are constants of `DeployEject`: an operator who
  re-links a BMC while a deployment is pending is not modelled.
* `Hub.SendCommand`'s lookup and write are one step: a socket that dies in between
  is the same as one that dies after the write.  `MarkDelivered`, `CancelRun` and
  `DeploymentDelete` have no callers.

## 6. Plan

1. `ResetLifecycle`: a reset command, the reboot, `resolveReset` on
   registration, `AdvanceReset`'s compare-and-set against heartbeats' Saves.
2. `AgentPresence`: hub, Online/Offline phase and deferred teardowns of
   overlapping connections, over `AgentHub`.
3. BMC targets as variables of `DeployEject`, through `BMCTargets`.
