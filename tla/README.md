# TLA+ models of Harbor DB

Harbor DB keeps the storage authority of a NixOS host: which PostgreSQL
cluster is the primary, who may write to it, how it is upgraded, backed up,
fenced and handed over to another generation or backend. Almost all of that
is command line tools that run to completion, may be killed at any
instruction, and find out on their next run what the previous one left on
disk. These models are about exactly that: what every prefix of every
operation leaves, and what everybody else may do meanwhile.

Paths below are relative to the repository's root (`src/storage/...`); the
files PROJECT.json names have the same paths below the directory `src/`.

## Inventory

| Part | State it keeps | Operations | What is hard | What makes it correct |
|---|---|---|---|---|
| Durable publication (`durable.rs`) | one directory per file set | replace, unlink, flush, flock leases inherited by children | a rename before its flush may or may not survive a power loss, and the next process sees it either way | what is acknowledged is on disk |
| Primary authority (`postgres.rs`, `pg_core.rs`) | `identity.json`, `previous-identity.json`, `upgrade.json`, cluster trees, lease | adopt, adopt-live, check, serve, upgrade | an upgrade of hours interrupted anywhere; children that outlive it; unguarded starts | no acknowledged save is lost; one process on a cluster; a ready upgrade is publishable |
| Writer fence (`writer_fence.rs`) | `writer-fence.json`, `writer-fences/<token>`, `postgresql.auto.conf` | fence-open, fence-close, inspections, startup | selector, marker and receipt are separate publications | whoever starts the primary while a fence is promised gets the fence; the thaw restores the original |
| Startup inhibition (`startup_inhibition.rs`) | drop-ins, `inhibited.json`, what systemd loaded | inhibit-startup, release-startup | several units, a reload, release only at a fence boundary | no inhibited unit starts |
| Rollout coordinator (`postgres_rollout.rs`) | `rollout.json`, pause marker, import slot, evidence | fence, prepare, import, next, abort, thaw, archive | a kill between any side effect and its journaling; other coordinators; timers; a lost journal; reboots | nothing acquired or stopped is forgotten; phases only inside the window; unwinding always ends |
| Rollout transport (`postgres_rollout_transport.rs`) | a transient unit | run the hand-off hook | its timeout racing its answer | only the printed receipt is imported |
| Physical backups (`pg_backup.rs`, `backup.rs`, `backup/pins.rs`) | base trees, WAL, `.gap` marker, `BASE_FLOOR`, epoch, `LAST_SUCCESS`, pins | finalize, mark/clear gap, prune, health | receiver, finalizer and retention run concurrently under different locks | a loss of WAL stays marked until a later base is complete; what is restorable is kept |
| Source-local captures (`recovery_capture.rs`, `recovery_repository.rs`) | pins, inventories, carriers, `SELECTED`, tombstones | finalize, select, retire | retries under a frozen target; interrupted retirement | the selected generation is complete and immutable |
| Recovery acceptance (`recovery.rs`) | snapshot, receipts | record, certify, inspect | evidence that ages and is re-made | acceptance binds fence, snapshot and an independent executor |
| Application transition (`application_transition.rs`, `transition_manifest.rs`) | `transition.json`, barriers, start policy, authority identity, custody | plan, prepare, bind, commit, enable-writes, complete, abort, retire | publication of four files in turn; point of no return; reboots into either generation | writers of one backend only; abort restores; release completes |
| Resource authority (`resource.rs`) | `identity.json`, directory anchors, consumer leases | adopt, serve, check | checks made before a lease is held for a lifetime | consumers run on the adopted storage only |
| Application captures (`application_backup.rs`, `application_publication.rs`, `application_retention.rs`) | attempts, intents, sealed trees, `LAST_SUCCESS` | capture, certify, prune | interrupted attempts moved aside and cleaned by the retry | a published capture is complete and never overwritten |
| Cutover and custody (`cutover.rs`, `custody.rs`) | the custody receipt; identity and anchors, if certification is first to adopt | certify, check (preflight, activate), serve | files, rows, evidence and configuration change while they are read; adoption and certification race | an admission passes only what a certification compared with a restore, and what the database asks for |
| Collation repair, provisioning, rehearsal, drills | a progress file; SQL; disposable clusters | rebuild, reconcile, rehearse, restore | interruption between rebuild and refresh | drift stays visible until repaired |
| Migration planner (`planner/`) | none | run a plan in dependency order | admission of the whole closure before the first command | no command of an inadmissible plan runs |
| Test supervisor and catalog (`testing/`) | a run directory of receipts | worker, observe, cancel, verify, watch | a worker lost at any point, observers racing its last receipts | executed at most once; no false verdict |
| Command line tools, NixOS modules, the Python predecessor | | | | not modelled: thin layers over the above, or retained test evidence |

They interact through the file system (one component's publication is
another's input), through `flock` leases whose descriptors children inherit,
through systemd (conditions, `daemon-reload`, propagation of stops) and by
calling each other's command line verbs: the rollout coordinator drives the
inhibition and the fence; a transition borrows the fence; recovery evidence
binds the fence's token; captures hold the fence's lease.

## Modules

### DurableDir

A directory as a record `[now, may]`: the image every process sees and the
set of images a power loss may leave. `Changed` is a rename or unlink,
`Synced` the flush of `durable.rs`, `AfterLoss` the power loss. The other
modules keep one such record per directory whose flush is separate.

### PrimaryAuthority

`state` and `parent` are the two directories, `stage[n]`, `madeUnder[n]`,
`synced` and `saves[c]` what the n-th tree is and holds. `command` is the one
invocation that holds the exclusive lease, `upgrader` its child, `server` the
postmaster. Every rename, flush, journal write and spawned child of `adopt`
and `upgrade` is an action (`KeepStaging` ... `PublishUnlink`, the order of
`postgres.rs:366-659`); `Serve` has the guarded start of `serve`,
`LegacyServe` a start that never asks Harbor. `OpKill`, `ServerKill` and
`PowerLoss` may come between any two of them. `PolicyChange` is a new
configuration or tool that appears while an upgrade runs; it never brings an
earlier one back, since the code compares the contract at its two ends only
and a policy that changes and changes back in between passes. A validator or
a child may fail (`WorkerFail`). Left out: `adopt_live`, and the built-in
validation with its record of the copy (`postgres.rs:189-272`), whose servers
run inside the two jobs and whose report nothing else reads.

### WriterFence

`gate`, `barrier[u]` and `loaded` are the inhibition, `state`, `data`,
`original`, `made` and `receipts` the fence. `fence` and `root` are the two
operators' invocations, each with a program counter that follows the code's
publications. `promised` and `acked` remember what was acknowledged. A record
`[base, hba, mark]` stands for `postgresql.auto.conf`; `AlterSystem` rewrites
it without the comment, as PostgreSQL does. A kill may come between a rename
and the flush of its directory. What is then seen and not on disk is accepted
by the next invocation, of fence-open (`writer_fence.rs:325-355`) as of
inhibit-startup (`startup_inhibition.rs:322-329`): `left` remembers these
directories, and `undone` that a power loss took such a change back. Assumed,
as README.md:309-317 prescribes: fence verbs run while an acknowledged
inhibition is in force.

### Rollout

`journal` is `rollout.json`, `op` the killable memory of the invocation that
holds `rollout.lock`. A program counter names each side effect and each save
in the order of the code, so that a kill falls between them. The verbs of
the authority are atomic here; the steps inside them are WriterFence's.
Beside the invocation run: the preparation worker (survives a kill of the
coordinator), unit starts that fail, publishers behind the pause marker,
timers, operators who activate or roll back generations, reboots, and another
coordinator that opens and closes a fence of its own. `adopted` remembers the
fences a candidate's records were adopted under, `forgotten` those of them
whose journal was lost since; `Thaws` is any step that gives such a fence's
primary back to writers while a candidate is installed.

Held while no invocation runs (the execution lock they share): the foreign
coordinator's verbs, activation, and the loss of the journal. Left out:
manifest validation and live inspections that only refuse, the transport
hook (it may put a receipt in the slot), certification itself, archive names.
One step stands for several where nothing else can tell: the loop that pauses
and stops the publishers with a save per unit (`postgres_rollout.rs:1716-1728`),
and snapshot and preparation.json, published one after the other
(`recovery.rs:1576-1579`).
Units that a booted candidate does not load are no longer owed; the archived
journal keeps naming them. A lost journal is unwound to the point that
nothing keeps the primary from starting.

### ApplicationTransition

`state` is the authority directory (`transition.json`, `identity.json`, the
custody file), `gate` and `retired` the barrier directory, `dropIn[u]` and
`loaded` the persistent drop-ins. `op` is the command that holds
`barrier_dir/lock`: the step it will take next, the directory it has changed
and not yet flushed, and the state lease it holds. `Flush` is the flush that
follows every publication; a kill may come before it, and the retry accepts
what it sees (`left`, `undone`, as in WriterFence). `worker` is the capture or
import child: it keeps the inherited leases when its command is killed. A
backend is the set of writes it holds; `acked` is what clients were told. Units
start by the drop-in's condition and ExecCondition (`StartupUnit`) when systemd
has loaded it, and by `resource serve` when wrapped. The host boots either
installed generation. Operators: certification, expiry of the receipt, giving
up (then only abort is run), booting back. Left out: the borrowed PostgreSQL
fence, different manifests for two runs, a plan made in the new generation, the
replacement of a receipt the journal has bound (it only refuses, as an expired
one does).

### WalChain, MCWalChain

The arithmetic of `health` (`pg_backup.rs`) as pure operators: segments,
timeline history, the chain a base needs, the recovery target and the verdict
`Usable`. MCWalChain starts with every history, base and target within its
bounds, lets the archive gain and lose files in any order, and compares the
verdict with a reference definition of replayability that does not follow the
code's order of checks.

### BackupRepository

Extends WalChain with the root of one source. `rcv` is the receiver with its
gap check, `job` the base backup and its finalization, `prune` the retention;
each is a program counter over its own publications and deletions, `lock` is
`BACKUP_LOCK`. `gap` and `clearing` are `wal/.gap` and its renamed copies,
`floor`, `epoch`, `sidecars` and `last` what finalize publishes one after
the other. Programs are killed between any two steps. The source is external:
it writes, and loses its slot or has it recreated. `losses`, `lastStart` and
`disturbed` remember what the properties compare with. The legacy root
(`clear_gap`, no metadata) is the other value of `mode`. Simplified: a lost
slot also ends a receiver that is still looking for a gap, and power is not
lost. Not every publication here is flushed before the next
step: `remove_gap` renames, links and unlinks under one flush at its end
(`pg_backup.rs:626-641`). Health is read in one instant.

MCPostgresBackup explores this module and MCWalChain in one run: they share no
variable, and `part` says which of the two moves while the other rests.

### CaptureEvidence, CaptureRepository

CaptureEvidence is the promise to a consumer: an identifier stands for one
fixed fact, one identifier is selected, a retired one never comes back.
CaptureRepository is how the code keeps it: pin, inventory, metadata and
snapshot are published one by one and `SELECTED` is moved last (`finalize`),
`select` is what recovery accepts of it, retirement writes a tombstone and
unlinks the carriers in order, and retention honours the pins. A power loss
brings back unlinked names whose directory was not flushed. The refinement maps
a promise to the facts in the pin of an identifier that is not journaled as
retired, and `retired` to the journal; every step of the repository is then a
step of CaptureEvidence or none.

### Supervisor, MCSupervisor

One test run: the launcher (`systemd-run`, which may fail after the unit was
started), the worker with its registration, cases and terminal receipt, the
observer with its two status reads per pass, and repeated `worker` commands.
`ran` remembers how often and on which files a case was executed. A process
identifier may be reused after its process died. A case may fail
or be cancelled at any time. Left out: the foreground mode, `watch` and its
notifications, misreads of `/proc` of a live process, what happens after
a reboot, when nothing observes by itself, an answer of systemd-run that is
lost while the observer runs on, and an error after the rename of
`started.json`.

### ApplicationCaptures, MCApplicationCaptures

`entries[a]` are the names of an attempt under the backup root, `intent`,
`staged`, `seal` and `point` their contents, `last` is `LAST_SUCCESS`. `op` is
the capture or the prune that holds the lock; its program counter names every
adapter command, rename and publication of `capture`
(`application_backup.rs:499-686`) and of `prune`
(`application_retention.rs:88-233`). The worker account writes its staging at
any time (`Alter`), so the inventory, the copy and the restore may each see
other bytes. An adapter may fail at every command; `Kill` ends a program
between any two steps, and `Redeploy` changes manifest or executables under
it. The shipped version 2 manifests only; the independent `certify` on
another machine and the refusals of redirected or mounted entries are left
out. With `MayReuse` an operator may capture a name again whose retirement
is unfinished: see Disagreements. Power is not lost: the renames of a retry
share one flush (`application_backup.rs:569-586`). The check of the executables
(`:663`) and the manifest digest kept in memory are one value here, and
`acceptance.json` (`:668`) is part of the rename that publishes.

### Custody, MCCustody

One filesystem resource with a database. `corpus` and `written` are contents
and metadata of its directories, `contract` the directories that a validator
would expand to now (fixed unless `consumer`), `database` the digest of the
recovery snapshot and the files the rows need. `anchor`, `identity` and
`receipt` are what is published; `certifier`, `adopter`, `served` and
`admission` are the four programs, each with a program counter over its
inspections, leases, readings and publications (`Certify*` is `custody.rs`,
`Adopt*` is `resource adopt`, `Check*` is `check_manifest` with its workers,
`Serve*` is `serve`). Applications write, directories are replaced, rows and
evidence move and units start at any time (`Surroundings`). `admission.held`
is kept for the properties: what each directory has held since the admission's
worker began, or at that moment where a consumer names the directories.

A directory stands for a file in it, since files of one directory are visited
one after the other like those of two. Every change gives new metadata, as a
ctime does when its clock ticks between two changes. Coordinator and workers
are one program; a refusal, a deadline, a kill and a blocked verdict all stop
it and leave what it has published. The restored tree is the operator's: it
equals the source or the certification stops. Without a consumer the metadata
precede the lease, so that only an instant per directory is promised.

MCApplicationStorage explores this module and ApplicationCaptures in one run,
as MCPostgresBackup does.

### MCAuthorityAndUnwinding

PrimaryAuthority and Rollout, again without a common variable and with `part`:
the two smallest of the models whose liveness is checked. Each part
keeps its own fairness; the Rollout part is the small instance in which an
operator gives up.

### The proof modules

PrimaryAuthorityProofs, WriterFenceProofs, RolloutProofs,
ApplicationTransitionProofs, BackupRepositoryProofs, CaptureRepositoryProofs,
ApplicationCapturesProofs and SupervisorProofs extend the module of that name
and hold its theorems, nothing else; see Proofs. BackupRepositoryProofs holds
those of MCWalChain too (the repository uses the same operators), and
ApplicationCapturesProofs those of Custody, the other half of what an
application's files depend on.

## Runs

| Run | Instance | States | What it shows |
|---|---|---|---|
| `authority_and_unwinding` | primary: 3 trees, 2 saves, 2 policies, 3 crashes; rollout: 1 client and receiver, 1 failing start, 1 kill | 43 and 260 thousand | no acknowledged save is lost; what a record names is on disk; a child never runs beside a postmaster; a ready journal gets published; nothing is published that was validated under another policy. Rerunning abort or the begun thaw ends with the primary up |
| `writer_fence` | 2 fences, 2 inhibitions, 2 units, 2 crashes, one ALTER SYSTEM | 770 thousand | a promised fence restricts every primary and its marker persists; inhibited units do not start; no release inside a thaw and the original configuration comes back; a thaw on disk completes |
| `rollout` | 1 client, receiver, publisher, 2 fences, 1 kill or reboot, a lost journal, a foreign coordinator | 3.9 million | units, fences, inhibitions and receipts are accounted for; phases advance inside their window; no candidate with a journal is opened before its acceptance |
| `transition` | 2 runs, 3 units (guarded, plain, retired), 2 writes, 1 crash | 730 thousand | no acknowledged write is lost; one backend at a time and nothing runs while held; authority agrees with its phase; a release that had to record its phase has it on disk; giving up ends |
| `postgres_backup` | verdict: 3 timelines, 2 segments of 2 LSNs, 2 starts, 3 forks; repository: 3 segments, 2 bases, 1 loss, both kinds of root, kills anywhere | 3.8 million | health calls the oldest base usable exactly when it can be replayed to its target (the converse on one timeline); a loss stays recorded until a later base; what is finalized, and what health passes, can be restored; no marker without a loss |
| `capture_repository` | 2 captures, 2 bases, 4 segments, 2 fences, 1 write, power losses | 2.1 million | pinned evidence outlives every interruption; the selected capture replays to its records; the repository implements CaptureEvidence |
| `supervisor` | 2 cases, one needing the other, 1 failure | 440 thousand | no false interruption, no case executed twice, a passed run ran everything on the bound files, every loss reported |
| `application_storage` | captures: 2 timer attempts, 2 contents, Keep = 1, 1 kill, 1 redeployment; custody: 2 directories, 2 contents, 1 identifier, 2 changes, 3 programs started | 3.2 million | LAST_SUCCESS stays whole; a point is what was restored; cleanup gets a complete tree; retention never blocks itself. An admission passes only what a certification compared with a restore; a ready one looked at the files the rows named |
| `capture_retry` (fails) | captures as above | | a killed retry leaves an attempt that no retry accepts |
| `release_unflushed` (fails) | 1 run, 1 write, 1 crash | | writers are released over a point of no return that is not on disk |
| `thaw_unaccepted` (fails) | 1 client, 1 lost journal, no kill | | abort opens an installed candidate that nobody accepted |
| `fence_unflushed` (fails) | 2 fences, 2 inhibitions, 1 crash | | an acknowledged inhibition is not on disk |

Three runs explore two components each. These share no variable, so a state of
one says nothing of the other: `part` chooses which one moves, the other rests
in an initial state, and the number of states is a sum, not a product.

TypeOK is stated in most modules; the runs spend their properties on what a
type cannot say. It is proved of every module that has theorems.

Why the bounds are enough. In the primary of `authority_and_unwinding`, a third
tree lets an upgrade be retried twice and leaves retained trees of both; two
saves tell "copied before" from "copied after"; two policies give one change;
three crashes let a publication be interrupted, its repair be interrupted, and
a power loss follow. In `writer_fence` a kill before a flush and the power loss
that takes the change back are two crashes, the least that sets `undone`. Two
fences give the previous and the current token, the cases `closing` of one and
`prepared` of the other included. In `rollout`, two fences are a window and its
successor (or the foreign one), and a kill at every step followed by arbitrary
further verbs is the case the journal exists for. In `transition`, the second
run is the retry after an abort, with a write before and one after; one crash
falls anywhere, a failing worker and a refused check being free (for a second
one see Limits). In `postgres_backup` three timelines give a fork of a fork,
the smallest history whose legs can be ordered wrongly; two bases are the old
one and the one being finalized; a loss falls before, between or after them. In
`capture_repository` two captures are the selected one and its successor (or
the one being retired). In `application_storage` two timer attempts with `Keep
= 1` are the least for a point that is newer than LAST_SUCCESS, which is when
retention could remove the wrong one; failing adapters are free, and the kill
falls in the capture, its retry or the prune. Two contents suffice to tell
changed from unchanged, and they are symmetric: nothing but equality is asked
of them. For custody three programs are a certification, its successor (or a
racing adoption) and an admission; two changes are one between the readings of
the certification and one during the admission, or a change and its reversal;
two directories can be read on both sides of a change. With one identifier
nothing can be adopted under another one: that is left to the theorem
`IdentityIsKept`. Each `MaxX` constant is a bound on the environment, never on
the program.

Deadlock is not an error in these models: every bound may be exhausted and a
tool that is not run does nothing.

### Fairness

A tool makes progress only while somebody runs it. `PrimaryAuthority` assumes
that the operator re-runs the upgrade (`WF(Upgrade)`) and that children end.
`WriterFence` assumes that the two operators re-run what they began; the thaw
needs strong fairness because a start of the primary may disable it again and
again until systemd stops it. `Rollout` assumes a running invocation goes on
(`WF(Step)`), workers end, another coordinator finishes the fence it opened
(strong, since it needs the lock free), and that an operator who gave up
reruns abort, or the thaw that has begun, activates the rollback and reboots.
`ApplicationTransition` assumes
that a command and its worker go on (both have deadlines), and of the
operator who gave up that he boots the old generation, stops the guarded
units (their lease blocks the abort; strong fairness, since systemd may
start them again) and repeats the abort. Nothing is assumed of the forward
commands: with an expired receipt the code lets none of them finish.
`Supervisor` assumes that the worker and the observer units go on while they
run and that the children of a lost worker end (they are killed with its
unit). The backup, capture and application modules state safety only: their
programs are run by timers and operators, whenever these come.
No fairness is assumed of crashes, writes, failures or timers.

## Findings

* `capture_retry`: a retry moves staging, workspace, intent and seal aside in
  this order (`application_backup.rs:569-584`). Killed after the intent, it
  leaves `<attempt>.sealed` alone; every later capture of that name demands a
  retry (`:531`), and every retry fails to read the intent (`:540`), against
  `docs/application-storage.md:322`.
* `fence_unflushed`: `inhibit` accepts an existing drop-in or `inhibited.json`
  without a flush (`startup_inhibition.rs:322-329`). When an earlier invocation
  was killed between the rename and the flush, the later one acknowledges an
  inhibition that a power loss may undo, against "the persistent root-owned
  gate must be installed" (`README.md:306`). The fence stands behind it: after
  such a loss (`undone`) an ordinary start of the primary is admitted.
* `release_unflushed`: `enable-writes` does not save a phase it already sees
  (`application_transition.rs:715-716`). Killed before the flush and repeated,
  it lifts the inhibition over a record that a power loss can turn back into
  `committed`, which abort accepts, against "persists the point of no return"
  (`docs/application-storage.md:442`).
* `thaw_unaccepted`: when `rollout.json` is lost after an activation, abort
  with `--adopt-fence-token` rebuilds it in phase `fenced`
  (`postgres_rollout.rs:3218-3225`), and the question whether the candidate is
  installed is asked of `adopted` and `activated` only (`:3238`). It closes the
  fence and starts writers on a candidate nobody accepted, against "must be
  thawed instead" (`docs/cutover-admission.md:214`).

### Disagreements

These were met on the way and are not part of the runs. Each can be
reproduced by giving the named constants and property to TLC.

* PrimaryAuthority, `ReadyResumes` (1 tree, 1 save, 2 crashes):
  `publish_leased` unlinks `upgrade.json` and flushes it afterwards
  (`postgres.rs:658`). Killed in between and followed by a start and a power
  loss, the ready journal is back beside a stale `postmaster.pid` and neither
  upgrade nor start goes on, against `docs/storage-durability.md:116`.
  Nothing is lost.
* WriterFence, `FencePersists` without `"data" \in left \/ undone` (1 crash):
  fence-open that resumes a killed one finds the selector in
  postgresql.auto.conf, writes the marker and flushes that, and never flushes
  `data_dir` again (`writer_fence.rs:325-355`). The marker of the acknowledged
  fence then outlives a power loss and its selection may not.
* Rollout, `CertifiedHandOff` (no units, 2 exports): a receipt set aside by a
  killed import leaves Harbor's admission behind; `prepare` then adopts a
  rewritten export plan and the next import journals `imported` over it
  (`postgres_rollout.rs:2470-2507`).
* Rollout, `GivingUpUnwinds` with `Alters`: reopening asks whether the fence
  is closed only after it stopped the primary (`postgres_rollout.rs:2681`);
  after an ALTER SYSTEM on the open primary every retry stops it and refuses.
* ApplicationTransition, `RetirementLeavesNoMarker` (1 run, 1 crash):
  `release_pending`
  (`application_transition.rs:51`) looks at the primary marker only. An abort
  interrupted between its two removals can be retired; the retired units then
  stay inhibited and no journal is left to abort
  (`docs/application-storage.md:453`).
* BackupRepository, `LossKept` with `MayRaceRecovery` and 2 losses:
  `recover_clearing` compares the orphaned marker with `wal/.gap` and then
  renames it over it (`pg_backup.rs:572`); a newer loss written in between,
  without the lock, is forgotten.
* Supervisor, `ObserverReports` (1 case): a worker lost between the two status
  reads of one observer pass (`testing/supervisor.rs:1511`, `:1544`) lets the
  observer end without writing the receipts of the loss (`:1667`); see the
  comment at `:1712`.
* ApplicationCaptures, `PruneAdmitted` with `MayReuse`: a name captured again
  while its `.pruning` tree is there makes every later prune stop at
  "conflicting live and retiring output" (`application_retention.rs:139`).

## Limits seen with larger instances

ApplicationTransition keeps its safety properties with 2 crashes (4.3 million
states) and `AbortEnds` with 1 run and 2 crashes (710 thousand). Each of them
needs its `undone`: a drop-in accepted by its contents
(`transition_manifest.rs:665`) may vanish with a power loss, a retired unit
then starts beside the target and `OneSide` fails; an abort killed before the
flush of `aborted` is not saved again by its retry, and after the power loss
brought the earlier journal back over lifted barriers, every abort refuses.
After `write-enabled` is saved and before the marker is gone, an expired
receipt leaves neither the release nor the abort permitted.

The `rollout` run is true of its instance and no more. With a second kill and
another coordinator that releases a shared inhibition, a recorded startup token
can be stale and an abort finishes with the inhibition still held. With
`TimersRace` a client skipped by a timer between the recording of skipped units
and the close of the fence (`postgres_rollout.rs:2664-2680`) is forgotten. A
oneshot unit may be started twice by a kill between its start and the save,
which the code's comments accept. `NoUnacceptedThaw` excepts the fences whose
journal was lost (`forgotten`; with them it is `thaw_unaccepted`). It is about
fences an adoption was made under: activation accepts any live fence with
accepted evidence. Admission of a receipt before it is journaled may be set
aside by the next import. These are reachable by setting the constants; they
are kept out of the runs because each needs a decision about what the code
should promise. Other instances leave out less than they seem to: the failing
starts of one client are in the Rollout part of `authority_and_unwinding`, not
in `rollout`.

In `postgres_backup`, `MayRaceRecovery` is off: no loss is marked inside
`recover_clearing`. Nothing there would notice a gap check that skipped its
coverage scan at a busy lock and did not repeat it. `capture_repository` has
the pins of `backup/pins.rs`; BackupRepository is a source without pins. In
`supervisor`, the fairness of `Restart` ignores that systemd gives up after its
start limit (`testing/supervisor.rs:1788`).

## Proofs

Each theorem below holds for every value of the constants that satisfies the
module's named assumption. All have the form of an inductive invariant: `Init`
gives it, every action keeps it (one step per action, one lemma per part where
a part needs many facts), and it gives the property. The parts of each
invariant were first given to TLC as invariants of the module's run.

| Module | Theorem | States | Under |
|---|---|---|---|
| PrimaryAuthorityProofs | `TypeCorrect`, `SavesKept`, `WorkersRunAlone` | `TypeOK`, `NoSaveLost`, `WorkerAlone` | |
| | `RecordedTreesFound`, `ValidationBound` | `RecordedTreeThere`, `BoundValidation` | `FsyncCommitsName` |
| WriterFenceProofs | `TypeCorrect` | `TypeOK` | |
| | `FenceHolds`, `FenceIsOnDisk` | `FencedWhilePromised`, `FencePersists` | |
| | `NothingStartsInhibited`, `ThawIsWhole` | the action properties `NoStartWhileInhibited`, `OriginalRestored` | |
| RolloutProofs | `TypeCorrect`, `OnlyOwnFences` | `TypeOK`, `NoForeignFence` | |
| | `PhasesInOneWindow`, `ThawOnlyAccepted` | the action properties `AdvancesInWindow`, `NoUnacceptedThaw` | |
| | `FenceAndSlotRecorded` | what `HoldingsRecorded` says of the fence and the import slot | |
| | `HoldingsAreRecorded` | `HoldingsRecorded` | `~ForeignActs` |
| | `UnitsAreReturned` | `NoUnitForgotten` | `~TimersRace` |
| ApplicationTransitionProofs | `AuthorityIsWhole` | `AuthorityWhole` | |
| | `TypeCorrect`, `NothingAcknowledgedIsLost`, `OneSideRuns` | `TypeOK`, `NoWriteLost`, `OneSide` | |
| | `ReleaseIsPersisted` | the action property `ReleasePersists` | |
| BackupRepositoryProofs | `TypeCorrect`, `FinalizedIsRestorable`, `NoGapInvented` | `TypeOK`, `FinalizedRestorable`, `NoFalseGap` | |
| | `LossesStay`, `HealthIsEnough` | `LossKept`, `HealthyIsRestorable` | `~MayRaceRecovery` |
| | `VerdictIsSound`, `NoAlarmWithoutCause` | `UsableSound`, `NoFalseAlarm` of MCWalChain | |
| CaptureRepositoryProofs | `TypeCorrect`, `EvidenceIsKept`, `SelectionReplays` | its types, `EvidenceKept`, `SelectedReplays` | |
| | `RefinesEvidence` | `ImplementsEvidence`: the specification implements CaptureEvidence | |
| ApplicationCapturesProofs | `TypeCorrect`, `LastSuccessStands`, `PointsAreRestored`, `CleanupIsPossible` | its types, `LastSuccessWhole`, `AcceptedIsRestored`, `CleanupHasItsTree` | |
| | `PruneIsAdmitted` | `PruneAdmitted` | `~MayReuse` |
| | `AdmissionsAreCertified`, `ReadyIsServed`, `CustodyIsTyped` | `AdmittedIsCertified`, `ReadyServesDatabase` of Custody, its types | |
| | `IdentityIsKept` | the action property `IdentityStands` of Custody | |
| SupervisorProofs | `TypeCorrect`, `InterruptsTheLost`, `RunsOnce`, `PassedRan` | its types, `NoFalseInterrupt`, `NeverReruns`, `PassedMeansRan` | |
| | `NotifiedIsFinal` | the action property `ReportFinal` | |

The hypotheses on a constant each name a schedule or a file system, not a
convenience. `FsyncCommitsName`: flushing a file's directory commits its name.
`MayRaceRecovery` and `MayReuse` switch on the schedules of Disagreements,
`TimersRace` and `ForeignActs` those of "Limits seen with larger instances";
with them, and as many kills as those need, TLC refutes the theorem's property,
so none of these hypotheses can be dropped. The runs make them too, with one
exception: `rollout` has the other coordinator and a single kill, where
`HoldingsAreRecorded` excludes it and has any number of kills.

**PrimaryAuthority.** `TypeOK` is not inductive alone: an upgrade's step uses
the policy and the tree its memory names, so `OpTyped` adds which steps know
them. `NoSaveLost` speaks of the registered and the served cluster, but a power
loss can make any unflushed image the current one. `SafetyInv` therefore says
of every image of the authority directory that a loss may leave that the
cluster it would let a host serve holds every acknowledged save, and, if its
journal is ready, that the tree it names does too (`ImagesSafe`); that the
visible image is one of them (`NowOnDisk`); that once no journal is visible, no
image moves the authority elsewhere (`OneHistory`: this is what makes it safe
to accept saves again while an old image may still come back); who runs beside
what (`ServingSafe`, `WorkerSafe`); and what the running upgrade has
established at its step (`StepSafe`). The digest of the source that the code
compares is in the model the number of saves; the proof rests on that digest
distinguishing them. The trees a record names and the policy a publication was
validated under need a second invariant of the same form over the images.

**WriterFence.** Four properties and no hypothesis: kills between a rename and
its flush are part of the system, and each property says what holds of it, that
is, until a power loss takes back what such a kill left (`undone`). The
invariant has two halves. The barrier: drop-ins and gate are flushed outside
the step that flushes them, unless they were left (`DropInsFlushed`,
`GateFlushed`), and an acknowledged inhibition has its gate and every drop-in
loaded (`InForce`). The fence: a command runs only behind that barrier
(`FenceBarred`), marker and selection are flushed outside their sync steps
unless left (`MarkerFlushed`, `DataFlushed`), each step finds what its
predecessors wrote (`FenceShape`), retained originals are the configuration
from before the fence (`Originals`), and a promise is backed by the selection
(`Promise`). A release is admitted at no other point (`ReleaseAdmitted`). The
fence half needs the barrier half, since ordinary starts of the primary are
what would undo a half-made fence, and therefore holds until `undone`. That the
marker of an acknowledged fence is on disk needs neither (`MarkerPromised`):
fence-open writes and flushes it again however it was resumed.

**Rollout.** The invocation has some forty places, so the invariant is first of
all a map of them: which verb is at which place (`Course`), in which phase of
the journal (`Phased`), how far an unwinding is (`Undoing`: a thaw needs the
acceptance, and `reopened` is passed once). Three lemmas keep the proof from
being a product of parts and steps: `Arrivals` says after which steps an
invocation is at a place, `Writings` which steps write a field of the journal,
`Changes` which steps change what is outside it; a part is then examined at the
steps that can disturb it. On that map stand: the fence of the journal is the
coordinator's own and the live one is the newest (`Owned`, which gives
`NoForeignFence`); a phase past `idle` has its fence and one past `fenced` has
evidence of that window (`Windowed`, which gives `AdvancesInWindow`); past the
closed boundary of an unwinding the journal's fence is no longer in force
(`Shut`), and a fence in force that a candidate was adopted under is the
journal's own, past the adoption, as long as that journal is there (`Known`),
so that with `Uninstalled`, an abort of an adopted rollout finds nothing
installed, only an accepted thaw takes it away (`NoUnacceptedThaw`); the slot,
the fence and the inhibition are recorded, or the intent to take them is, at
every place (`Slotted`, `Opened`, `Inhibited`, which give `HoldingsRecorded`);
and every unit is recorded before it is stopped (`Recorded`), a list that was
tried through is empty or the invocation fails (`Returning`), and what systemd
skipped is journaled before the fence and the pause are gone (`Skipping`),
which give `NoUnitForgotten`. Without `Inhibited` and `Skipping` there are no
hypotheses: each of the two is the part another actor can break.

**ApplicationTransition.** Two layers, and no hypothesis. The first holds
whatever is lost: the phase of every image of the authority directory fits the
command at work and the step it has reached (`Phased`), the two publications
and their undoing move identity, custody and journal in one order (`Published`,
`Authorities`), and the worker belongs to a command or is what a kill left of
it (`Working`). It gives `AuthorityWhole` and the types. The second layer is
about what systemd starts and holds until a power loss takes back a change that
a killed command had left without its flush. It speaks of the images that may
stand without such a loss (`Standing`): of a directory in `left` the visible
one alone, since that is what every later command accepts and builds on, of any
other every image on disk. Only the directory the running command changed last
has two (`Flushed`), every barrier a phase or a step relies on is there and
loaded (`Barrier`), the new generation is installed behind every drop-in and
the start policy follows the point of no return (`Generations`), who runs in a
generation is what that policy released (`Running`), and each backend holds
what the phase says it must (`Backends`). That a unit is not called `state`,
`gate` or `retired` is what lets `op.dirty` name either.

**BackupRepository.** `Continuous` says that WAL without a recorded loss is
whole; `Order`, `Signed`, `Floors`, `Epochs` how trees, sidecars, `BASE_FLOOR`
and the epoch agree; `Orphans`, `Marked` what the marker is while a job has
renamed it aside; `Candidate`, `Finalized`, `Plan` what the running job has
established and what prune may still delete. `Locked` and `Clocks` carry the
rest. Losses are compared by the time of the marker and the start of a base, so
most lemmas are about the order of these times.

**WalChain.** The verdict of `health` is right for every segment size, number of
segments, family of forks, base, target and archive, not for the few of the
run. `ArchiveSound` is what the environment keeps: files have known cells, a
`.partial` is the newest of its timeline, a history lists its forks upwards,
base and target begin after their timeline did. The rest is about the
operators. `LineageIs` and `OwnerIs` turn the least index of the reference into
which fork a position lies before; `ReachIs` says which timeline the search for
the end of a leg stops at; `LegOf` finds for each position the leg of its
owner, and `LegEndCovers` that the leg's last segment is far enough. So a
position the reference asks for is in a segment the code asked for, and only
one past stop and target may be partial (`SoundVerdict`). The converse
(`NoFalseVerdict`) is the same on one timeline, where there is one leg.
What least and greatest elements need is a well-founded order (`LowestIn`,
`HighestIn`), what the division by the segment size needs is in `Divided`,
`SegmentGrows` and `SegmentBetween`.

**CaptureRepository.** The abstract state of a capture is the facts of its pin,
unless the journal retires it. The proof of the refinement takes the invariant
of `EvidenceIsKept` and shows of each action which step of CaptureEvidence it
is: publishing the pin promises, moving `SELECTED` selects, the tombstone
retires, and everything else, the power losses included, is a stutter, because
a name that comes back carries the facts it had.

**ApplicationCaptures.** A resting attempt's trees are consistent with its
journal whatever interrupted it (`Resting`); the attempt at work has what its
program counter says (`Progress`); a point is published once and unchanged
after. `PruneAdmitted` needs that a retired name is not taken again.

**Custody.** A pair of metadata and contents read at different times is worth
something because a change leaves new metadata behind: while the metadata of a
directory are what somebody recorded, its contents are what they were then
(`WrittenBefore` dates them). When the second reading of a directory equals the
first, what was read belongs to the metadata read in between (`ComparisonSafe`),
and so does what the receipt holds (`ReceiptSafe`). An
admission whose metadata equal the receipt's has therefore seen the certified
contents (`AdmissionSafe`), also when the receipt is published between the
two, and passes it on unchanged (`TakenSafe`). `LeaseSafe` says who may hold
the lease beside whom; with it no receipt appears during a consumer's walk,
which is why all directories then held the contents at one moment. What the
rows need was in the restored tree at certification, and pairing compares the
needs themselves, not the snapshot that names them. `MarkingSafe` (a program
at its anchors found none but its own) gives `IdentityStands`.

**Supervisor.** One worker registers, ever, and a case it has not come to has
not run (`WorkerSafe`); who decides a run's end (`Deciding`) stays the decider;
what an observer saw is still so when it acts on it (`ObserverSafe`): a lost
worker does not come back, although its process identifier may.

Only model-checked. Liveness: `ReadyPublished`, `ThawCompletes`,
`GivingUpUnwinds`, `AbortEnds`, `LossReported` (fairness and ENABLED are beyond
the prover). The runs that fail are counterexamples and have
nothing to prove. Every other property of a run is a theorem. The types,
`ReportFinal` and `IdentityStands` are theorems that no run repeats.

## Not modelled

* Rollout transport: one hook as a transient unit. Rollout keeps what matters
  of it, the receipt it may put in the slot.
* Recovery acceptance (`recovery.rs`): the checks that `health` and the
  captures share are in WalChain and CaptureRepository; certification on an
  independent machine is evidence that Rollout takes as given.
* Of cutover and custody: manifest validation and directories shared between
  resources, which only refuse; a prepared transition (ApplicationTransition
  has the custody file it publishes); a resource without a database.
* Collation repair is a sequential loop under one lease whose every step is
  an SQL statement; its one ordering hazard is listed without a property.
* Provisioning, rehearsal and drills: SQL in one transaction, or a private
  cluster that nothing else reads.
* The migration planner keeps no state and runs in dependency order.
* The test catalog, codecs and command lines are pure functions and parsing;
  the Python predecessor is retained as test evidence.
* Of the modelled parts: manifest and path validation, which only refuse;
  `adopt_live`; the borrowed PostgreSQL fence of a transition (WriterFence has
  it); reboots in Supervisor; power losses in BackupRepository and
  ApplicationCaptures, where a power loss could undo several renames that share
  one flush.

## Plan

One composition is left: that WriterFence implements the atomic verbs Rollout
uses, through an abstract fence module.
