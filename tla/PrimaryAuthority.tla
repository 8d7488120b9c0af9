-------------------------- MODULE PrimaryAuthority --------------------------
(***************************************************************************)
(* The authority over one PostgreSQL primary: explicit adoption, the       *)
(* writer lease, and the copy upgrade that a crash may interrupt anywhere  *)
(* (src/storage/postgres.rs, on pg_core.rs and durable.rs).                *)
(*                                                                         *)
(* Cluster 0 is the adopted source; cluster n >= 1 is the tree that the    *)
(* n-th initdb of an upgrade created.  The old configuration selects       *)
(* cluster 0, the new one whatever the target directory holds.             *)
(*                                                                         *)
(* A second invocation that finds the lease taken fails with no effect, so *)
(* one slot `command` holds the invocation that has the exclusive lease.   *)
(* Its children inherit the descriptor: `upgrader` outlives a killed       *)
(* `command`.                                                              *)
(*                                                                         *)
(* Left out: the built-in record validation (validate_records), whose      *)
(* servers on the copy and on the new tree run inside the copy and the     *)
(* validate job here and whose upgrade-records.json nothing else reads;    *)
(* adoption of a running primary (adopt_live); and a deployment rolled     *)
(* back to an earlier one (PolicyChange).                                  *)
(***************************************************************************)
EXTENDS Integers, FiniteSets, DurableDir

CONSTANTS
    MaxTrees,       \* bound: initdb runs
    MaxSaves,       \* bound: acknowledged saves
    MaxPolicies,    \* bound: versions of the upgrade configuration and tools
    MaxCrashes,     \* bound: kills and power losses
    FsyncCommitsName \* fsync of a tree also commits its own name (ext4, btrfs)

ASSUME AuthorityAssumption ==
    /\ MaxTrees \in Nat \ {0}
    /\ MaxSaves \in Nat
    /\ MaxPolicies \in Nat \ {0}
    /\ MaxCrashes \in Nat
    /\ FsyncCommitsName \in BOOLEAN

VARIABLES
    state,      \* the authority directory: identity.json, previous, upgrade.json
    parent,     \* the parent of the cluster directories
    stage,      \* stage[n]: how far the tree of cluster n got
    madeUnder,  \* madeUnder[n]: the policy its validator ran under
    synced,     \* trees whose content is flushed (sync_tree)
    saves,      \* saves[c]: the saves cluster c holds
    acked,      \* saves acknowledged to applications
    copied,     \* the saves in .harbor-source
    command,    \* the invocation that holds the exclusive lease
    upgrader,   \* its child process, which also holds the lease
    server,     \* the postmaster
    pidfile,    \* clusters with a postmaster.pid
    policy,     \* the configuration and executables an upgrade would bind
    crashes

disk == <<state, parent, stage, madeUnder, synced>>
records == <<saves, acked, copied>>
procs == <<command, upgrader, server, pidfile>>
authorityVars == <<state, parent, stage, madeUnder, synced, saves, acked, copied,
                   command, upgrader, server, pidfile, policy, crashes>>

Trees == 1..MaxTrees
Clusters == 0..MaxTrees
Policies == 1..MaxPolicies
Unregistered == -1
EmptyDir == -1
NoTree == 0

NoUpgrade == [phase |-> "none", policy |-> 0, digest |-> 0, tree |-> NoTree]
UpgradeJournals == {NoUpgrade} \cup
    [phase : {"building"}, policy : Policies, digest : 0..MaxSaves, tree : {NoTree}] \cup
    [phase : {"ready"}, policy : Policies, digest : 0..MaxSaves, tree : Trees]

StateImages == [identity : Clusters \cup {Unregistered}, previous : BOOLEAN,
                journal : UpgradeJournals]
DataImages == [target : Clusters \cup {EmptyDir}, staging : Clusters, kept : Clusters,
               copy : BOOLEAN, copyKept : BOOLEAN]

UpgradeSteps == {"idle", "adopt", "adopt_sync",
                 "keep_staging", "keep_staging_sync", "keep_copy", "keep_copy_sync",
                 "clear_target", "clear_target_sync", "journal", "journal_sync",
                 "copy", "initdb", "pg_upgrade", "validate", "seal", "ready", "ready_sync",
                 "rename", "rename_sync", "previous", "previous_sync",
                 "identity", "identity_sync", "unlink", "unlink_sync"}
Jobs == {"copy", "initdb", "pg_upgrade", "validate"}

AtRest == [pc |-> "idle", policy |-> 0, digest |-> 0, tree |-> NoTree]
NoServer == [cluster |-> Unregistered, leased |-> FALSE]

AuthorityTypeOK ==
    /\ state \in Directory(StateImages)
    /\ parent \in Directory(DataImages)
    /\ stage \in [Trees -> {"partial", "upgraded", "valid"}]
    /\ madeUnder \in [Trees -> Policies \cup {0}]
    /\ synced \in SUBSET Trees
    /\ saves \in [Clusters -> 0..MaxSaves]
    /\ acked \in 0..MaxSaves
    /\ copied \in 0..MaxSaves
    /\ command \in [pc : UpgradeSteps, policy : Policies \cup {0}, digest : 0..MaxSaves,
                    tree : Clusters]
    /\ upgrader \in Jobs \cup {"none"}
    /\ server \in [cluster : Clusters \cup {Unregistered}, leased : BOOLEAN]
    /\ pidfile \in SUBSET Clusters
    /\ policy \in Policies
    /\ crashes \in 0..MaxCrashes

-----------------------------------------------------------------------------
(* Leases (durable::lock on state_dir/lock).  flock belongs to the open     *)
(* file description: an inherited descriptor keeps it after the parent dies *)

ExclusiveHeld == command.pc # "idle" \/ upgrader # "none"
SharedHeld == server.leased

Identity == state.now.identity
Journal == state.now.journal
Running == server.cluster

BugStartDuringUpgrade == TRUE
RejectUpgrade == Journal = NoUpgrade

Goto(pc) == command' = [command EXCEPT !.pc = pc]
Fail == command' = AtRest

SetState(image) == state' = Changed(state, image)
SetData(image) == parent' = Changed(parent, image)

AuthorityInit ==
    /\ state = Settled([identity |-> Unregistered, previous |-> FALSE, journal |-> NoUpgrade])
    /\ \E target \in {NoTree, EmptyDir} :
         parent = Settled([target |-> target, staging |-> NoTree, kept |-> NoTree,
                         copy |-> FALSE, copyKept |-> FALSE])
    /\ stage = [n \in Trees |-> "partial"]
    /\ madeUnder = [n \in Trees |-> 0]
    /\ synced = {}
    /\ saves = [c \in Clusters |-> 0]
    /\ acked = 0
    /\ copied = 0
    /\ command = AtRest
    /\ upgrader = "none"
    /\ server = NoServer
    /\ pidfile = {}
    /\ policy = 1
    /\ crashes = 0

-----------------------------------------------------------------------------
(* Adoption (adopt, adopt_live).  Neither needs the primary stopped.        *)

AdoptBegin ==
    /\ ~ExclusiveHeld /\ ~SharedHeld
    /\ Identity = Unregistered
    /\ RejectUpgrade
    /\ command' = [AtRest EXCEPT !.pc = "adopt"]
    /\ UNCHANGED <<disk, records, upgrader, server, pidfile, policy, crashes>>

AdoptWrite ==
    /\ command.pc = "adopt"
    /\ SetState([state.now EXCEPT !.identity = 0])
    /\ Goto("adopt_sync")
    /\ UNCHANGED <<parent, stage, madeUnder, synced, records, upgrader, server, pidfile,
                   policy, crashes>>

AdoptSync ==
    /\ command.pc = "adopt_sync"
    /\ state' = Synced(state)
    /\ command' = AtRest
    /\ UNCHANGED <<parent, stage, madeUnder, synced, records, upgrader, server, pidfile,
                   policy, crashes>>

-----------------------------------------------------------------------------
(* The primary (check, serve).  A guarded start takes the shared lease and  *)
(* keeps it through exec; before adoption the host starts it unguarded.     *)

\* inspect_cluster on the configured directory finds cluster c.
Present(c) == c = 0 \/ parent.now.target = c

BugServeUnguarded ==
    /\ Running = Unregistered
    /\ Identity # Unregistered /\ Present(Identity)
    /\ server' = [cluster |-> Identity, leased |-> TRUE]
    /\ pidfile' = pidfile \cup {Identity}
    /\ UNCHANGED <<disk, records, command, upgrader, policy, crashes>>

Serve ==
    /\ Running = Unregistered
    /\ ~ExclusiveHeld
    /\ RejectUpgrade
    /\ Identity # Unregistered /\ Present(Identity)   \* verify_identity
    /\ server' = [cluster |-> Identity, leased |-> TRUE]
    /\ pidfile' = pidfile \cup {Identity}
    /\ UNCHANGED <<disk, records, command, upgrader, policy, crashes>>

LegacyServe ==
    /\ Running = Unregistered
    /\ Identity = Unregistered
    /\ server' = [cluster |-> 0, leased |-> FALSE]
    /\ pidfile' = pidfile \cup {0}
    /\ UNCHANGED <<disk, records, command, upgrader, policy, crashes>>

SaveWrite ==
    /\ Running # Unregistered
    /\ acked < MaxSaves
    /\ saves[Running] < MaxSaves
    /\ saves' = [saves EXCEPT ![Running] = @ + 1]
    /\ acked' = acked + 1
    /\ UNCHANGED <<disk, copied, procs, policy, crashes>>

ServerStop ==
    /\ Running # Unregistered
    /\ server' = NoServer
    /\ pidfile' = pidfile \ {Running}
    /\ UNCHANGED <<disk, records, command, upgrader, policy, crashes>>

-----------------------------------------------------------------------------
(* upgrade: admission under the exclusive lease.                            *)

Stopped(c) == c \notin pidfile /\ Running # c         \* require_stopped

\* The journal on disk binds the same source, configuration and executables.
SameIntent == Journal.policy = policy /\ Journal.digest = saves[0]

UpgradeStart ==
    /\ ~ExclusiveHeld /\ ~SharedHeld
    /\ Stopped(0)
    /\ Journal = NoUpgrade
    /\ Identity = 0                                   \* verify_identity(source)
    /\ command' = [pc |-> "clear_target", policy |-> policy, digest |-> saves[0],
                   tree |-> NoTree]
    /\ UNCHANGED <<disk, records, upgrader, server, pidfile, policy, crashes>>

UpgradeResume(retry) ==
    /\ ~ExclusiveHeld /\ ~SharedHeld
    /\ Stopped(0)
    /\ Journal # NoUpgrade
    /\ Identity = 0 \/ (Journal.phase = "ready" /\ Identity = Journal.tree)
    /\ SameIntent
    /\ \/ /\ Journal.phase = "ready"
          /\ command' = [pc |-> "rename", policy |-> policy, digest |-> saves[0],
                    tree |-> Journal.tree]
       \/ /\ Journal.phase = "building" /\ retry
          /\ command' = [pc |-> "keep_staging", policy |-> policy, digest |-> saves[0],
                    tree |-> NoTree]
    /\ UNCHANGED <<disk, records, upgrader, server, pidfile, policy, crashes>>

-----------------------------------------------------------------------------
(* --retry-incomplete moves the interrupted output aside, once.  The status *)
(* of a cluster that initdb left unfinished is indeterminate, and a server  *)
(* that died in the source copy leaves its pid file: both are refused.      *)

KeepStaging ==
    /\ command.pc = "keep_staging"
    /\ \/ /\ parent.now.staging = NoTree
          /\ Goto("keep_copy") /\ UNCHANGED parent
       \/ /\ parent.now.staging # NoTree
          /\ \/ parent.now.kept # NoTree
             \/ ~Stopped(parent.now.staging)
             \/ parent.now.staging \in Trees /\ stage[parent.now.staging] = "partial"
          /\ Fail /\ UNCHANGED parent
       \/ /\ parent.now.staging # NoTree
          /\ parent.now.kept = NoTree /\ Stopped(parent.now.staging)
          /\ SetData([parent.now EXCEPT !.kept = parent.now.staging, !.staging = NoTree])
          /\ Goto("keep_staging_sync")
    /\ UNCHANGED <<state, stage, madeUnder, synced, records, upgrader, server, pidfile,
                   policy, crashes>>

KeepCopy ==
    /\ command.pc = "keep_copy"
    /\ \/ ~parent.now.copy /\ Goto("clear_target") /\ UNCHANGED parent
       \/ parent.now.copy /\ Fail /\ UNCHANGED parent
       \/ /\ parent.now.copy /\ ~parent.now.copyKept
          /\ SetData([parent.now EXCEPT !.copyKept = TRUE, !.copy = FALSE])
          /\ Goto("keep_copy_sync")
    /\ UNCHANGED <<state, stage, madeUnder, synced, records, upgrader, server, pidfile,
                   policy, crashes>>

\* An empty target directory is removed; anything else in the way is refused.
ClearTarget ==
    /\ command.pc = "clear_target"
    /\ IF parent.now.target = EmptyDir
       THEN /\ SetData([parent.now EXCEPT !.target = NoTree])
            /\ Goto("clear_target_sync")
       ELSE /\ UNCHANGED parent
            /\ IF parent.now.target # NoTree \/ parent.now.staging # NoTree \/ parent.now.copy
               THEN Fail
               ELSE Goto("journal")
    /\ UNCHANGED <<state, stage, madeUnder, synced, records, upgrader, server, pidfile,
                   policy, crashes>>

\* The flush of the parent directory that follows each of those renames.
DataSync(from, to) ==
    /\ command.pc = from
    /\ parent' = Synced(parent)
    /\ Goto(to)
    /\ UNCHANGED <<state, stage, madeUnder, synced, records, upgrader, server, pidfile,
                   policy, crashes>>

-----------------------------------------------------------------------------
(* The building journal, then the children that copy, create, upgrade and   *)
(* validate.  A child starts, and later ends: its parent may be gone.       *)

BugReadyTooEarly ==
    /\ command.pc = "journal"
    /\ SetState([state.now EXCEPT !.journal =
          [phase |-> "ready", policy |-> command.policy, digest |-> command.digest,
           tree |-> command.tree]])
    /\ Goto("journal_sync")
    /\ UNCHANGED <<parent, stage, madeUnder, synced, records, upgrader, server, pidfile,
                   policy, crashes>>

JournalBuilding ==
    /\ command.pc = "journal"
    /\ SetState([state.now EXCEPT !.journal =
          [phase |-> "building", policy |-> command.policy, digest |-> command.digest,
           tree |-> NoTree]])
    /\ Goto("journal_sync")
    /\ UNCHANGED <<parent, stage, madeUnder, synced, records, upgrader, server, pidfile,
                   policy, crashes>>

\* write_json's last call: the authority directory is flushed.
StateSync(from, to) ==
    /\ command.pc = from
    /\ state' = Synced(state)
    /\ IF to = "idle" THEN command' = AtRest ELSE Goto(to)
    /\ UNCHANGED <<parent, stage, madeUnder, synced, records, upgrader, server, pidfile,
                   policy, crashes>>

Used == {n \in Trees : \E image \in parent.may \cup {parent.now} :
                          n \in {image.target, image.staging, image.kept}}

SpawnCopy ==
    /\ command.pc = "copy" /\ upgrader = "none"
    /\ upgrader' = "copy"
    /\ SetData([parent.now EXCEPT !.copy = TRUE])
    /\ UNCHANGED <<state, stage, madeUnder, synced, records, command, server, pidfile,
                   policy, crashes>>

SpawnInitdb ==
    /\ command.pc = "initdb" /\ upgrader = "none"
    /\ upgrader' = "initdb"
    /\ \E n \in Trees \ Used :
         /\ \A m \in Trees \ Used : n <= m
         /\ SetData([parent.now EXCEPT !.staging = n])
         /\ stage' = [stage EXCEPT ![n] = "partial"]
         /\ madeUnder' = [madeUnder EXCEPT ![n] = 0]
         /\ synced' = synced \ {n}
         /\ command' = [command EXCEPT !.tree = n]
    /\ UNCHANGED <<state, records, server, pidfile, policy, crashes>>

SpawnOther ==
    /\ command.pc \in {"pg_upgrade", "validate"} /\ upgrader = "none"
    /\ upgrader' = command.pc
    /\ UNCHANGED <<disk, records, command, server, pidfile, policy, crashes>>

NextJob == [copy |-> "initdb", initdb |-> "pg_upgrade",
            pg_upgrade |-> "validate", validate |-> "seal"]

\* A child ends well.  An orphan does the same work, with nobody to report to.
WorkerDone ==
    /\ upgrader # "none"
    /\ upgrader' = "none"
    /\ copied' = IF upgrader = "copy" THEN saves[0] ELSE copied
    /\ LET n == parent.now.staging IN
         IF upgrader \in {"pg_upgrade", "validate"} /\ n # NoTree
         THEN /\ stage' = [stage EXCEPT ![n] =
                             IF upgrader = "pg_upgrade" THEN "upgraded" ELSE "valid"]
              /\ madeUnder' = [madeUnder EXCEPT ![n] =
                             IF upgrader = "validate" THEN policy ELSE @]
              /\ saves' = [saves EXCEPT ![n] =
                             IF upgrader = "pg_upgrade" THEN copied ELSE @]
         ELSE UNCHANGED <<stage, madeUnder, saves>>
    /\ IF command.pc = "idle" THEN UNCHANGED command ELSE Goto(NextJob[upgrader])
    /\ UNCHANGED <<state, parent, synced, acked, server, pidfile, policy, crashes>>

\* A child fails or times out: the upgrade returns the error.
WorkerFail ==
    /\ upgrader # "none"
    /\ upgrader' = "none"
    /\ Fail
    /\ UNCHANGED <<disk, records, server, pidfile, policy, crashes>>

-----------------------------------------------------------------------------
(* The last checks, the flush of the new tree and the ready journal.        *)

BugContractNotRechecked == TRUE
SameContract == policy = command.policy

Seal ==
    /\ command.pc = "seal"
    /\ IF Stopped(command.tree) /\ saves[0] = command.digest /\ SameContract
       THEN /\ synced' = synced \cup {command.tree}        \* sync_tree(staging)
            /\ parent' = IF FsyncCommitsName THEN Synced(parent) ELSE parent
            /\ Goto("ready")
       ELSE Fail /\ UNCHANGED <<synced, parent>>
    /\ UNCHANGED <<state, stage, madeUnder, records, upgrader, server, pidfile, policy, crashes>>

JournalReady ==
    /\ command.pc = "ready"
    /\ SetState([state.now EXCEPT !.journal =
          [phase |-> "ready", policy |-> command.policy, digest |-> command.digest,
           tree |-> command.tree]])
    /\ Goto("ready_sync")
    /\ UNCHANGED <<parent, stage, madeUnder, synced, records, upgrader, server, pidfile,
                   policy, crashes>>

-----------------------------------------------------------------------------
(* publish_leased: rename, flush, then identity, and the journal last.      *)

Candidate == IF parent.now.staging # NoTree THEN parent.now.staging ELSE parent.now.target

Publishable ==
    /\ parent.now.target = NoTree \/ parent.now.staging = NoTree
    /\ Candidate = Journal.tree                       \* the validated identity
    /\ Stopped(Candidate)

BugStagingRequired ==
    /\ command.pc = "rename"
    /\ IF Publishable /\ parent.now.staging # NoTree
       THEN /\ SetData([parent.now EXCEPT !.target = Candidate, !.staging = NoTree])
            /\ Goto("rename_sync")
       ELSE Fail /\ UNCHANGED parent
    /\ UNCHANGED <<state, stage, madeUnder, synced, records, upgrader, server, pidfile,
                   policy, crashes>>

BugRenameNotFlushed ==
    /\ command.pc = "rename"
    /\ IF ~Publishable
       THEN Fail /\ UNCHANGED parent
       ELSE /\ IF parent.now.staging # NoTree
               THEN SetData([parent.now EXCEPT !.target = Candidate, !.staging = NoTree])
               ELSE UNCHANGED parent
            /\ Goto("previous")
    /\ UNCHANGED <<state, stage, madeUnder, synced, records, upgrader, server, pidfile,
                   policy, crashes>>

PublishRename ==
    /\ command.pc = "rename"
    /\ IF ~Publishable
       THEN Fail /\ UNCHANGED parent
       ELSE /\ IF parent.now.staging # NoTree
               THEN SetData([parent.now EXCEPT !.target = Candidate, !.staging = NoTree])
               ELSE UNCHANGED parent
            /\ Goto("rename_sync")
    /\ UNCHANGED <<state, stage, madeUnder, synced, records, upgrader, server, pidfile,
                   policy, crashes>>

PublishPrevious ==
    /\ command.pc = "previous"
    /\ SetState([state.now EXCEPT !.previous = TRUE])
    /\ Goto("previous_sync")
    /\ UNCHANGED <<parent, stage, madeUnder, synced, records, upgrader, server, pidfile,
                   policy, crashes>>

PublishIdentity ==
    /\ command.pc = "identity"
    /\ SetState([state.now EXCEPT !.identity = Journal.tree])
    /\ Goto("identity_sync")
    /\ UNCHANGED <<parent, stage, madeUnder, synced, records, upgrader, server, pidfile,
                   policy, crashes>>

PublishUnlink ==
    /\ command.pc = "unlink"
    /\ SetState([state.now EXCEPT !.journal = NoUpgrade])
    /\ Goto("unlink_sync")
    /\ UNCHANGED <<parent, stage, madeUnder, synced, records, upgrader, server, pidfile,
                   policy, crashes>>

-----------------------------------------------------------------------------
(* The environment.                                                         *)

\* A new configuration or new tools are deployed; a deployment is not rolled back
\* to an earlier one.
PolicyChange ==
    /\ policy < MaxPolicies
    /\ policy' = policy + 1
    /\ UNCHANGED <<disk, records, procs, crashes>>

\* SIGKILL of the invocation: its child, if any, keeps running and keeps the lease.
OpKill ==
    /\ command.pc # "idle" /\ crashes < MaxCrashes
    /\ command' = AtRest
    /\ crashes' = crashes + 1
    /\ UNCHANGED <<disk, records, upgrader, server, pidfile, policy>>

ServerKill ==
    /\ Running # Unregistered /\ crashes < MaxCrashes
    /\ server' = NoServer
    /\ crashes' = crashes + 1
    /\ UNCHANGED <<disk, records, command, upgrader, pidfile, policy>>

\* Every process is gone; each directory falls back to one of its images, and
\* a tree that was never flushed is torn.
PowerLoss ==
    /\ crashes < MaxCrashes
    /\ state' \in AfterLoss(state)
    /\ parent' \in AfterLoss(parent)
    /\ stage' = [n \in Trees |-> IF n \in synced THEN stage[n] ELSE "partial"]
    /\ command' = AtRest
    /\ upgrader' = "none"
    /\ server' = NoServer
    /\ crashes' = crashes + 1
    /\ UNCHANGED <<madeUnder, synced, records, pidfile, policy>>

Upgrade ==
    \/ UpgradeStart
    \/ \E retry \in BOOLEAN : UpgradeResume(retry)
    \/ KeepStaging \/ DataSync("keep_staging_sync", "keep_copy")
    \/ KeepCopy \/ DataSync("keep_copy_sync", "clear_target")
    \/ ClearTarget \/ DataSync("clear_target_sync", "clear_target")
    \/ JournalBuilding \/ StateSync("journal_sync", "copy")
    \/ SpawnCopy \/ SpawnInitdb \/ SpawnOther
    \/ Seal
    \/ JournalReady \/ StateSync("ready_sync", "rename")
    \/ PublishRename \/ DataSync("rename_sync", "previous")
    \/ PublishPrevious \/ StateSync("previous_sync", "identity")
    \/ PublishIdentity \/ StateSync("identity_sync", "unlink")
    \/ PublishUnlink \/ StateSync("unlink_sync", "idle")

AdoptCluster == AdoptBegin \/ AdoptWrite \/ AdoptSync

AuthorityNext ==
    \/ AdoptCluster
    \/ Upgrade
    \/ WorkerDone \/ WorkerFail
    \/ Serve \/ LegacyServe \/ SaveWrite \/ ServerStop
    \/ PolicyChange \/ OpKill \/ ServerKill \/ PowerLoss

AuthoritySpec == AuthorityInit /\ [][AuthorityNext]_authorityVars

\* The operator re-runs the upgrade until it succeeds and children end.
FairSpec ==
    AuthoritySpec /\ WF_authorityVars(Upgrade) /\ WF_authorityVars(WorkerDone \/ WorkerFail)

-----------------------------------------------------------------------------
(* Properties.                                                              *)

\* No acknowledged save is lost: the cluster that identity.json registers, and
\* the cluster being served, hold every save that was ever acknowledged.  The
\* lease, require_stopped, the journal and the digest of the source together
\* keep a copy taken by an upgrade from going stale.
NoSaveLost ==
    /\ Identity # Unregistered => saves[Identity] = acked
    /\ Running # Unregistered => saves[Running] = acked

\* A child of an upgrade never runs beside a postmaster, even when the
\* upgrade that started it was killed: the lease is inherited.
WorkerAlone == upgrader # "none" => Running = Unregistered

\* The registered cluster was validated by the very policy its upgrade bound:
\* policy or tools changed on the way cancel the publication.
BoundValidation ==
    [][state'.now.identity # Identity /\ state'.now.identity \in Trees
          => /\ madeUnder[state'.now.identity] = Journal.policy
             /\ Journal.policy = command.policy]_authorityVars

\* Whatever a power loss leaves, a record finds the tree it names, validated
\* and flushed: identity.json in the target directory, because the rename is
\* flushed before the identity is written, and a ready journal in one of the
\* two, so that it "resumes publication idempotently"
\* (docs/storage-durability.md:116).
RecordedTreeThere ==
    AlwaysOnDisk(state, LAMBDA s :
        /\ s.identity \in Trees =>
            /\ AlwaysOnDisk(parent, LAMBDA d : d.target = s.identity)
            /\ stage[s.identity] = "valid" /\ s.identity \in synced
        /\ s.journal.phase = "ready" =>
            /\ AlwaysOnDisk(parent, LAMBDA d : s.journal.tree \in {d.target, d.staging})
            /\ stage[s.journal.tree] = "valid" /\ s.journal.tree \in synced)

DurablyReady == \A s \in state.may : s.journal.phase = "ready"
Published == Identity \in Trees /\ Journal = NoUpgrade
Replaced == Journal # NoUpgrade /\ Journal.policy # policy

\* A ready journal that is on disk is eventually published, through every kill
\* and power loss, unless its policy was replaced or a postmaster that died
\* left its pid file behind.
ReadyPublished == DurablyReady ~> Published \/ Replaced \/ pidfile # {}

\* "A `ready` journal resumes publication idempotently, including after the new
\* identity was written" (docs/storage-durability.md:116): re-running the upgrade
\* ends in a publication whenever the configuration is still the one it bound.
\* Not what the code does: README, "Disagreements".
ReadyResumes == DurablyReady ~> Published \/ Replaced
=============================================================================
