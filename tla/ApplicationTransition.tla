----------------------- MODULE ApplicationTransition -----------------------
(***************************************************************************)
(* The move of one application resource from its source backend to its     *)
(* target backend (src/storage/application_transition.rs,                  *)
(* transition_manifest.rs, resource.rs, bin/harbor-db-transition-start.rs).*)
(*                                                                         *)
(* Root runs one command at a time (`op`), under barrier_dir/lock.  Its    *)
(* capture and import run as a `worker` that inherits every lease, so a    *)
(* worker that outlives a killed command still keeps the others out.       *)
(*                                                                         *)
(* A backend's content is the set of writes it holds.  The transition has  *)
(* no PostgreSQL manifest (postgres_manifest null: fence() returns at      *)
(* once), every run uses one manifest, and a run is planned from the old   *)
(* generation.                                                             *)
(***************************************************************************)
EXTENDS Integers, FiniteSets, DurableDir

CONSTANTS
    Units,            \* the units of the target generation
    Retired,          \* the units only the old generation runs
    Guarded,          \* units wrapped by `harbor-db resource serve`
    MaxRuns,          \* bound: transitions planned
    MaxWrites,        \* bound: acknowledged writes
    MaxCrashes        \* bound: kills and power losses

ASSUME TransitionAssumption ==
    /\ Units # {} /\ Units \cap Retired = {}
    \* op.dirty names a directory or a unit
    /\ (Units \cup Retired) \cap {"none", "state", "gate", "retired"} = {}
    /\ Guarded \subseteq Units \cup Retired
    /\ MaxRuns \in Nat \ {0} /\ MaxWrites \in Nat /\ MaxCrashes \in Nat

VARIABLES
    state,     \* state_dir: transition.json, identity.json, the custody file
    gate,      \* barrier_dir: start-policy.json, inhibited.json
    retired,   \* barrier_dir/retired: inhibited.json
    dropIn,    \* dropIn[u]: the drop-in directory of unit u
    anchored,  \* the target directories carry the identity anchor
    content,   \* content[side]: the writes a backend holds
    acked,     \* the writes acknowledged to clients
    backup,    \* backup[r]: the capture of run r, Junk until published
    receipt,   \* the independent restoration receipt: its run, still fresh?
    loaded,    \* units whose drop-in systemd has loaded
    up,        \* running units
    gen,       \* the running generation
    installed, \* generations the host can boot
    op,        \* the command: its next step, unflushed directory, state lease
    worker,    \* the capture or import under way
    runs,      \* transitions planned so far
    gaveUp,    \* the operator has decided to abort
    left,      \* history: directories a killed command changed and did not flush
    undone,    \* history: a power loss changed what is seen of such a directory
    crashes

files == <<state, gate, retired, dropIn>>
data == <<anchored, content, acked, backup, receipt>>
host == <<loaded, up, gen, installed>>
bounds == <<runs, gaveUp, left, undone, crashes>>
vars == <<state, gate, retired, dropIn, anchored, content, acked, backup, receipt,
          loaded, up, gen, installed, op, worker, runs, gaveUp, left, undone, crashes>>

\* units(config): what every barrier, drop-in and stop covers.
Barriered == Units \cup Retired

Sides == {"source", "target"}
Runs == 1..MaxRuns
NoRun == 0
Junk == {0}                    \* 0 marks a torn or absent content
Contents == SUBSET (0..MaxWrites)

Preparable == {"planned", "quiescing", "quiesced", "captured", "importing", "imported",
               "prepared"}
Committable == {"prepared", "committing", "committed"}
Phases == Preparable \cup Committable
            \cup {"none", "write-enabled", "complete", "aborting", "aborted"}

Journals == [phase : Phases, run : Runs \cup {NoRun}, bound : BOOLEAN]
NoJournal == [phase |-> "none", run |-> NoRun, bound |-> FALSE]

StateImages == [journal : Journals, identity : Sides, custody : Sides]
Policies == Sides \cup {"none"}
GateImages == [policy : Policies, marker : BOOLEAN]

Steps == {"idle", "policy", "drop_ins", "inhibit_retired", "reload", "stop", "lock",
          "capture", "capturing", "captured", "target", "import", "importing", "verify",
          "prepared", "anchors", "identity", "custody", "committed", "policy_new", "lift",
          "abort_identity", "abort_custody", "aborted", "policy_old", "lift_old",
          "lift_retired"}
Idle == [pc |-> "idle", dirty |-> "none", lease |-> "none"]
NoWorker == [task |-> "none", run |-> NoRun]

TypeOK ==
    /\ state \in Directory(StateImages)
    /\ gate \in Directory(GateImages)
    /\ retired \in Directory(BOOLEAN)
    /\ dropIn \in [Units \cup Retired -> Directory(BOOLEAN)]
    /\ anchored \in BOOLEAN
    /\ content \in [Sides -> Contents]
    /\ acked \in SUBSET (1..MaxWrites)
    /\ backup \in [Runs -> Contents]
    /\ receipt \in [run : Runs \cup {NoRun}, fresh : BOOLEAN]
    /\ loaded \in SUBSET (Units \cup Retired)
    /\ up \in SUBSET (Units \cup Retired)
    /\ gen \in {"old", "new"}
    /\ installed \in SUBSET {"old", "new"}
    /\ op \in [pc : Steps, lease : {"none", "shared", "exclusive"},
               dirty : {"none", "state", "gate", "retired"} \cup Units \cup Retired]
    /\ worker \in [task : {"none", "capture", "import"}, run : Runs \cup {NoRun}]
    /\ runs \in 0..MaxRuns /\ gaveUp \in BOOLEAN /\ crashes \in 0..MaxCrashes
    /\ left \subseteq {"state", "gate", "retired"} \cup Units \cup Retired
    /\ undone \in BOOLEAN

Journal == state.now.journal
Phase == Journal.phase
Captured == backup[Journal.run]

Init ==
    /\ state = Settled([journal |-> NoJournal, identity |-> "source", custody |-> "source"])
    /\ gate = Settled([policy |-> "none", marker |-> FALSE])
    /\ retired = Settled(FALSE)
    /\ dropIn = [u \in Units \cup Retired |-> Settled(FALSE)]
    /\ anchored = FALSE
    /\ content = [side \in Sides |-> IF side = "source" THEN {} ELSE Junk]
    /\ acked = {}
    /\ backup = [r \in Runs |-> Junk]
    /\ receipt = [run |-> NoRun, fresh |-> FALSE]
    /\ loaded = {} /\ up = {} /\ gen = "old" /\ installed = {"old"}
    /\ op = Idle /\ worker = NoWorker
    /\ runs = 0 /\ gaveUp = FALSE
    /\ left = {} /\ undone = FALSE /\ crashes = 0

-----------------------------------------------------------------------------
(* The resource authority and the start of a unit.                          *)

\* state_dir/lock: every running guarded unit holds it shared, for its life.
SharedLease == op.lease # "exclusive" /\ worker = NoWorker
ExclusiveLease == up \cap Guarded = {}

\* require_stable: ordinary startup waits for the end of a transition.
Stable == Phase \in {"none", "planned", "write-enabled", "complete", "aborted"}

\* verify: the registered authority and the anchors are this side's.
Verified(side) == state.now.identity = side /\ (side = "target" => anchored)

Check(side) == SharedLease /\ Stable /\ Verified(side)

\* The backend unit u opens in the running generation.
Side(u) == IF gen = "new" /\ u \in Units THEN "target" ELSE "source"

\* startup_unit, the drop-in's ExecCondition.
StartupUnit(u) ==
    LET policy == gate.now.policy
    IN  /\ policy # "none" /\ (policy = "target" => u \in Units)
        /\ policy = IF gen = "old" THEN "source" ELSE "target"
        /\ ~gate.now.marker
        /\ Check(policy)

\* ConditionPathExists=!inhibited.json, in barrier_dir or barrier_dir/retired.
Inhibited(u) == IF u \in Retired THEN retired.now ELSE gate.now.marker

StartUnit(u) ==
    /\ u \notin up
    /\ u \in loaded => ~Inhibited(u) /\ StartupUnit(u)
    /\ u \in Guarded => Check(Side(u))
    /\ up' = up \cup {u}
    /\ UNCHANGED <<files, data, loaded, gen, installed, op, worker, bounds>>

StopUnit(u) ==
    /\ u \in up
    /\ up' = up \ {u}
    /\ UNCHANGED <<files, data, loaded, gen, installed, op, worker, bounds>>

\* A running writer acknowledges a write once its backend holds it.
Write(u) ==
    /\ u \in up /\ Cardinality(acked) < MaxWrites
    /\ LET w == Cardinality(acked) + 1
       IN  /\ acked' = acked \cup {w}
           /\ content' = [content EXCEPT ![Side(u)] = @ \cup {w}]
    /\ UNCHANGED <<files, anchored, backup, receipt, host, op, worker, bounds>>

-----------------------------------------------------------------------------
(* The steps of a command.                                                  *)

Free == op = Idle /\ worker = NoWorker
At(step) == op.pc = step /\ op.dirty = "none"
Begin(step, dirty, lease) == op' = [pc |-> step, dirty |-> dirty, lease |-> lease]
Go(step, dirty) == op' = [op EXCEPT !.pc = step, !.dirty = dirty]

\* save: transition.json renamed into place, not yet flushed.
Save(phase) == state' = Changed(state, [state.now EXCEPT !.journal.phase = phase])

\* sync_directory after a rename, creation or unlink; a command that has made
\* its last change returns and drops its leases.
Flush ==
    /\ op.dirty # "none"
    /\ state' = IF op.dirty = "state" THEN Synced(state) ELSE state
    /\ gate' = IF op.dirty = "gate" THEN Synced(gate) ELSE gate
    /\ retired' = IF op.dirty = "retired" THEN Synced(retired) ELSE retired
    /\ dropIn' = [u \in DOMAIN dropIn |->
                    IF op.dirty = u THEN Synced(dropIn[u]) ELSE dropIn[u]]
    /\ op' = IF op.pc = "idle" THEN Idle ELSE [op EXCEPT !.dirty = "none"]
    /\ left' = left \ {op.dirty}
    /\ UNCHANGED <<data, host, worker, runs, gaveUp, undone, crashes>>

\* inspect_barriers: marker present, every drop-in in place and in force.
Barriers == gate.now.marker /\ \A u \in Barriered : dropIn[u].now /\ u \in loaded

\* evidence: the capture and a fresh independent receipt for it.
Evidence == Captured # Junk /\ receipt = [run |-> Journal.run, fresh |-> TRUE]

\* semantic(verify-target) against the captured source.
TargetEqualsCapture == content["target"] = Captured

VerifyPrepared == Barriers /\ Evidence /\ TargetEqualsCapture

-----------------------------------------------------------------------------
(* plan, prepare and bind: up to a verified target.                         *)

\* resource::inspection(source) admits a plan; its run identity is new.
Plan(candidate) ==
    /\ Free /\ ~gaveUp /\ runs < MaxRuns /\ gen = "old"
    /\ Phase = "none" /\ Check("source")
    /\ runs' = runs + 1
    /\ state' = Changed(state, [state.now EXCEPT !.journal =
                  [phase |-> "planned", run |-> runs + 1, bound |-> candidate]])
    /\ Begin("idle", "state", "shared")
    /\ UNCHANGED <<gate, retired, dropIn, data, host, worker, gaveUp, left, undone, crashes>>

Prepare ==
    /\ Free /\ ~gaveUp /\ Phase \in Preparable
    /\ Save(IF Phase = "planned" THEN "quiescing" ELSE Phase)
    /\ Begin("policy", "state", "none")
    /\ UNCHANGED <<gate, retired, dropIn, data, host, worker, bounds>>

\* install_barriers: policy, drop-ins, primary marker, retired marker, reload.
InstallPolicy ==
    /\ At("policy")
    /\ gate' = Changed(gate, [gate.now EXCEPT !.policy = "source"])
    /\ Go("drop_ins", "gate")
    /\ UNCHANGED <<state, retired, dropIn, data, host, worker, bounds>>

\* A drop-in found in place is compared, not written (nor flushed) again.
InstallDropIn(u) ==
    /\ At("drop_ins") /\ u \in Barriered /\ ~dropIn[u].now
    /\ dropIn' = [dropIn EXCEPT ![u] = Changed(@, TRUE)]
    /\ Go("drop_ins", u)
    /\ UNCHANGED <<state, gate, retired, data, host, worker, bounds>>

Inhibit ==
    /\ At("drop_ins") /\ \A u \in Barriered : dropIn[u].now
    /\ gate' = Changed(gate, [gate.now EXCEPT !.marker = TRUE])
    /\ Go(IF Retired = {} THEN "reload" ELSE "inhibit_retired", "gate")
    /\ UNCHANGED <<state, retired, dropIn, data, host, worker, bounds>>

InhibitRetired ==
    /\ At("inhibit_retired")
    /\ retired' = Changed(retired, TRUE)
    /\ Go("reload", "retired")
    /\ UNCHANGED <<state, gate, dropIn, data, host, worker, bounds>>

DaemonReload ==
    /\ At("reload")
    /\ loaded' = {u \in Units \cup Retired : dropIn[u].now}
    /\ Go("stop", "none")
    /\ UNCHANGED <<files, data, up, gen, installed, worker, bounds>>

BugStopsActiveOnly ==
    /\ At("stop")
    /\ up' = up \ Units
    /\ Go("lock", "none")
    /\ UNCHANGED <<files, data, loaded, gen, installed, worker, bounds>>

\* stop_units: systemctl stop, then every unit is inactive or failed.
StopUnits ==
    /\ At("stop")
    /\ up' = up \ Barriered
    /\ Go("lock", "none")
    /\ UNCHANGED <<files, data, loaded, gen, installed, worker, bounds>>

\* prepare_locked: the exclusive lease, the barriers and the old authority.
Quiescent == ExclusiveLease /\ Barriers /\ Verified("source")

Quiesce ==
    /\ At("lock") /\ Quiescent
    /\ IF Phase \in {"quiescing", "quiesced"}
         THEN Save("quiesced") /\ Begin("capture", "state", "exclusive")
         ELSE UNCHANGED state /\ Begin("target", "none", "exclusive")
    /\ UNCHANGED <<gate, retired, dropIn, data, host, worker, bounds>>

BugCaptureOfTheIntent ==
    /\ At("capture")
    /\ IF \A r \in Runs : backup[r] = Junk
         THEN worker' = [task |-> "capture", run |-> Journal.run] /\ Go("capturing", "none")
              /\ UNCHANGED backup
         ELSE /\ UNCHANGED worker /\ Go("captured", "none")
              /\ backup' = [backup EXCEPT ![Journal.run] =
                              CHOOSE c \in {backup[r] : r \in Runs} : c # Junk]
    /\ UNCHANGED <<files, anchored, content, acked, receipt, host, bounds>>

\* capture_source: the attempt is named by the intent and the run, and kept.
Capture ==
    /\ At("capture")
    /\ IF Captured = Junk
         THEN worker' = [task |-> "capture", run |-> Journal.run] /\ Go("capturing", "none")
         ELSE UNCHANGED worker /\ Go("captured", "none")
    /\ UNCHANGED <<files, data, host, bounds>>

SaveCaptured ==
    /\ At("captured")
    /\ Save("captured") /\ Go("target", "state")
    /\ UNCHANGED <<gate, retired, dropIn, data, host, worker, bounds>>

\* prepare_target: no receipt yet ends the command ("awaiting").
PrepareTarget ==
    /\ At("target") /\ Evidence
    /\ IF Phase \in {"imported", "prepared"}
         THEN UNCHANGED state /\ Go("verify", "none")
         ELSE Save("importing") /\ Go("import", "state")
    /\ UNCHANGED <<gate, retired, dropIn, data, host, worker, bounds>>

Import ==
    /\ At("import")
    /\ worker' = [task |-> "import", run |-> Journal.run] /\ Go("importing", "none")
    /\ UNCHANGED <<files, data, host, bounds>>

VerifyTarget ==
    /\ At("verify") /\ TargetEqualsCapture /\ Evidence
    /\ IF Phase = "prepared" THEN UNCHANGED state /\ Go("prepared", "none")
                             ELSE Save("imported") /\ Go("prepared", "state")
    /\ UNCHANGED <<gate, retired, dropIn, data, host, worker, bounds>>

SavePrepared ==
    /\ At("prepared")
    /\ Save("prepared") /\ Go("idle", "state")
    /\ UNCHANGED <<gate, retired, dropIn, data, host, worker, bounds>>

\* The worker ends: its result reaches the command if that still waits for it.
\* An import that fails or times out leaves the target torn.
WorkerEnds(ok) ==
    /\ worker # NoWorker
    /\ backup' = IF ok /\ worker.task = "capture"
                   THEN [backup EXCEPT ![worker.run] = content["source"]] ELSE backup
    /\ content' = IF worker.task = "import"
                    THEN [content EXCEPT !["target"] =
                            IF ok THEN backup[worker.run] ELSE Junk]
                    ELSE content
    /\ worker' = NoWorker
    /\ op' = IF op = Idle \/ ~ok THEN Idle
             ELSE [op EXCEPT !.pc = IF @ = "capturing" THEN "captured" ELSE "verify"]
    /\ UNCHANGED <<files, anchored, acked, receipt, host, bounds>>

Bind ==
    /\ Free /\ ~gaveUp /\ ExclusiveLease
    /\ Phase = "prepared" /\ Barriers /\ Evidence
    /\ state' = Changed(state, [state.now EXCEPT !.journal.bound = TRUE])
    /\ Begin("idle", "state", "exclusive")
    /\ UNCHANGED <<gate, retired, dropIn, data, host, worker, bounds>>

-----------------------------------------------------------------------------
(* admission, commit, enable-writes and complete.                           *)

\* admission: the bound generation is activated while writers are inhibited.
Activate ==
    /\ Free /\ ~gaveUp /\ ExclusiveLease /\ gen = "old"
    /\ Phase \in Committable /\ Journal.bound /\ VerifyPrepared
    /\ Phase = "committed" => Verified("target")
    /\ gen' = "new" /\ installed' = installed \cup {"new"}
    /\ UNCHANGED <<files, data, loaded, up, op, worker, bounds>>

BoundGenerationRuns == gen = "new" /\ Journal.bound

\* A committed transition is only verified again: nothing changes.
Commit ==
    /\ Free /\ ~gaveUp /\ ExclusiveLease
    /\ Phase \in {"prepared", "committing"} /\ BoundGenerationRuns /\ VerifyPrepared
    /\ Save("committing") /\ Begin("anchors", "state", "exclusive")
    /\ UNCHANGED <<gate, retired, dropIn, data, host, worker, bounds>>

PublishAnchors ==
    /\ At("anchors")
    /\ anchored' = TRUE /\ Go("identity", "none")
    /\ UNCHANGED <<files, content, acked, backup, receipt, host, worker, bounds>>

BugStrictSwap(step, side, next) ==
    /\ At(step) /\ state.now.identity # side
    /\ state' = Changed(state, [state.now EXCEPT !.identity = side]) /\ Go(next, "state")
    /\ UNCHANGED <<gate, retired, dropIn, data, host, worker, bounds>>

Publish(step, side, next) ==
    /\ At(step)
    /\ state' = Changed(state, [state.now EXCEPT !.identity = side]) /\ Go(next, "state")
    /\ UNCHANGED <<gate, retired, dropIn, data, host, worker, bounds>>

BugCustodyKept(step, side, next) ==
    /\ At(step)
    /\ state' = Changed(state, [state.now EXCEPT !.custody = "target"]) /\ Go(next, "state")
    /\ UNCHANGED <<gate, retired, dropIn, data, host, worker, bounds>>

PublishCustody(step, side, next) ==
    /\ At(step)
    /\ state' = Changed(state, [state.now EXCEPT !.custody = side]) /\ Go(next, "state")
    /\ UNCHANGED <<gate, retired, dropIn, data, host, worker, bounds>>

SaveCommitted ==
    /\ At("committed")
    /\ Save("committed") /\ Go("idle", "state")
    /\ UNCHANGED <<gate, retired, dropIn, data, host, worker, bounds>>

BugReleaseFirst ==
    /\ Free /\ ~gaveUp /\ ExclusiveLease /\ BoundGenerationRuns
    /\ Phase = "committed" \/ (Phase = "write-enabled" /\ gate.now.marker)
    /\ VerifyPrepared /\ Verified("target")
    /\ IF Phase = "committed"
         THEN Save("write-enabled") /\ Begin("policy_new", "none", "exclusive")
         ELSE UNCHANGED state /\ Begin("policy_new", "none", "exclusive")
    /\ UNCHANGED <<gate, retired, dropIn, data, host, worker, bounds>>

\* enable_writes, unless released before: the point of no return.
EnableWrites ==
    /\ Free /\ ~gaveUp /\ ExclusiveLease /\ BoundGenerationRuns
    /\ Phase = "committed" \/ (Phase = "write-enabled" /\ gate.now.marker)
    /\ VerifyPrepared /\ Verified("target")
    /\ IF Phase = "committed"
         THEN Save("write-enabled") /\ Begin("policy_new", "state", "exclusive")
         ELSE UNCHANGED state /\ Begin("policy_new", "none", "exclusive")
    /\ UNCHANGED <<gate, retired, dropIn, data, host, worker, bounds>>

EnableAgain ==
    /\ Free /\ ~gaveUp /\ BoundGenerationRuns
    /\ Phase = "write-enabled" /\ ~gate.now.marker
    /\ Begin("policy_new", "none", "shared")
    /\ UNCHANGED <<files, data, host, worker, bounds>>

\* release_barriers: the start policy, then the markers.
ReleasePolicy(step, policy, next) ==
    /\ At(step)
    /\ gate' = Changed(gate, [gate.now EXCEPT !.policy = policy]) /\ Go(next, "gate")
    /\ UNCHANGED <<state, retired, dropIn, data, host, worker, bounds>>

Lift(step, next) ==
    /\ At(step)
    /\ IF gate.now.marker
         THEN gate' = Changed(gate, [gate.now EXCEPT !.marker = FALSE]) /\ Go(next, "gate")
         ELSE UNCHANGED gate /\ op' = IF next = "idle" THEN Idle ELSE [op EXCEPT !.pc = next]
    /\ UNCHANGED <<state, retired, dropIn, data, host, worker, bounds>>

Complete ==
    /\ Free /\ ~gaveUp
    /\ Phase \in {"write-enabled", "complete"} /\ BoundGenerationRuns
    /\ ~gate.now.marker /\ Check("target")
    /\ Save("complete") /\ Begin("idle", "state", "shared")
    /\ UNCHANGED <<gate, retired, dropIn, data, host, worker, bounds>>

-----------------------------------------------------------------------------
(* abort and retire.                                                        *)

HasBackup == Phase \in {"captured", "importing", "imported", "aborting"} \cup Committable

\* bound_source_bytes and verify-source: the source still equals its capture.
SourceRetained == HasBackup => Captured # Junk /\ content["source"] = Captured

Abort ==
    /\ Free /\ ExclusiveLease /\ gen = "old"
    /\ Phase \notin {"none", "aborted", "write-enabled", "complete"}
    /\ SourceRetained
    /\ IF Phase \in {"committing", "committed", "aborting"}
         THEN Save("aborting") /\ Begin("abort_identity", "state", "exclusive")
         ELSE UNCHANGED state /\ Begin("aborted", "none", "exclusive")
    /\ UNCHANGED <<gate, retired, dropIn, data, host, worker, bounds>>

\* An aborted transition only releases its barriers again.
AbortAgain ==
    /\ Free /\ Phase = "aborted"
    /\ Begin("policy_old", "none", "shared")
    /\ UNCHANGED <<files, data, host, worker, bounds>>

SaveAborted ==
    /\ At("aborted") /\ Verified("source")
    /\ Save("aborted") /\ Go("policy_old", "state")
    /\ UNCHANGED <<gate, retired, dropIn, data, host, worker, bounds>>

LiftRetired ==
    /\ At("lift_retired")
    /\ IF retired.now
         THEN retired' = Changed(retired, FALSE) /\ Begin("idle", "retired", op.lease)
         ELSE UNCHANGED retired /\ op' = Idle
    /\ UNCHANGED <<state, gate, dropIn, data, host, worker, bounds>>

\* retire: release_pending looks at the primary marker; the journal is archived.
Retire ==
    /\ Free /\ ~gaveUp
    /\ Phase \in {"complete", "aborted"} /\ ~gate.now.marker
    /\ Verified(IF Phase = "complete" THEN "target" ELSE "source")
    /\ state' = Changed(state, [state.now EXCEPT !.journal = NoJournal])
    /\ Begin("idle", "state", "shared")
    /\ UNCHANGED <<gate, retired, dropIn, data, host, worker, bounds>>

\* A check that fails ends the command: its leases go, its files stay.
Refuse ==
    /\ \/ At("lock") /\ ~Quiescent
       \/ At("target") /\ ~Evidence
       \/ At("verify") /\ ~(TargetEqualsCapture /\ Evidence)
       \/ At("aborted") /\ ~Verified("source")
    /\ op' = Idle
    /\ UNCHANGED <<files, data, host, worker, bounds>>

-----------------------------------------------------------------------------
(* The operators, and what can go wrong.                                    *)

\* Another machine restores the capture and certifies it.  The journal binds
\* the receipt with `importing`; it is not replaced afterwards.
Certify ==
    /\ Phase \in {"quiesced", "captured"} /\ Captured # Junk
    /\ receipt' = [run |-> Journal.run, fresh |-> TRUE]
    /\ UNCHANGED <<files, anchored, content, acked, backup, host, op, worker, bounds>>

\* maximum_age_seconds passes.
Expire ==
    /\ receipt.fresh
    /\ receipt' = [receipt EXCEPT !.fresh = FALSE]
    /\ UNCHANGED <<files, anchored, content, acked, backup, host, op, worker, bounds>>

\* Between two commands (a killed one may have left its worker).
GiveUp ==
    /\ ~gaveUp /\ op = Idle /\ Phase # "none"
    /\ gaveUp' = TRUE
    /\ UNCHANGED <<files, data, host, op, worker, runs, left, undone, crashes>>

\* Only the command dies: its worker runs on with the leases.  A directory it
\* changed and did not flush stays as it is, until a command flushes it for a
\* change of its own.
Kill ==
    /\ crashes < MaxCrashes /\ op # Idle
    /\ op' = Idle /\ crashes' = crashes + 1
    /\ left' = left \cup ({op.dirty} \ {"none"})
    /\ UNCHANGED <<files, data, host, worker, runs, gaveUp, undone>>

\* The power loss changes what is seen of a directory that a killed command left
\* unflushed.
TakenBack ==
    \/ "state" \in left /\ state'.now # state.now
    \/ "gate" \in left /\ gate'.now # gate.now
    \/ "retired" \in left /\ retired'.now # retired.now
    \/ \E u \in left \cap Barriered : dropIn'[u].now # dropIn[u].now

\* The host comes back in one of its generations, with the drop-ins on disk.
Boot(g) ==
    /\ up' = {} /\ gen' = g
    /\ loaded' = {u \in Units \cup Retired : dropIn'[u].now}
    /\ op' = Idle /\ worker' = NoWorker
    /\ content' = IF worker.task = "import" THEN [content EXCEPT !["target"] = Junk]
                                            ELSE content
    /\ UNCHANGED <<anchored, acked, backup, receipt, installed, runs, gaveUp>>

PowerLoss ==
    /\ crashes < MaxCrashes /\ crashes' = crashes + 1
    /\ state' \in AfterLoss(state)
    /\ gate' \in AfterLoss(gate)
    /\ retired' \in AfterLoss(retired)
    /\ dropIn' \in {d \in [Units \cup Retired -> {Settled(TRUE), Settled(FALSE)}] :
                      \A u \in Units \cup Retired : d[u] \in AfterLoss(dropIn[u])}
    /\ left' = {} /\ undone' = (undone \/ TakenBack)
    /\ \E g \in installed : Boot(g)

\* An operator who has given up boots the source generation again.
RollBack ==
    /\ gaveUp /\ Free /\ gen = "new"
    /\ UNCHANGED <<files, left, undone, crashes>>
    /\ Boot("old")

Proceed ==
    \/ Flush \/ Refuse
    \/ InstallPolicy \/ (\E u \in Units \cup Retired : InstallDropIn(u))
    \/ Inhibit \/ InhibitRetired \/ DaemonReload \/ StopUnits \/ Quiesce
    \/ Capture \/ SaveCaptured \/ PrepareTarget \/ Import \/ VerifyTarget \/ SavePrepared
    \/ PublishAnchors \/ Publish("identity", "target", "custody")
    \/ PublishCustody("custody", "target", "committed") \/ SaveCommitted
    \/ ReleasePolicy("policy_new", "target", "lift") \/ Lift("lift", "idle")
    \/ Publish("abort_identity", "source", "abort_custody")
    \/ PublishCustody("abort_custody", "source", "aborted") \/ SaveAborted
    \/ ReleasePolicy("policy_old", "source", "lift_old")
    \/ Lift("lift_old", IF Retired = {} THEN "idle" ELSE "lift_retired") \/ LiftRetired

Next ==
    \/ \E candidate \in BOOLEAN : Plan(candidate)
    \/ Prepare \/ Bind \/ Activate \/ Commit \/ EnableWrites \/ EnableAgain \/ Complete
    \/ Abort \/ AbortAgain \/ Retire
    \/ Proceed
    \/ \E ok \in BOOLEAN : WorkerEnds(ok)
    \/ \E u \in Units \cup Retired : StartUnit(u) \/ StopUnit(u) \/ Write(u)
    \/ Certify \/ Expire \/ GiveUp \/ RollBack
    \/ Kill \/ PowerLoss

Spec == Init /\ [][Next]_vars

\* A command runs on and a worker ends (both have deadlines); the operator who
\* gave up boots the old generation and repeats abort until it returns, having
\* stopped the guarded units that keep the lease.
FairSpec ==
    /\ Spec
    /\ WF_vars(Proceed) /\ WF_vars(\E ok \in BOOLEAN : WorkerEnds(ok))
    /\ WF_vars(RollBack) /\ SF_vars(Abort) /\ SF_vars(AbortAgain)
    /\ WF_vars(gaveUp /\ \E u \in Guarded : StopUnit(u))

-----------------------------------------------------------------------------
(* Properties.                                                              *)

\* A killed command may leave a change without its flush and the next one accepts
\* what it finds, so a power loss may take back what was answered for long ago
\* (README, "Findings").  `undone` says that this has happened.

\* No acknowledged write is lost to the application: whatever was aborted,
\* killed or rebooted, a running unit opens a backend that holds every write
\* ever acknowledged (docs/application-storage.md:327, "Backend transitions").
NoWriteLost == ~undone => \A u \in up : acked \subseteq content[Side(u)]

\* Two units never run on different backends at once, and from the quiesced
\* record to the release nothing runs at all: the capture, the import and the
\* published authority are about a source that stands still.
OneSide ==
    ~undone =>
      /\ \A u, v \in up : Side(u) = Side(v)
      /\ Phase \in {"quiesced", "captured", "importing", "imported", "prepared",
                    "committing", "committed", "aborting"} => up = {}

\* Outside the two journaled publications, identity and custody name the
\* backend of the phase (without a journal: the same one), now and after any
\* power loss.
AuthorityWhole ==
    AlwaysOnDisk(state, LAMBDA s :
        LET side == IF s.journal.phase \in {"committed", "write-enabled", "complete"}
                      THEN "target" ELSE "source"
        IN  /\ s.journal.phase \notin {"committing", "aborting"} => s.identity = s.custody
            /\ s.journal.phase \notin {"none", "committing", "aborting"} => s.identity = side
            /\ s.identity = "target" => anchored)

\* enable-writes "persists the point of no return before removing client
\* inhibition" (docs/application-storage.md:442): once the primary marker goes,
\* no power loss brings back a journal that abort would accept.  Not what the
\* code does: README, "Findings".
PointOfNoReturnPersists ==
    [][gate.now.marker /\ ~gate'.now.marker /\ crashes' = crashes /\ Phase # "aborted" =>
         AlwaysOnDisk(state, LAMBDA s : s.journal.phase = "write-enabled")]_vars

\* The same of every release that does not find the phase a killed enable-writes
\* left in state_dir (application_transition.rs:715 does not save it again).
ReleasePersists ==
    [][gate.now.marker /\ ~gate'.now.marker /\ crashes' = crashes /\ Phase # "aborted" =>
         "state" \in left \/ AlwaysOnDisk(state, LAMBDA s : s.journal.phase = "write-enabled")]_vars

\* "A retained inhibition marker blocks completion and retirement"
\* (docs/application-storage.md:453): no marker outlives an aborted journal.
\* Not what the code does: README, "Disagreements".
RetirementLeavesNoMarker ==
    [][Phase = "aborted" /\ Phase' = "none" => ~gate.now.marker /\ ~retired.now]_vars

\* An operator who gives up ends with the source backend, its custody and no
\* marker, unless writers had been released to the target before.
AbortEnds ==
    gaveUp ~> \/ Phase \in {"write-enabled", "complete"} \/ undone
              \/ /\ Phase = "aborted" /\ ~gate.now.marker /\ ~retired.now
                 /\ state.now.identity = "source" /\ state.now.custody = "source"
=============================================================================
