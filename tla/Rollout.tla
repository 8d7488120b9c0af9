------------------------------ MODULE Rollout ------------------------------
(***************************************************************************)
(* The rollout coordinator (src/storage/postgres_rollout.rs): one journal, *)
(* rollout.json, sequences the verbs of the primary's authority around a   *)
(* maintenance window, and unwinds it again after a thaw or an abort.      *)
(*                                                                         *)
(* One invocation runs at a time (rollout.lock and the execution lock) and *)
(* may be killed between any two of its steps: `op` is its memory, which a *)
(* kill loses, everything else survives.  Beside it run the preparation    *)
(* worker (a systemd unit, which outlives a killed coordinator), systemd,  *)
(* the operator who activates generations, and another coordinator with a  *)
(* writer fence of its own.                                                *)
(*                                                                         *)
(* The verbs of the authority (inhibit-startup, fence-open, fence-close,   *)
(* release-startup) are atomic here; WriterFence has their steps.  An      *)
(* optional value is a set of at most one element.                         *)
(***************************************************************************)
EXTENDS Integers, FiniteSets

CONSTANTS
    Clients,      \* declared writer clients: stopped, then returned
    Retired,      \* declared clients the rollout stops for good
    Receivers,    \* WAL receivers
    Publishers,   \* backup publishers, paused by a condition
    Dependents,   \* units systemd stops with the primary
    Removed,      \* units the candidate generation does not load
    MaxFences,    \* bound: writer fences ever opened
    MaxWrites,    \* bound: writes to the primary
    MaxExports,   \* bound: distinct exports the worker writes
    MaxKills,     \* bound: kills of the coordinator and reboots
    MaxFailures,  \* bound: unit starts that fail
    MaxLost,      \* bound: lost journals
    ForeignActs,  \* another coordinator may open fences
    TimersRace,   \* a timer may fire while an invocation runs
    Alters        \* ALTER SYSTEM may run on the reopened primary

Units == Clients \cup Retired \cup Receivers \cup Publishers

ASSUME RolloutAssumption ==
    /\ Clients \cap Retired = {} /\ Receivers \cap Publishers = {}
    /\ (Clients \cup Retired) \cap (Receivers \cup Publishers) = {}
    /\ Dependents \subseteq Units \ Publishers /\ Removed \subseteq Units
    /\ MaxFences \in Nat /\ MaxWrites \in Nat /\ MaxExports \in Nat
    /\ MaxKills \in Nat /\ MaxFailures \in Nat /\ MaxLost \in Nat
    /\ ForeignActs \in BOOLEAN /\ TimersRace \in BOOLEAN /\ Alters \in BOOLEAN

VARIABLES
    journal,    \* rollout.json
    op,         \* the running invocation
    held,       \* the startup inhibition in force
    fence,      \* the writer fence in force
    closed,     \* fences whose closed boundary still reads back
    primary,    \* the primary runs
    running,    \* running units
    skipped,    \* units whose last start a condition skipped
    paused,     \* the publishers' pause marker and its drop-ins
    evidence,   \* the record snapshot, its binding and its export
    offHost,    \* the admitted off-host receipt
    slot,       \* the import slot
    worker,     \* the preparation worker
    acceptance, \* the fence named by acceptance.json
    installed,  \* the candidate generation runs
    profile,    \* the candidate is the boot default
    booted,     \* the host booted the candidate
    data,       \* what the primary's records hold
    tokens,     \* fences opened so far
    ours,       \* of them, the ones this coordinator opened
    owed,       \* units it stopped and has not started again
    adopted,    \* fences the candidate's records were adopted under
    forgotten,  \* of them, the ones whose journal was lost since
    gaveUp,     \* the operator only unwinds from here on
    kills, failures, lost

authority == <<held, fence, closed, primary>>
units == <<running, skipped, paused, owed>>
window == <<evidence, offHost, slot, worker, acceptance>>
generation == <<installed, profile, booted>>
record == <<data, tokens, ours, adopted, forgotten, gaveUp>>
bounds == <<kills, failures, lost>>
vars == <<journal, op, authority, units, window, generation, record, bounds>>

Option(S) == {{}} \cup {{x} : x \in S}
Tokens == 1..MaxFences
Inhibitions == 1..2      \* only compared with the journal's
Exports == 1..MaxExports
Receipts == [window : 0..MaxFences, export : 0..MaxExports]
Snapshots == [window : Tokens, data : 0..MaxWrites, export : 0..MaxExports, fresh : BOOLEAN]

Phases == {"none", "idle", "fenced", "prepared", "imported", "adopted", "activated",
           "thawed", "aborted"}
Journals ==
    [phase : Phases, clients : SUBSET Units, startup_token : Option(Inhibitions),
     fence_token : Option(Tokens), export : Option(Exports), receipt : Option(Receipts),
     accepted : BOOLEAN, pending_receivers : SUBSET Units, stopped_publishers : SUBSET Units,
     pending_clients : SUBSET Units, unloaded : SUBSET Units, inhibiting : BOOLEAN,
     fence_opening : BOOLEAN, reopened : BOOLEAN]

NoJournal ==
    [phase |-> "none", clients |-> {}, startup_token |-> {}, fence_token |-> {},
     export |-> {}, receipt |-> {}, accepted |-> FALSE, pending_receivers |-> {},
     stopped_publishers |-> {}, pending_clients |-> {}, unloaded |-> {},
     inhibiting |-> FALSE, fence_opening |-> FALSE, reopened |-> FALSE]
Fresh == [NoJournal EXCEPT !.phase = "idle"]

Acts == {"none", "fence", "prepare", "import", "adopt", "thaw", "abort"}
Steps == {"idle", "check", "intent", "inhibit", "startup_token", "pause", "publishers",
          "publisher_stop", "clients", "client_stop", "dependents", "primary_stop",
          "opening", "open", "fence_token", "release", "start", "verify",
          "unwind", "boundary", "restart_only", "live", "skipped", "close", "reopened",
          "return", "started", "lift", "lifted", "retire", "final",
          "aside", "receipt", "stage", "recover", "receivers", "receiver_stop", "launch",
          "await", "ready", "stopped"}
Idle == [act |-> "none", pc |-> "idle", boundary |-> "prepared", list |-> "clients",
         todo |-> {}, unit |-> {}, failed |-> FALSE, receipt |-> {}]

NoWorker == [pc |-> "idle", import |-> FALSE]

TypeOK ==
    /\ journal \in Journals
    /\ op \in [act : Acts, pc : Steps, boundary : {"prepared", "closed"},
               list : {"clients", "receivers", "publishers", "resume"},
               todo : SUBSET Units, unit : Option(Units), failed : BOOLEAN,
               receipt : Option(Receipts)]
    /\ held \in Option(Inhibitions) /\ fence \in Option(Tokens) /\ closed \in SUBSET Tokens
    /\ primary \in BOOLEAN /\ paused \in BOOLEAN
    /\ running \in SUBSET Units /\ skipped \in SUBSET Units /\ owed \in SUBSET Units
    /\ evidence \in Option(Snapshots) /\ offHost \in Option(Receipts) /\ slot \in Option(Receipts)
    /\ worker \in [pc : {"idle", "start", "export", "import", "admit"}, import : BOOLEAN]
    /\ acceptance \in Option(Tokens)
    /\ installed \in BOOLEAN /\ profile \in BOOLEAN /\ booted \in BOOLEAN
    /\ data \in 0..MaxWrites /\ tokens \in 0..MaxFences /\ ours \in SUBSET Tokens
    /\ adopted \in SUBSET Tokens /\ forgotten \in SUBSET Tokens
    /\ gaveUp \in BOOLEAN
    /\ kills \in 0..MaxKills /\ failures \in 0..MaxFailures /\ lost \in 0..MaxLost

Init ==
    /\ journal = NoJournal /\ op = Idle
    /\ held = {} /\ fence = {} /\ closed = {} /\ primary = TRUE
    /\ \E idle \in SUBSET Clients : running = Units \ idle
    /\ skipped = {} /\ paused = FALSE /\ owed = {}
    /\ evidence = {} /\ offHost = {} /\ slot = {} /\ worker = NoWorker /\ acceptance = {}
    /\ installed = FALSE /\ profile = FALSE /\ booted = FALSE
    /\ data = 0 /\ tokens = 0 /\ ours = {} /\ gaveUp = FALSE
    /\ adopted = {} /\ forgotten = {}
    /\ kills = 0 /\ failures = 0 /\ lost = 0

-----------------------------------------------------------------------------
(* The steps of an invocation.                                              *)

Coordinator == op.pc # "idle"
At(pc) == op.pc = pc
Go(pc) == op' = [op EXCEPT !.pc = pc]
Refuse == op' = Idle
GoIf(allowed, pc) == IF allowed THEN Go(pc) ELSE Refuse
Unwinding == op.act \in {"thaw", "abort"}

\* bound: the journal, or a fresh one that is saved with its first change.
Bound == IF journal.phase = "none" THEN Fresh ELSE journal
Save(j) == journal' = j

Loaded(u) == ~(installed /\ u \in Removed)
InspectFence == fence # {} /\ fence = journal.fence_token /\ primary

\* inspect-recovery: fresh evidence bound to the live fence, and its receipt.
Admitted ==
    \E e \in evidence, r \in offHost :
       e.fresh /\ fence = {e.window} /\ r.window = e.window

\* refuse_foreign_fence.  The operator adopts a fence only after confirming
\* that no other coordinator opened it.
BugAnyFenceOwned(j) == fence \subseteq j.fence_token \/ j.fence_opening \/ fence # {}
OwnFence(j) ==
    \/ fence \subseteq j.fence_token
    \/ j.fence_opening /\ fence \subseteq ours

\* refuse_stale_evidence, check_slot_directory.
NoStaleEvidence(j) ==
    \/ evidence = {} /\ offHost = {}
    \/ \E e \in evidence : j.fence_token = {e.window}

Preflight == OwnFence(Bound) /\ slot = {} /\ NoStaleEvidence(Bound)

-----------------------------------------------------------------------------
(* fence: inhibit, pause_publishers, stop_clients, stop_primary, open_fence, *)
(* release_startup, start_primary, inspect_fence.                            *)

FenceCheck ==
    /\ op.act = "fence" /\ At("check")
    /\ IF journal.phase = "fenced" THEN Go("clients")
       ELSE GoIf(journal.phase \in {"none", "idle"} /\ Preflight, "intent")
    /\ UNCHANGED <<journal, authority, units, window, generation, record, bounds>>

BugIntentUnrecorded ==
    /\ At("intent")
    /\ Go("inhibit")
    /\ UNCHANGED <<journal, authority, units, window, generation, record, bounds>>

Intent ==
    /\ At("intent")
    /\ Save([Bound EXCEPT !.inhibiting = TRUE])
    /\ Go("inhibit")
    /\ UNCHANGED <<authority, units, window, generation, record, bounds>>

\* inhibit-startup is shared and idempotent: a held inhibition is returned.
Inhibit ==
    /\ At("inhibit")
    /\ IF held # {} THEN UNCHANGED held
       ELSE held' = {CHOOSE i \in Inhibitions : i \notin journal.startup_token}
    /\ Go("startup_token")
    /\ UNCHANGED <<journal, fence, closed, primary, units, window, generation, record, bounds>>

StartupToken ==
    /\ At("startup_token")
    /\ Save([journal EXCEPT !.startup_token = held])
    /\ IF Unwinding THEN op' = [op EXCEPT !.pc = "dependents", !.boundary = "closed"]
       ELSE Go("pause")
    /\ UNCHANGED <<authority, units, window, generation, record, bounds>>

\* The marker and the drop-in of each publisher are one step: systemd reads them
\* together, at the reload after the last one, and a retry writes all of them;
\* a boot that finds some of them only is left out.
PausePublishers ==
    /\ At("pause")
    /\ paused' = (Publishers # {})
    /\ Go("publishers")
    /\ UNCHANGED <<journal, authority, running, skipped, owed, window, generation, record, bounds>>

\* Recorded before it is stopped.
Publisher ==
    /\ At("publishers")
    /\ LET active == {u \in Publishers \cap running : Loaded(u)} IN
       IF active = {} THEN Go("clients") /\ UNCHANGED journal
       ELSE \E u \in active :
              /\ Save([journal EXCEPT !.stopped_publishers = @ \cup {u}])
              /\ op' = [op EXCEPT !.pc = "publisher_stop", !.unit = {u}]
    /\ UNCHANGED <<authority, units, window, generation, record, bounds>>

StopUnit(u) == running' = running \ {u} /\ owed' = owed \cup ({u} \cap running)

PublisherStop ==
    /\ At("publisher_stop")
    /\ \E u \in op.unit : StopUnit(u)
    /\ op' = [op EXCEPT !.pc = "publishers", !.unit = {}]
    /\ UNCHANGED <<journal, authority, skipped, paused, window, generation, record, bounds>>

\* stop_clients: the inventory is journaled, then stopped unit by unit.
RecordClients ==
    /\ At("clients")
    /\ LET recorded == journal.clients \cup ((Clients \cup Retired) \cap running) IN
       /\ Save([journal EXCEPT !.clients = recorded])
       /\ op' = [op EXCEPT !.pc = "client_stop", !.todo = recorded]
    /\ UNCHANGED <<authority, units, window, generation, record, bounds>>

ClientStop ==
    /\ At("client_stop")
    /\ IF op.todo = {}
       THEN Go(IF journal.phase = "idle" THEN "dependents" ELSE "verify") /\ UNCHANGED <<running, owed>>
       ELSE \E u \in op.todo : StopUnit(u) /\ op' = [op EXCEPT !.todo = @ \ {u}]
    /\ UNCHANGED <<journal, authority, skipped, paused, window, generation, record, bounds>>

\* stop_primary: systemd stops every unit that requires the primary with it.
Dependent ==
    /\ At("dependents")
    /\ LET stopped == {u \in Dependents \cap running : u \notin Retired /\ Loaded(u)} IN
       Save([journal EXCEPT !.clients = @ \cup (stopped \ Receivers),
                            !.pending_receivers = @ \cup (stopped \cap Receivers)])
    /\ Go("primary_stop")
    /\ UNCHANGED <<authority, units, window, generation, record, bounds>>

PrimaryStop ==
    /\ At("primary_stop")
    /\ primary' = FALSE
    /\ running' = running \ Dependents
    /\ owed' = owed \cup (Dependents \cap running)
    /\ Go(IF op.boundary = "prepared" THEN "opening" ELSE "close")
    /\ UNCHANGED <<journal, held, fence, closed, skipped, paused, window, generation, record, bounds>>

Opening ==
    /\ At("opening")
    /\ IF OwnFence(journal)
       THEN Save([journal EXCEPT !.fence_opening = TRUE]) /\ Go("open")
       ELSE Refuse /\ UNCHANGED journal
    /\ UNCHANGED <<authority, units, window, generation, record, bounds>>

\* fence-open resumes whatever prepared fence it finds.
Open ==
    /\ At("open")
    /\ IF fence # {} THEN UNCHANGED <<fence, tokens, ours>>
       ELSE /\ tokens < MaxFences
            /\ tokens' = tokens + 1 /\ fence' = {tokens'} /\ ours' = ours \cup fence'
    /\ Go("fence_token")
    /\ UNCHANGED <<journal, held, closed, primary, units, window, generation, data, adopted,
                   forgotten, gaveUp, bounds>>

FenceToken ==
    /\ At("fence_token")
    /\ Save([journal EXCEPT !.fence_token = fence])
    /\ Go("release")
    /\ UNCHANGED <<authority, units, window, generation, record, bounds>>

\* release-startup reads the offline boundary back.
Release ==
    /\ At("release")
    /\ LET boundary == IF op.boundary = "prepared" THEN fence = journal.fence_token
                       ELSE fence = {} /\ journal.fence_token \subseteq closed IN
       IF held # {} /\ held = journal.startup_token /\ ~primary /\ boundary
       THEN /\ held' = {}
            /\ Go(IF Unwinding /\ op.boundary = "prepared" THEN "skipped" ELSE "start")
       ELSE Refuse /\ UNCHANGED held
    /\ UNCHANGED <<journal, fence, closed, primary, units, window, generation, record, bounds>>

\* A start that the inhibition's condition skips is no error to systemctl.
Start ==
    /\ At("start") \/ At("restart_only")
    /\ primary' = (primary \/ held = {})
    /\ Go(IF Unwinding THEN "live" ELSE "verify")
    /\ UNCHANGED <<journal, held, fence, closed, units, window, generation, record, bounds>>

Verify ==
    /\ At("verify")
    /\ IF journal.phase = "idle" /\ InspectFence THEN Save([journal EXCEPT !.phase = "fenced"])
       ELSE UNCHANGED journal
    /\ Refuse
    /\ UNCHANGED <<authority, units, window, generation, record, bounds>>

-----------------------------------------------------------------------------
(* reopen, for a thaw or an abort.                                          *)

\* A token lost between inhibit-startup and its save is read from Harbor.
Unwind ==
    /\ At("unwind")
    /\ IF journal.reopened
       THEN op' = [op EXCEPT !.pc = "return", !.list = "clients", !.todo = journal.pending_clients]
       ELSE Go("boundary")
    /\ IF ~journal.reopened /\ journal.inhibiting /\ journal.startup_token = {}
       THEN Save([journal EXCEPT !.startup_token = held]) ELSE UNCHANGED journal
    /\ UNCHANGED <<authority, units, window, generation, record, bounds>>

\* Harbor releases startup only at a fence boundary: one that is missing is
\* completed first, unless the shared inhibition was released at another's.
BugBoundarySkipped ==
    /\ At("boundary")
    /\ Go("skipped")
    /\ UNCHANGED <<journal, authority, units, window, generation, record, bounds>>

Boundary ==
    /\ At("boundary")
    /\ IF journal.fence_token # {} \/ journal.startup_token = {} THEN Go("skipped")
       ELSE IF held # journal.startup_token THEN Go("restart_only")
       ELSE GoIf(OwnFence(journal), "dependents")
    /\ UNCHANGED <<journal, authority, units, window, generation, record, bounds>>

\* Declared clients whose start the fence skipped are recorded before the
\* fence, and the marker that tells when it began, is gone.
BugSkippedForgotten ==
    /\ At("skipped")
    /\ Go(IF journal.fence_token = {} THEN "reopened" ELSE "intent")
    /\ UNCHANGED <<journal, authority, units, window, generation, record, bounds>>

Skipped ==
    /\ At("skipped")
    /\ IF journal.fence_token = {} THEN Go("reopened") /\ UNCHANGED journal
       ELSE /\ IF fence = {} THEN UNCHANGED journal
               ELSE Save([journal EXCEPT !.clients = @ \cup (skipped \cap Clients)])
            /\ Go("intent")
    /\ UNCHANGED <<authority, units, window, generation, record, bounds>>

Close ==
    /\ At("close")
    /\ IF fence = {} /\ journal.fence_token \subseteq closed
       THEN Go("release") /\ UNCHANGED <<fence, closed>>
       ELSE IF fence = journal.fence_token
       THEN /\ fence' = {} /\ closed' = closed \cup journal.fence_token
            /\ Go("release")
       ELSE Refuse /\ UNCHANGED <<fence, closed>>
    /\ UNCHANGED <<journal, held, primary, units, window, generation, record, bounds>>

\* inspect_live; skipped for a primary restarted under another's fence.
Live ==
    /\ At("live")
    /\ GoIf(primary \/ (journal.fence_token = {} /\ fence # {}), "reopened")
    /\ UNCHANGED <<journal, authority, units, window, generation, record, bounds>>

Reopened ==
    /\ At("reopened")
    /\ LET returning == journal.clients \ Retired IN
       /\ Save([journal EXCEPT !.pending_clients = returning, !.reopened = TRUE])
       /\ op' = [op EXCEPT !.pc = "return", !.list = "clients", !.todo = returning]
    /\ UNCHANGED <<authority, units, window, generation, record, bounds>>

\* restart: every unit of the list is tried; each one started leaves it and
\* is journaled at once, one the generation does not load moves to `unloaded`.
Left(u) ==
    CASE op.list = "clients"    -> [journal EXCEPT !.pending_clients = @ \ {u}]
      [] op.list = "publishers" -> [journal EXCEPT !.stopped_publishers = @ \ {u}]
      [] OTHER                  -> [journal EXCEPT !.pending_receivers = @ \ {u}]

Return ==
    /\ At("return")
    /\ \E u \in op.todo :
         \/ /\ ~Loaded(u)
            /\ Save([Left(u) EXCEPT !.unloaded = @ \cup {u}])
            /\ op' = [op EXCEPT !.todo = @ \ {u}]
            /\ UNCHANGED <<running, skipped, owed, failures>>
         \/ /\ Loaded(u)
            /\ IF u \in Clients /\ fence # {}      \* its own condition skips it
               THEN skipped' = skipped \cup {u} /\ UNCHANGED running
               ELSE running' = running \cup {u} /\ skipped' = skipped \ {u}
            /\ owed' = owed \ {u}
            /\ op' = [op EXCEPT !.pc = "started", !.unit = {u}, !.todo = @ \ {u}]
            /\ UNCHANGED <<journal, failures>>
         \/ /\ Loaded(u) /\ failures < MaxFailures
            /\ failures' = failures + 1
            /\ op' = [op EXCEPT !.failed = TRUE, !.todo = @ \ {u}]
            /\ UNCHANGED <<journal, running, skipped, owed>>
    /\ UNCHANGED <<authority, paused, window, generation, record, kills, lost>>

Started ==
    /\ At("started")
    /\ \E u \in op.unit : Save(Left(u))
    /\ op' = [op EXCEPT !.pc = "return", !.unit = {}]
    /\ UNCHANGED <<authority, units, window, generation, record, bounds>>

\* Clients, then receivers, then the publishers once the pause is lifted; the
\* first failure is reported after all of them were tried.
Returned ==
    /\ At("return") /\ op.todo = {}
    /\ CASE op.list = "clients" ->
              op' = [op EXCEPT !.list = "receivers", !.todo = journal.pending_receivers]
         [] op.list = "receivers" /\ Unwinding -> Go("lift")
         [] op.list = "publishers" -> GoIf(~op.failed, "retire")
         [] op.list = "resume" -> GoIf(~op.failed, "check")
         [] OTHER -> Refuse
    /\ UNCHANGED <<journal, authority, units, window, generation, record, bounds>>

\* lift_pause: publishers whose start the pause skipped are recorded first.
Lift ==
    /\ At("lift")
    /\ IF paused THEN Save([journal EXCEPT !.stopped_publishers = @ \cup (skipped \cap Publishers)])
       ELSE UNCHANGED journal
    /\ Go("lifted")
    /\ UNCHANGED <<authority, units, window, generation, record, bounds>>

Lifted ==
    /\ At("lifted")
    /\ paused' = FALSE
    /\ op' = [op EXCEPT !.pc = "return", !.list = "publishers", !.todo = journal.stopped_publishers]
    /\ UNCHANGED <<journal, authority, running, skipped, owed, window, generation, record, bounds>>

\* retire_slot, then the terminal phase.
RetireSlot ==
    /\ At("retire")
    /\ slot' = IF journal.receipt = {} THEN slot ELSE {}
    /\ Go("final")
    /\ UNCHANGED <<journal, authority, units, evidence, offHost, worker, acceptance, generation, record, bounds>>

Final ==
    /\ At("final")
    /\ Save([journal EXCEPT !.phase = IF op.act = "thaw" THEN "thawed" ELSE "aborted"])
    /\ Refuse
    /\ UNCHANGED <<authority, units, window, generation, record, bounds>>

-----------------------------------------------------------------------------
(* prepare and import.                                                      *)

\* settle_prepared: the evidence must be bound to this rollout's fence.
Prepared(j) ==
    {[j EXCEPT !.phase = "prepared", !.export = {e.export}] :
        e \in {x \in evidence : x.export # 0 /\ j.fence_token = {x.window}}}

\* settle_imported: only over the export that was handed off.
Imported(j) ==
    IF j.export = {} \/ \E e \in evidence : j.export = {e.export}
    THEN {[j EXCEPT !.phase = "imported"]} ELSE {}

\* The outcome is journaled before the receivers are returned.
Settle(outcome, next) ==
    /\ IF outcome = {} THEN UNCHANGED journal ELSE journal' \in outcome
    /\ IF next = "idle" THEN Refuse
       ELSE op' = [op EXCEPT !.pc = next, !.list = "receivers", !.todo = journal.pending_receivers]

BugRecoverUnfenced ==
    /\ op.act \in {"prepare", "import"} /\ At("recover")
    /\ IF slot # {} /\ slot # journal.receipt THEN Refuse /\ UNCHANGED journal
       ELSE IF slot # {} /\ Admitted THEN Settle(Imported(journal), "idle")
       ELSE IF slot = {} /\ Prepared(journal) # {} THEN Settle(Prepared(journal), "idle")
       ELSE Go("receivers") /\ UNCHANGED journal
    /\ UNCHANGED <<authority, units, window, generation, record, bounds>>

\* recovered_outcome: a worker that finished before it was journaled.
Recover ==
    /\ op.act \in {"prepare", "import"} /\ At("recover")
    /\ IF ~InspectFence \/ (slot # {} /\ slot # journal.receipt) THEN Refuse /\ UNCHANGED journal
       ELSE IF slot # {} /\ Admitted THEN Settle(Imported(journal), "idle")
       ELSE IF slot = {} /\ Prepared(journal) # {} THEN Settle(Prepared(journal), "idle")
       ELSE Go("receivers") /\ UNCHANGED journal
    /\ UNCHANGED <<authority, units, window, generation, record, bounds>>

PrepareCheck ==
    /\ op.act = "prepare" /\ At("check")
    /\ GoIf(journal.phase \in {"fenced", "prepared"}, "recover")
    /\ UNCHANGED <<journal, authority, units, window, generation, record, bounds>>

\* import: a slot that holds an unrecorded receipt is never replaced.
ImportCheck ==
    /\ op.act = "import" /\ At("check")
    /\ IF journal.phase # "prepared" \/ (slot # {} /\ slot \notin {op.receipt, journal.receipt})
       THEN Refuse ELSE Go("aside")
    /\ UNCHANGED <<journal, authority, units, window, generation, record, bounds>>

SetAside ==
    /\ At("aside")
    /\ slot' = slot \cap op.receipt
    /\ Go("receipt")
    /\ UNCHANGED <<journal, authority, units, evidence, offHost, worker, acceptance, generation, record, bounds>>

\* Recorded before it is staged.
Receipt ==
    /\ At("receipt")
    /\ Save([journal EXCEPT !.receipt = op.receipt])
    /\ Go("stage")
    /\ UNCHANGED <<authority, units, window, generation, record, bounds>>

Stage ==
    /\ At("stage")
    /\ slot' = op.receipt
    /\ Go("recover")
    /\ UNCHANGED <<journal, authority, units, evidence, offHost, worker, acceptance, generation, record, bounds>>

\* run_preparation: every receiver is recorded before it is stopped.
Receiver ==
    /\ At("receivers")
    /\ IF Receivers \cap running = {} THEN Go("launch") /\ UNCHANGED journal
       ELSE \E u \in Receivers \cap running :
              /\ Save([journal EXCEPT !.pending_receivers = @ \cup {u}])
              /\ op' = [op EXCEPT !.pc = "receiver_stop", !.unit = {u}]
    /\ UNCHANGED <<authority, units, window, generation, record, bounds>>

ReceiverStop ==
    /\ At("receiver_stop")
    /\ \E u \in op.unit : StopUnit(u)
    /\ op' = [op EXCEPT !.pc = "receivers", !.unit = {}]
    /\ UNCHANGED <<journal, authority, skipped, paused, window, generation, record, bounds>>

Launch ==
    /\ At("launch") /\ worker = NoWorker
    /\ worker' = [pc |-> "start", import |-> slot # {}]
    /\ Go("await")
    /\ UNCHANGED <<journal, authority, units, evidence, offHost, slot, acceptance, generation, record, bounds>>

Outcome ==
    /\ At("ready") \/ At("stopped")
    /\ Settle(IF At("ready") THEN Imported(journal)
              ELSE IF slot # {} THEN {} ELSE Prepared(journal), "return")
    /\ UNCHANGED <<authority, units, window, generation, record, bounds>>

-----------------------------------------------------------------------------
(* The preparation worker (prepare-recovery with an executor): snapshot,    *)
(* export, import of the staged receipt, admission.                         *)

WorkerGo(pc) == worker' = [worker EXCEPT !.pc = pc]

\* The unit ended; a coordinator that still waits for it sees whether ready.
WorkerEnds(ready) ==
    /\ worker' = NoWorker
    /\ IF At("await") THEN Go(IF ready THEN "ready" ELSE "stopped") ELSE UNCHANGED op

\* preparation.json, which binds the backup, is published before the snapshot
\* (recovery.rs:1576-1579); alone it only lets a retry refuse another backup.
WorkerSnapshot ==
    /\ worker.pc = "start"
    /\ IF fence # {} /\ primary /\ (\A e \in evidence : fence = {e.window}) /\ (evidence = {} => offHost = {})
       THEN /\ evidence' = IF evidence # {} THEN evidence
                           ELSE {[window |-> t, data |-> data, export |-> 0, fresh |-> TRUE] : t \in fence}
            /\ WorkerGo("export") /\ UNCHANGED op
       ELSE WorkerEnds(FALSE) /\ UNCHANGED evidence
    /\ UNCHANGED <<journal, authority, units, offHost, slot, acceptance, generation, record, bounds>>

\* The export command runs in every preparation and may rewrite its plan.
WorkerExport ==
    /\ worker.pc = "export"
    /\ \E e \in evidence, x \in Exports :
         /\ e.export <= x /\ x <= e.export + 1
         /\ evidence' = {[e EXCEPT !.export = x]}
    /\ WorkerGo(IF worker.import THEN "import" ELSE "admit")
    /\ UNCHANGED <<journal, op, authority, units, offHost, slot, acceptance, generation, record, bounds>>

WorkerImport ==
    /\ worker.pc = "import"
    /\ IF \E e \in evidence, r \in slot : e.fresh /\ fence = {e.window} /\ r.window = e.window
       THEN offHost' = slot /\ WorkerGo("admit") /\ UNCHANGED op
       ELSE WorkerEnds(FALSE) /\ UNCHANGED offHost
    /\ UNCHANGED <<journal, authority, units, evidence, slot, acceptance, generation, record, bounds>>

WorkerAdmit ==
    /\ worker.pc = "admit"
    /\ WorkerEnds(Admitted)
    /\ UNCHANGED <<journal, authority, units, evidence, offHost, slot, acceptance, generation, record, bounds>>

Worker == WorkerSnapshot \/ WorkerExport \/ WorkerImport \/ WorkerAdmit

-----------------------------------------------------------------------------
(* adopt, activated, accept, thaw, abort, archive.                          *)

\* Live records must still equal the accepted snapshot.
Adopt ==
    /\ op.act = "adopt" /\ At("check")
    /\ IF journal.phase = "imported" /\ Admitted /\ primary /\ \A e \in evidence : e.data = data
       THEN /\ Save([journal EXCEPT !.phase = "adopted"])
            /\ adopted' = adopted \cup fence /\ forgotten' = forgotten \ fence
       ELSE UNCHANGED <<journal, adopted, forgotten>>
    /\ Refuse
    /\ UNCHANGED <<authority, units, window, generation, data, tokens, ours, gaveUp, bounds>>

\* check_acceptance, the first time under the live fence and fresh evidence.
ThawCheck ==
    /\ op.act = "thaw" /\ At("check")
    /\ IF /\ journal.phase = "activated" /\ installed
          /\ acceptance # {} /\ acceptance = journal.fence_token
          /\ journal.accepted \/ (InspectFence /\ Admitted)
       THEN Save([journal EXCEPT !.accepted = TRUE]) /\ Go("unwind")
       ELSE Refuse /\ UNCHANGED journal
    /\ UNCHANGED <<authority, units, window, generation, record, bounds>>

Ready == ~Coordinator /\ worker = NoWorker
Unfinished == journal.phase \notin {"none", "thawed", "aborted"}
MidUnwind == journal.reopened /\ Unfinished

Allowed(act) ==
    CASE act = "fence"   -> {"none", "idle", "fenced"}
      [] act = "prepare" -> {"fenced", "prepared"}
      [] act = "import"  -> {"prepared"}
      [] act = "adopt"   -> {"imported"}
      [] act = "thaw"    -> {"activated"}

\* archive_finished: the journal goes once nothing of the rollout is open.
Archivable ==
    \/ journal.phase = "thawed"
    \/ journal.phase = "aborted" /\ journal.reopened /\ fence = {}

Archive ==
    /\ Ready /\ Archivable
    /\ journal' = NoJournal /\ owed' = owed \ journal.unloaded   \* the archive names them
    /\ UNCHANGED <<op, authority, running, skipped, paused, window, generation, record, bounds>>

\* Receivers an earlier step left pending are returned before any step; fence
\* archives a finished journal first.
Begin(act, receipt) ==
    /\ Ready
    /\ MidUnwind => act = "thaw"
    /\ gaveUp => act = "thaw" /\ journal.accepted /\ installed
    /\ act = "fence" => tokens < MaxFences
    /\ LET j == IF act = "fence" /\ Archivable THEN NoJournal ELSE journal IN
       /\ j.phase \in Allowed(act) \/ j.pending_receivers # {}
       /\ Save(j) /\ owed' = IF j = journal THEN owed ELSE owed \ journal.unloaded
       /\ op' = [Idle EXCEPT !.act = act, !.receipt = receipt,
                             !.pc = IF j.pending_receivers = {} THEN "check" ELSE "return",
                             !.list = "resume", !.todo = j.pending_receivers]
    /\ UNCHANGED <<authority, running, skipped, paused, window, generation, record, bounds>>

\* An installed candidate is thawed instead, and neither may it boot next.
BugAbortInstalled ==
    /\ Ready /\ Unfinished
    /\ op' = [Idle EXCEPT !.act = "abort", !.pc = "unwind"]
    /\ UNCHANGED <<journal, authority, units, window, generation, record, bounds>>

Abort ==
    /\ Ready /\ Unfinished
    /\ journal.phase \in {"adopted", "activated"} => ~installed /\ ~profile /\ ~booted
    /\ op' = [Idle EXCEPT !.act = "abort", !.pc = "unwind"]
    /\ UNCHANGED <<journal, authority, units, window, generation, record, bounds>>

\* Without a journal the live fence, or else the held inhibition, is adopted.
AbortLost ==
    /\ Ready /\ journal.phase = "none"
    /\ (fence \subseteq ours /\ fence # {}) \/ (held # {} /\ fence = {})
    /\ LET j == [Fresh EXCEPT !.pending_receivers = Receivers, !.stopped_publishers = Publishers] IN
       IF fence # {}
       THEN Save([j EXCEPT !.phase = "fenced", !.fence_token = fence, !.fence_opening = TRUE])
       ELSE Save([j EXCEPT !.inhibiting = TRUE, !.startup_token = held])
    /\ op' = [Idle EXCEPT !.act = "abort", !.pc = "unwind"]
    /\ UNCHANGED <<authority, units, window, generation, record, bounds>>

\* activated and accept act on the deployed generation.
Activated ==
    /\ Ready /\ ~MidUnwind /\ journal.pending_receivers = {}
    /\ journal.phase = "adopted" /\ installed /\ InspectFence
    /\ Save([journal EXCEPT !.phase = "activated"])
    /\ UNCHANGED <<op, authority, units, window, generation, record, bounds>>

Accept ==
    /\ Ready /\ ~MidUnwind /\ journal.pending_receivers = {}
    /\ journal.phase = "activated" /\ installed /\ evidence # {}
    /\ acceptance' = journal.fence_token
    /\ UNCHANGED <<journal, op, authority, units, evidence, offHost, slot, worker, generation, record, bounds>>

Fence ==
    \/ FenceCheck \/ Intent \/ Inhibit \/ StartupToken \/ PausePublishers \/ Publisher
    \/ PublisherStop \/ RecordClients \/ ClientStop \/ Dependent \/ PrimaryStop \/ Opening
    \/ Open \/ FenceToken \/ Release \/ Start \/ Verify

Reopen ==
    \/ Unwind \/ Boundary \/ Skipped \/ Close \/ Live \/ Reopened \/ Return \/ Started
    \/ Returned \/ Lift \/ Lifted \/ RetireSlot \/ Final

Prepare ==
    \/ PrepareCheck \/ ImportCheck \/ SetAside \/ Receipt \/ Stage \/ Recover
    \/ Receiver \/ ReceiverStop \/ Launch \/ Outcome

Step == Fence \/ Reopen \/ Prepare \/ Adopt \/ ThawCheck

-----------------------------------------------------------------------------
(* Activation, guarded by the rollout guard (switch and test only) and the  *)
(* candidate's recovery check, which requires a live writer fence.          *)

Stranding(candidate) ==
    \/ journal.phase \in {"fenced", "prepared", "imported"}
    \/ journal.phase = "idle" /\ \/ journal.startup_token # {} \/ journal.fence_token # {}
                                 \/ journal.inhibiting \/ journal.fence_opening
    \/ journal.phase = "aborted" /\ ~journal.reopened
    \/ journal.phase \in {"adopted", "activated"} /\ journal.reopened /\ ~candidate

Activate(candidate) ==
    /\ ~Coordinator                        \* the execution lock
    /\ candidate => fence # {} /\ ~gaveUp
    /\ \/ /\ ~Stranding(candidate)
          /\ installed' = candidate /\ profile' \in {profile, candidate}
       \/ /\ profile' = candidate /\ UNCHANGED installed
    /\ running' = IF installed' THEN running \ Removed ELSE running
    /\ UNCHANGED booted
    /\ generation' # generation
    /\ UNCHANGED <<journal, op, authority, skipped, paused, owed, window, record, bounds>>

-----------------------------------------------------------------------------
(* The environment.                                                         *)

Kill ==
    /\ Coordinator /\ kills < MaxKills
    /\ kills' = kills + 1 /\ op' = Idle
    /\ UNCHANGED <<journal, authority, units, window, generation, record, failures, lost>>

OurFence == fence # {} /\ fence \subseteq ours

\* Every unit is wanted at boot; the conditions of the fence and the pause
\* skip clients and publishers, the inhibition skips the primary.
Reboot ==
    /\ \/ kills < MaxKills /\ kills' = kills + 1
       \/ gaveUp /\ booted /\ ~profile /\ UNCHANGED kills
    /\ op' = Idle /\ worker' = NoWorker
    /\ installed' = profile /\ booted' = profile /\ UNCHANGED profile
    /\ primary' = (held = {})
    /\ LET wanted == {u \in Units : ~(profile /\ u \in Removed)}
           barred == {u \in wanted : \/ u \in Clients \cup Retired /\ fence # {}
                                     \/ u \in Publishers /\ paused} IN
       /\ running' = wanted \ barred /\ skipped' = barred
       /\ owed' = (owed \ (running' \cup (skipped \ wanted)))
                    \cup (barred \cap IF OurFence /\ Unfinished THEN Clients ELSE {})
    /\ UNCHANGED <<journal, held, fence, closed, paused, evidence, offHost, slot, acceptance,
                   record, failures, lost>>

\* A timer starts a stopped unit, which its condition skips.
Timer(u) ==
    /\ TimersRace \/ ~Coordinator
    /\ Loaded(u) /\ u \notin running \cup skipped /\ Unfinished /\ ~journal.reopened
    /\ \/ u \in Clients /\ OurFence
       \/ u \in Publishers /\ paused
    /\ skipped' = skipped \cup {u} /\ owed' = owed \cup {u}
    /\ UNCHANGED <<journal, op, authority, running, paused, window, generation, record, bounds>>

\* What a snapshot missed.  ALTER SYSTEM rewrites postgresql.auto.conf, so no
\* closed boundary reads back.
Write ==
    /\ primary /\ fence = {} /\ evidence # {} /\ data < MaxWrites
    /\ data' = data + 1
    /\ closed' \in IF Alters THEN {closed, {}} ELSE {closed}
    /\ UNCHANGED <<journal, op, held, fence, primary, units, window, generation, tokens, ours,
                   adopted, forgotten, gaveUp, bounds>>

Age ==
    /\ \E e \in evidence : e.fresh /\ evidence' = {[e EXCEPT !.fresh = FALSE]}
    /\ worker = NoWorker /\ ~gaveUp
    /\ UNCHANGED <<journal, op, authority, units, offHost, slot, worker, acceptance, generation,
                   record, bounds>>

\* The operator moves the evidence of another window aside.
MoveAside ==
    /\ Ready /\ journal.phase \in {"none", "idle", "thawed", "aborted"}
    /\ evidence # {} \/ offHost # {}
    /\ evidence' = {} /\ offHost' = {}
    /\ UNCHANGED <<journal, op, authority, units, slot, worker, acceptance, generation, record, bounds>>

\* Another coordinator: it inhibits (the inhibition is shared), opens a fence
\* of its own and releases at its boundary; later it closes it the same way.
ForeignOpen ==
    /\ ForeignActs /\ ~Coordinator /\ ~gaveUp
    /\ fence = {} /\ tokens + 1 < MaxFences
    /\ tokens' = tokens + 1 /\ fence' = {tokens'}
    /\ held' = {} /\ primary' = TRUE
    /\ UNCHANGED <<journal, op, closed, units, window, generation, data, ours, adopted,
                   forgotten, gaveUp, bounds>>

ForeignClose ==
    /\ ~Coordinator
    /\ fence # {} /\ ~OurFence
    /\ fence' = {} /\ closed' = closed \cup fence
    /\ held' = {} /\ primary' = TRUE
    /\ UNCHANGED <<journal, op, units, window, generation, record, bounds>>

LoseJournal ==
    /\ ~Coordinator /\ Unfinished /\ lost < MaxLost /\ ~gaveUp
    /\ tokens < MaxFences                  \* one is left to unwind with
    /\ lost' = lost + 1
    /\ journal' = NoJournal /\ owed' = {}
    /\ forgotten' = forgotten \cup (adopted \cap journal.fence_token)
    /\ UNCHANGED <<op, authority, running, skipped, paused, window, generation, data, tokens, ours,
                   adopted, gaveUp, kills, failures>>

GiveUp ==
    /\ ~gaveUp /\ ~Coordinator /\ gaveUp' = TRUE
    /\ UNCHANGED <<journal, op, authority, units, window, generation, data, tokens, ours, adopted,
                   forgotten, bounds>>

Certified ==
    [window : IF journal.fence_token = {} THEN {0} ELSE journal.fence_token \cup {0},
     export : IF journal.export = {} THEN {0} ELSE journal.export]

Command ==
    \/ \E act \in {"fence", "prepare", "adopt", "thaw"} : Begin(act, {})
    \/ \E r \in Certified : Begin("import", {r})
    \/ Abort \/ AbortLost \/ Activated \/ Accept \/ Archive

Environment ==
    \/ \E g \in BOOLEAN : Activate(g)
    \/ Kill \/ Reboot \/ Write \/ Age \/ MoveAside
    \/ ForeignOpen \/ ForeignClose \/ LoseJournal \/ GiveUp
    \/ \E u \in Units : Timer(u)

Next == Command \/ Step \/ Worker \/ Environment

\* Steps and the worker run; the operator who gave up keeps unwinding.
Fairness ==
    /\ WF_vars(Step) /\ WF_vars(Worker)
    /\ SF_vars(ForeignClose)
    /\ WF_vars(gaveUp /\ (Abort \/ AbortLost \/ Begin("thaw", {})))
    /\ WF_vars(gaveUp /\ Activate(FALSE))
    /\ WF_vars(gaveUp /\ booted /\ ~profile /\ Reboot)

Spec == Init /\ [][Next]_vars /\ Fairness

-----------------------------------------------------------------------------
(* Properties.                                                              *)

Remembered(u) ==
    \/ u \in journal.clients /\ ~journal.reopened
    \/ u \in journal.pending_clients \cup journal.pending_receivers
    \/ u \in journal.stopped_publishers \cup journal.unloaded
    \/ u \in skipped \cap Clients /\ OurFence
    \/ u \in skipped \cap Publishers /\ paused

\* Every unit the coordinator stopped, or whose start its fence or its pause
\* made systemd skip, is recorded until it is started again: no kill, failed
\* start or archived journal forgets one (Journal's recovery fields).
NoUnitForgotten == \A u \in owed \ Retired : Remembered(u)

\* The coordinator takes only fences it opened itself (refuse_foreign_fence),
\* although fence-open resumes whatever fence it finds.
NoForeignFence == journal.fence_token \subseteq ours

\* What the coordinator holds is always recoverable: its fence and a startup
\* inhibition without a fence leave an unfinished journal that names them, or
\* the intent to acquire them, and only the receipt the journal records ever
\* stands in the import slot.
HoldingsRecorded ==
    lost = 0 =>
      /\ slot = {} \/ slot = journal.receipt
      /\ OurFence => Unfinished /\ (fence = journal.fence_token \/ journal.fence_opening)
      /\ held # {} => Unfinished /\ journal.inhibiting

\* A phase is reached only in the writer window that reached the ones before:
\* under the journal's own fence, on evidence bound to it, and for the
\* adoption on records no writer changed since the snapshot.
AdvancesInWindow ==
    [][journal'.phase # journal.phase =>
         /\ journal'.phase \in {"fenced", "prepared", "imported", "adopted", "activated"} /\ lost' = lost =>
              fence # {} /\ fence = journal'.fence_token
         /\ journal'.phase \in {"prepared", "imported", "adopted"} =>
              \E e \in evidence : journal'.fence_token = {e.window}
         /\ journal'.phase = "adopted" => \A e \in evidence : e.data = data]_vars

\* The receipt an admission rests on certifies the export that was handed off.
\* Not what the code does: README, "Disagreements".
CertifiedHandOff ==
    journal.phase \in {"imported", "adopted", "activated"} =>
        \E r \in offHost, e \in evidence : r.export = e.export

\* The step gives writers the primary of a candidate that runs or boots next.
Thaws(t) == fence = {t} /\ fence' # fence /\ (installed \/ profile \/ booted)

\* Whatever was killed, resumed or rolled back in between, the fence a
\* candidate was adopted under is taken away only after the acceptance of its
\* deployment, as long as the journal that says so is not lost.
NoUnacceptedThaw ==
    [][\A t \in adopted \ forgotten : Thaws(t) => journal.accepted]_vars

\* The same with a lost journal: "an installed candidate, adopted or activated,
\* must be thawed instead" of aborted (docs/cutover-admission.md:214).  Not what
\* the code does: an abort that adopts the fence rebuilds the journal as fenced
\* (README, "Findings").
ThawFollowsAcceptance ==
    [][\A t \in adopted : Thaws(t) => journal.accepted]_vars

\* An operator who gives up and keeps running `rollout abort` (or the thaw
\* that has begun) gets the primary back with the rollout finished; where the
\* journal is lost, what keeps the primary from starting.
Unwound ==
    /\ journal.phase \in {"none", "thawed", "aborted"} /\ ~OurFence
    /\ primary \/ (lost > 0 /\ held = {})
GivingUpUnwinds == gaveUp ~> Unwound
=============================================================================
