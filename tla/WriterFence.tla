---------------------------- MODULE WriterFence ----------------------------
(***************************************************************************)
(* The persistent writer fence of a primary and the systemd barrier around *)
(* it (src/storage/writer_fence.rs, startup_inhibition.rs).                *)
(*                                                                         *)
(* Two operators act: root installs and releases the startup inhibition    *)
(* (`root`, one invocation at a time under its own lock), the storage      *)
(* owner opens and closes the fence (`fence`, under writer-fence.lock).    *)
(* Their files lie in four directories, each with its own flush.  A kill   *)
(* between a change and its flush leaves the change to a later power loss; *)
(* two history variables record it: `left` the directories in that state,  *)
(* `undone` that a power loss took such a change back.                     *)
(*                                                                         *)
(* postgresql.auto.conf is a record: `base` stands for its settings, `hba` *)
(* for the fence whose hba_file it selects, `mark` for the fence named in  *)
(* its harbor-db comment.  ALTER SYSTEM rewrites the file without comments.*)
(*                                                                         *)
(* Assumed of the operators (README.md:309-317): fence-open and fence-close*)
(* run while an acknowledged inhibition is in force.                       *)
(***************************************************************************)
EXTENDS Integers, FiniteSets, DurableDir

CONSTANTS
    Units,            \* the primary's unit and the setup units
    Primary,          \* the primary's unit
    MaxTokens,        \* bound: fences prepared
    MaxInhibitions,   \* bound: inhibition tokens
    MaxBase,          \* bound: ALTER SYSTEM
    MaxCrashes        \* bound: kills and power losses

ASSUME FenceAssumption ==
    /\ Primary \in Units
    /\ MaxTokens \in Nat \ {0} /\ MaxInhibitions \in Nat \ {0}
    /\ MaxBase \in Nat /\ MaxCrashes \in Nat

VARIABLES
    state,      \* state_dir: writer-fence.json, identity.json
    data,       \* data_dir: postgresql.auto.conf
    barrier,    \* barrier[u]: the drop-in directory of unit u
    gate,       \* the root-owned directory: inhibited.json
    loaded,     \* units whose drop-in systemd has loaded
    made,       \* fences with a complete writer-fences/<token> directory
    original,   \* original[t]: the automatic configuration fence t retains
    receipts,   \* fences with a closed.json
    up,         \* running units
    hba,        \* the fence in force in the running primary, or NoFence
    leased,     \* the running primary holds the shared cluster lease
    fence,      \* the fence-open or fence-close invocation
    root,       \* the inhibit-startup or release-startup invocation
    promised,   \* the fence acknowledged as prepared and not yet thawed
    acked,      \* the inhibition acknowledged and not yet released
    left,       \* history: directories a killed command changed and did not flush
    undone,     \* history: a power loss took such a change back
    crashes

files == <<state, data, barrier, gate>>
history == <<made, original, receipts>>
services == <<loaded, up, hba, leased>>
claims == <<promised, acked>>
losses == <<left, undone, crashes>>
vars == <<state, data, barrier, gate, made, original, receipts,
          loaded, up, hba, leased, fence, root, promised, acked, left, undone, crashes>>

Tokens == 1..MaxTokens
NoFence == 0
Inhibitions == 1..MaxInhibitions
NoInhibition == 0

AutoConf == [base : 0..MaxBase, hba : Tokens \cup {NoFence}, mark : Tokens \cup {NoFence}]
NoMarker == [phase |-> "none", token |-> NoFence]
Markers == {NoMarker} \cup [phase : {"prepared", "closing"}, token : Tokens]
StateImages == [marker : Markers, registered : BOOLEAN]

FenceSteps == {"idle", "artifacts", "select", "select_sync", "mark", "mark_sync", "ready",
               "closing", "closing_sync", "restore", "restore_sync", "receipt",
               "unmark", "unmark_sync"}
RootSteps == {"idle", "drop_in", "drop_in_sync", "inhibit", "inhibit_sync", "reload", "loaded",
              "release", "release_sync"}

IdleFence == [pc |-> "idle", token |-> NoFence, leased |-> FALSE]
IdleRoot == [pc |-> "idle", unit |-> Primary]

TypeOK ==
    /\ state \in Directory(StateImages)
    /\ data \in Directory(AutoConf)
    /\ barrier \in [Units -> Directory(BOOLEAN)]
    /\ gate \in Directory(Inhibitions \cup {NoInhibition})
    /\ loaded \in SUBSET Units
    /\ made \in SUBSET Tokens
    /\ original \in [Tokens -> AutoConf]
    /\ receipts \in SUBSET Tokens
    /\ up \in SUBSET Units
    /\ hba \in Tokens \cup {NoFence}
    /\ leased \in BOOLEAN
    /\ fence \in [pc : FenceSteps, token : Tokens \cup {NoFence}, leased : BOOLEAN]
    /\ root \in [pc : RootSteps, unit : Units]
    /\ promised \in Tokens \cup {NoFence}
    /\ acked \in Inhibitions \cup {NoInhibition}
    /\ left \in SUBSET {"state", "data", "barrier", "gate"}
    /\ undone \in BOOLEAN
    /\ crashes \in 0..MaxCrashes

Marker == state.now.marker
Conf == data.now
Stopped == Primary \notin up

\* The configuration fence t selects: the original, one comment, one hba_file.
Selected(t) == [base |-> original[t].base, hba |-> t, mark |-> t]

Init ==
    /\ \E registered \in BOOLEAN :
         state = Settled([marker |-> NoMarker, registered |-> registered])
    /\ data = Settled([base |-> 0, hba |-> NoFence, mark |-> NoFence])
    /\ barrier = [u \in Units |-> Settled(FALSE)]
    /\ gate = Settled(NoInhibition)
    /\ loaded = {}
    /\ made = {} /\ receipts = {}
    /\ original = [t \in Tokens |-> [base |-> 0, hba |-> NoFence, mark |-> NoFence]]
    /\ up = {} /\ hba = NoFence /\ leased = FALSE
    /\ fence = IdleFence /\ root = IdleRoot
    /\ promised = NoFence /\ acked = NoInhibition
    /\ left = {} /\ undone = FALSE
    /\ crashes = 0

-----------------------------------------------------------------------------
(* Units start only if systemd's condition allows it.                       *)

\* ConditionPathExists=!inhibited.json, from the drop-in systemd has loaded.
Allowed(u) == u \in loaded => gate.now = NoInhibition

\* startup_leased: no marker and no comment, or a prepared marker whose
\* selected configuration is the one in place.
StartupAdmitted ==
    \/ Marker = NoMarker /\ Conf.mark = NoFence
    \/ Marker.phase = "prepared" /\ Conf = Selected(Marker.token)

FenceInForce == IF Marker = NoMarker THEN Conf.hba ELSE Marker.token

Serve ==
    /\ Stopped /\ Allowed(Primary) /\ state.now.registered
    /\ ~(fence.pc # "idle" /\ fence.leased)
    /\ StartupAdmitted
    /\ up' = up \cup {Primary} /\ hba' = FenceInForce /\ leased' = TRUE
    /\ UNCHANGED <<files, history, loaded, fence, root, claims, losses>>

\* A generation from before the guard: no lease, no check, the same data_dir.
LegacyServe ==
    /\ Stopped /\ Allowed(Primary)
    /\ up' = up \cup {Primary} /\ hba' = Conf.hba /\ leased' = FALSE
    /\ UNCHANGED <<files, history, loaded, fence, root, claims, losses>>

SetupStart(u) ==
    /\ u # Primary /\ u \notin up /\ Allowed(u)
    /\ up' = up \cup {u}
    /\ UNCHANGED <<files, history, loaded, hba, leased, fence, root, claims, losses>>

Stop(u) ==
    /\ u \in up
    /\ up' = up \ {u}
    /\ hba' = IF u = Primary THEN NoFence ELSE hba
    /\ leased' = (leased /\ u # Primary)
    /\ UNCHANGED <<files, history, loaded, fence, root, claims, losses>>

AlterSystem ==
    /\ ~Stopped /\ Conf.base < MaxBase
    /\ data' = Settled([Conf EXCEPT !.base = @ + 1, !.mark = NoFence])
    /\ left' = left \ {"data"}
    /\ UNCHANGED <<state, barrier, gate, history, services, fence, root, claims,
                   undone, crashes>>

\* adopt: exclusive cluster lease, then identity.json.
Adopt ==
    /\ ~state.now.registered
    /\ ~(fence.pc # "idle" /\ fence.leased) /\ ~leased
    /\ state' = Changed(state, [state.now EXCEPT !.registered = TRUE])
    /\ UNCHANGED <<data, barrier, gate, history, services, fence, root, claims, losses>>

-----------------------------------------------------------------------------
(* inhibit: drop-ins, inhibited.json, daemon-reload, readback.              *)

Missing == {u \in Units : ~barrier[u].now}

InhibitStart ==
    /\ root.pc = "idle"
    /\ root' = [root EXCEPT !.pc = "drop_in"]
    /\ UNCHANGED <<files, history, services, fence, claims, losses>>

DropIn ==
    /\ root.pc = "drop_in"
    /\ \/ /\ Missing = {}
          /\ root' = [root EXCEPT !.pc = "inhibit"]
          /\ UNCHANGED barrier
       \/ \E u \in Missing :
            /\ barrier' = [barrier EXCEPT ![u] = Changed(@, TRUE)]
            /\ root' = [pc |-> "drop_in_sync", unit |-> u]
    /\ UNCHANGED <<state, data, gate, history, services, fence, claims, losses>>

BugDropInNotFlushed ==
    /\ root.pc = "drop_in_sync"
    /\ root' = [IdleRoot EXCEPT !.pc = "drop_in"]
    /\ UNCHANGED <<files, history, services, fence, claims, losses>>

DropInSync ==
    /\ root.pc = "drop_in_sync"
    /\ barrier' = [barrier EXCEPT ![root.unit] = Synced(@)]
    /\ root' = [IdleRoot EXCEPT !.pc = "drop_in"]
    /\ UNCHANGED <<state, data, gate, history, services, fence, claims, losses>>

InhibitMark ==
    /\ root.pc = "inhibit"
    /\ IF gate.now # NoInhibition
       THEN root' = [root EXCEPT !.pc = "reload"] /\ UNCHANGED gate
       ELSE /\ \E i \in Inhibitions : i \notin gate.may /\ gate' = Changed(gate, i)
            /\ root' = [root EXCEPT !.pc = "inhibit_sync"]
    /\ UNCHANGED <<state, data, barrier, history, services, fence, claims, losses>>

InhibitSync ==
    /\ root.pc = "inhibit_sync"
    /\ gate' = Synced(gate)
    /\ root' = [root EXCEPT !.pc = "reload"]
    /\ left' = left \ {"gate"}
    /\ UNCHANGED <<state, data, barrier, history, services, fence, claims, undone, crashes>>

Reload ==
    /\ root.pc = "reload"
    /\ loaded' = {u \in Units : barrier[u].now}
    /\ root' = [root EXCEPT !.pc = "loaded"]
    /\ UNCHANGED <<files, history, up, hba, leased, fence, claims, losses>>

InhibitDone ==
    /\ root.pc = "loaded"
    /\ acked' = IF loaded = Units THEN gate.now ELSE acked
    /\ root' = IdleRoot
    /\ UNCHANGED <<files, history, services, fence, promised, losses>>

-----------------------------------------------------------------------------
(* release: under the inhibition lock and a shared fence lease, against the *)
(* offline boundary that inspect_offline reads back.                        *)

Releasing == root.pc \in {"release", "release_sync"}

OfflineBoundary(t, phase) ==
    /\ Stopped
    /\ \/ /\ phase = "prepared"
          /\ Marker.phase = "prepared" /\ Marker.token = t
          /\ Conf = Selected(t)
       \/ /\ phase = "closed"
          /\ Marker = NoMarker /\ t \in made /\ t \in receipts
          /\ Conf = original[t]

ReleaseStart(t, phase) ==
    /\ root.pc = "idle" /\ fence.pc = "idle"
    /\ gate.now # NoInhibition
    /\ Missing = {} /\ loaded = Units
    /\ OfflineBoundary(t, phase)
    /\ root' = [root EXCEPT !.pc = "release"]
    /\ UNCHANGED <<files, history, services, fence, claims, losses>>

ReleaseUnlink ==
    /\ root.pc = "release"
    /\ gate' = Changed(gate, NoInhibition)
    /\ acked' = NoInhibition
    /\ root' = [root EXCEPT !.pc = "release_sync"]
    /\ UNCHANGED <<state, data, barrier, history, services, fence, promised, losses>>

ReleaseSync ==
    /\ root.pc = "release_sync"
    /\ gate' = Synced(gate)
    /\ root' = IdleRoot
    /\ left' = left \ {"gate"}
    /\ UNCHANGED <<state, data, barrier, history, services, fence, claims, undone, crashes>>

-----------------------------------------------------------------------------
(* open_fence.  `offline` takes the fence lease, the cluster lease once the *)
(* cluster is registered, and requires the primary stopped.                 *)

BugStillRunning ==
    /\ acked # NoInhibition
    /\ fence.pc = "idle" /\ ~Releasing
    /\ state.now.registered => ~leased

Offline ==
    /\ acked # NoInhibition                           \* the documented order
    /\ fence.pc = "idle" /\ ~Releasing
    /\ state.now.registered => ~leased
    /\ Stopped

BeginFence(pc, t) == fence' = [pc |-> pc, token |-> t, leased |-> state.now.registered]
GoFence(pc) == fence' = [fence EXCEPT !.pc = pc]

\* An active prepared fence: select and mark again.
OpenAgain ==
    /\ Offline
    /\ Marker.phase = "prepared"
    /\ Conf \in {original[Marker.token], Selected(Marker.token)}
    /\ BeginFence("select", Marker.token)
    /\ UNCHANGED <<files, history, services, root, claims, losses>>

\* Interrupted after the selector: the comment leads to the retained journal.
OpenInterrupted ==
    /\ Offline
    /\ Marker = NoMarker /\ Conf.mark \in made
    /\ Conf = Selected(Conf.mark)
    /\ BeginFence("mark", Conf.mark)
    /\ UNCHANGED <<files, history, services, root, claims, losses>>

OpenNew ==
    /\ Offline
    /\ Marker = NoMarker /\ Conf.mark = NoFence
    /\ \E t \in Tokens \ made :
         /\ \A s \in Tokens \ made : t <= s
         /\ BeginFence("artifacts", t)
    /\ UNCHANGED <<files, history, services, root, claims, losses>>

Artifacts ==
    /\ fence.pc = "artifacts"
    /\ made' = made \cup {fence.token}
    /\ original' = [original EXCEPT ![fence.token] = Conf]
    /\ GoFence("select")
    /\ UNCHANGED <<files, receipts, services, root, claims, losses>>

\* The selector is the freeze commit point, before the active journal.
Select ==
    /\ fence.pc = "select"
    /\ data' = Changed(data, Selected(fence.token))
    /\ GoFence("select_sync")
    /\ UNCHANGED <<state, barrier, gate, history, services, root, claims, losses>>

DataSync(from, to) ==
    /\ fence.pc = from
    /\ data' = Synced(data)
    /\ GoFence(to)
    /\ left' = left \ {"data"}
    /\ UNCHANGED <<state, barrier, gate, history, services, root, claims, undone, crashes>>

BugMarkerNotFlushed ==
    /\ fence.pc = "mark"
    /\ state' = Changed(state, [state.now EXCEPT !.marker =
                                  [phase |-> "prepared", token |-> fence.token]])
    /\ GoFence("ready")
    /\ UNCHANGED <<data, barrier, gate, history, services, root, claims, losses>>

Mark ==
    /\ fence.pc = "mark"
    /\ state' = Changed(state, [state.now EXCEPT !.marker =
                                  [phase |-> "prepared", token |-> fence.token]])
    /\ GoFence("mark_sync")
    /\ UNCHANGED <<data, barrier, gate, history, services, root, claims, losses>>

StateSync(from, to) ==
    /\ fence.pc = from
    /\ state' = Synced(state)
    /\ IF to = "idle" THEN fence' = IdleFence ELSE GoFence(to)
    /\ left' = left \ {"state"}
    /\ UNCHANGED <<data, barrier, gate, history, services, root, claims, undone, crashes>>

\* startup_leased reads the selection back; "prepared-offline" is returned.
OpenDone ==
    /\ fence.pc = "ready"
    /\ promised' = IF StartupAdmitted THEN fence.token ELSE promised
    /\ fence' = IdleFence
    /\ UNCHANGED <<files, history, services, root, acked, losses>>

-----------------------------------------------------------------------------
(* close_fence: the marker says closing before the original comes back.     *)

BugCloseForgetsClosing(t) ==
    /\ Offline
    /\ Marker.phase \in {"prepared", "closing"} /\ Marker.token = t
    /\ Conf = Selected(t)
    /\ BeginFence("closing", t)
    /\ promised' = NoFence
    /\ UNCHANGED <<files, history, services, root, acked, losses>>

CloseStart(t) ==
    /\ Offline
    /\ Marker.phase \in {"prepared", "closing"} /\ Marker.token = t
    /\ Conf = Selected(t) \/ (Marker.phase = "closing" /\ Conf = original[t])
    /\ BeginFence("closing", t)
    /\ promised' = NoFence
    /\ UNCHANGED <<files, history, services, root, acked, losses>>

Closing ==
    /\ fence.pc = "closing"
    /\ state' = Changed(state, [state.now EXCEPT !.marker =
                                  [phase |-> "closing", token |-> fence.token]])
    /\ GoFence("closing_sync")
    /\ UNCHANGED <<data, barrier, gate, history, services, root, claims, losses>>

BugRestoreNotFlushed ==
    /\ fence.pc = "restore"
    /\ data' = Changed(data, original[fence.token])
    /\ GoFence("receipt")
    /\ UNCHANGED <<state, barrier, gate, history, services, root, claims, losses>>

Restore ==
    /\ fence.pc = "restore"
    /\ data' = Changed(data, original[fence.token])
    /\ GoFence("restore_sync")
    /\ UNCHANGED <<state, barrier, gate, history, services, root, claims, losses>>

Receipt ==
    /\ fence.pc = "receipt"
    /\ receipts' = receipts \cup {fence.token}
    /\ GoFence("unmark")
    /\ UNCHANGED <<files, made, original, services, root, claims, losses>>

Unmark ==
    /\ fence.pc = "unmark"
    /\ state' = Changed(state, [state.now EXCEPT !.marker = NoMarker])
    /\ GoFence("unmark_sync")
    /\ UNCHANGED <<data, barrier, gate, history, services, root, claims, losses>>

-----------------------------------------------------------------------------
(* Crashes.                                                                 *)

\* The directory whose flush a step still owes.
Owed(pc) ==
    CASE pc \in {"mark_sync", "closing_sync", "unmark_sync"} -> {"state"}
      [] pc \in {"select_sync", "restore_sync"} -> {"data"}
      [] pc = "drop_in_sync" -> {"barrier"}
      [] pc \in {"inhibit_sync", "release_sync"} -> {"gate"}
      [] OTHER -> {}

Kill ==
    /\ crashes < MaxCrashes
    /\ \/ /\ fence.pc # "idle"
          /\ fence' = IdleFence /\ left' = left \cup Owed(fence.pc)
          /\ UNCHANGED root
       \/ /\ root.pc # "idle"
          /\ root' = IdleRoot /\ left' = left \cup Owed(root.pc)
          /\ UNCHANGED fence
    /\ crashes' = crashes + 1
    /\ UNCHANGED <<files, history, services, claims, undone>>

TakenBack ==
    \/ "state" \in left /\ state'.now # state.now
    \/ "data" \in left /\ data'.now # data.now
    \/ "gate" \in left /\ gate'.now # gate.now
    \/ "barrier" \in left /\ \E u \in Units : barrier'[u].now # barrier[u].now

\* The host restarts from what is on disk and loads the drop-ins it finds.
PowerLoss ==
    /\ crashes < MaxCrashes
    /\ state' \in AfterLoss(state)
    /\ data' \in AfterLoss(data)
    /\ gate' \in AfterLoss(gate)
    /\ barrier' \in {b \in [Units -> {Settled(TRUE), Settled(FALSE)}] :
                       \A u \in Units : b[u] \in AfterLoss(barrier[u])}
    /\ loaded' = {u \in Units : barrier'[u].now}
    /\ up' = {} /\ hba' = NoFence /\ leased' = FALSE
    /\ fence' = IdleFence /\ root' = IdleRoot
    /\ left' = {} /\ undone' = (undone \/ TakenBack)
    /\ crashes' = crashes + 1
    /\ UNCHANGED <<history, claims>>

Inhibit == InhibitStart \/ DropIn \/ DropInSync \/ InhibitMark \/ InhibitSync \/ Reload
             \/ InhibitDone
Release == \/ \E t \in Tokens, phase \in {"prepared", "closed"} : ReleaseStart(t, phase)
           \/ ReleaseUnlink \/ ReleaseSync
Open == \/ OpenAgain \/ OpenInterrupted \/ OpenNew \/ Artifacts
        \/ Select \/ DataSync("select_sync", "mark")
        \/ Mark \/ StateSync("mark_sync", "ready") \/ OpenDone
Close == \/ \E t \in Tokens : CloseStart(t)
         \/ Closing \/ StateSync("closing_sync", "restore")
         \/ Restore \/ DataSync("restore_sync", "receipt") \/ Receipt
         \/ Unmark \/ StateSync("unmark_sync", "idle")

Next ==
    \/ Serve \/ LegacyServe \/ AlterSystem \/ Adopt
    \/ \E u \in Units : SetupStart(u) \/ Stop(u)
    \/ Inhibit \/ Release \/ Open \/ Close
    \/ Kill \/ PowerLoss

Spec == Init /\ [][Next]_vars

\* The operators re-run the inhibition and the thaw until they succeed.
FairSpec == Spec /\ WF_vars(Inhibit) /\ SF_vars(Close)

-----------------------------------------------------------------------------
(* Properties.                                                              *)

\* From the acknowledgement of a fence to its explicit thaw, every primary that
\* runs is restricted by that fence: legacy or guarded, after any kill and any
\* power loss, unless one took back what a killed command had left unflushed.
FencedWhilePromised == promised # NoFence /\ ~Stopped /\ ~undone => hba = promised

\* An acknowledged fence survives a power loss.  Its marker always does, for
\* fence-open rewrites and flushes it however it was resumed; its selection does
\* unless a killed fence-open left it unflushed, which the next one accepts
\* (writer_fence.rs:325-355).
FencePersists ==
    promised # NoFence =>
        /\ AlwaysOnDisk(state, LAMBDA s : s.marker = [phase |-> "prepared", token |-> promised])
        /\ \/ "data" \in left \/ undone
           \/ AlwaysOnDisk(data, LAMBDA a : a.hba = promised)

\* "The persistent root-owned gate must be installed and read back from systemd
\* before stopping the service" (README.md:306): the gate and the drop-ins of an
\* acknowledged inhibition survive a power loss.
\* Not what the code does: README, "Findings".
InhibitionPersists ==
    acked # NoInhibition =>
        /\ AlwaysOnDisk(gate, LAMBDA i : i = acked)
        /\ \A u \in Units : AlwaysOnDisk(barrier[u], LAMBDA there : there)

\* While an inhibition is acknowledged, neither the primary nor a setup unit
\* starts, in any generation and after any restart of the host that leaves the
\* changes of killed commands in place (README.md:305, "persistent systemd
\* startup inhibition").
NoStartWhileInhibited ==
    [][\A u \in up' \ up : acked = NoInhibition \/ undone]_vars

\* A thaw is not left half-way: no inhibition is released while it is under
\* way, and when its marker is gone the retained original is in place whatever
\* a power loss leaves.
OriginalRestored ==
    [][/\ acked # NoInhibition /\ acked' = NoInhibition
            => Marker.phase # "closing" /\ StartupAdmitted
       /\ Marker.phase = "closing" /\ Marker'.phase = "none" /\ ~undone'
            => data'.may = {original[Marker.token]}]_vars

\* "Unfinished thaw retains startup inhibition; the same token must complete the
\* transition" (README.md:345): a thaw on disk always completes, unless the
\* inhibition it runs behind is undone under it.
ThawCompletes ==
    (\A s \in state.may : s.marker.phase = "closing") ~> Marker = NoMarker \/ undone
=============================================================================
