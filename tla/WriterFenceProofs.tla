------------------------- MODULE WriterFenceProofs -------------------------
(***************************************************************************)
(* Theorems about the writer fence and the startup inhibition, for any     *)
(* number of units, fences, inhibitions, kills and power losses.           *)
(*                                                                         *)
(* A killed command may leave a change without its flush (`left`), and the *)
(* next command accepts what it finds: a power loss may then take the      *)
(* change back (`undone`).  The theorems follow the system up to there:    *)
(* kills between a change and its flush are part of it, and so are power   *)
(* losses that leave such a change in place.                               *)
(*                                                                         *)
(* The inductive invariant has two halves.  The barrier: drop-ins and gate *)
(* are flushed outside their own sync step unless they were left, and an   *)
(* acknowledged inhibition has its gate and every drop-in loaded.  The     *)
(* fence: a command runs only behind that barrier, each step of a command  *)
(* finds the marker and the selection its predecessors left, and what was  *)
(* promised is there.  That the marker of a promised fence is on disk needs*)
(* neither half.                                                           *)
(***************************************************************************)
EXTENDS WriterFence, TLAPS

\* The marker of fence t in a phase; every image of state_dir a power loss may
\* leave has its marker in `marks`.
Marked(phase, t) == [phase |-> phase, token |-> t]
AllMarked(marks) == \A s \in state.may : s.marker \in marks

MarkerMoving == {"mark_sync", "closing_sync", "unmark_sync"}
DataMoving == {"select_sync", "restore_sync"}
Opening == {"select", "select_sync", "mark", "mark_sync", "ready"}
Thawing == {"restore", "restore_sync", "receipt", "unmark"}

\* A drop-in is on disk once its own flush is done, unless a killed command left
\* it; systemd loads existing ones.
DropInsFlushed ==
    \A u \in Units :
        /\ barrier[u].now \in barrier[u].may
        /\ \/ "barrier" \in left
           \/ root = [pc |-> "drop_in_sync", unit |-> u] \/ barrier[u] = Settled(barrier[u].now)
        /\ u \in loaded => barrier[u].now

\* inhibited.json is on disk outside its two flushes, unless a killed command left
\* it, and there between the mark and the unlink.
GateFlushed ==
    /\ gate.now \in gate.may
    /\ root.pc \notin {"inhibit_sync", "release_sync"} /\ "gate" \notin left
         => gate = Settled(gate.now)
    /\ root.pc \in {"inhibit_sync", "reload", "loaded", "release"} => gate.now # NoInhibition

\* An acknowledged inhibition: its gate is there and every unit has its drop-in.
InForce ==
    acked # NoInhibition /\ ~undone =>
        /\ gate.now = acked /\ loaded = Units
        /\ root.pc \notin {"drop_in_sync", "inhibit_sync", "release_sync"}

\* Every image of state_dir has the marker in force, or is one of the two an
\* unflushed write has, unless a killed command left it.
MarkerFlushed ==
    /\ state.now \in state.may
    /\ "state" \notin left =>
        /\ fence.pc \notin MarkerMoving => AllMarked({Marker})
        /\ fence.pc = "mark_sync" => AllMarked({NoMarker, Marked("prepared", fence.token)})
        /\ fence.pc = "closing_sync" =>
             AllMarked({Marked("prepared", fence.token), Marked("closing", fence.token)})
        /\ fence.pc = "unmark_sync" => AllMarked({NoMarker, Marked("closing", fence.token)})

\* postgresql.auto.conf is on disk outside its two flushes, unless a killed command
\* left it; a thaw that goes on has flushed it.
DataFlushed ==
    /\ data.now \in data.may
    /\ fence.pc \notin DataMoving /\ "data" \notin left => data = Settled(Conf)
    /\ fence.pc \in {"receipt", "unmark"} => "data" \notin left

\* A fence command runs behind the barrier, with the primary down.
FenceBarred == fence.pc # "idle" => acked # NoInhibition /\ ~Releasing /\ Stopped

\* What each step of open_fence and close_fence finds.
FenceShape ==
    /\ fence.pc = "artifacts" => Marker = NoMarker
    /\ fence.pc \in {"select", "select_sync", "mark"} =>
         Marker \in {NoMarker, Marked("prepared", fence.token)}
    /\ fence.pc \in {"select_sync", "mark", "mark_sync", "ready"} => Conf = Selected(fence.token)
    /\ fence.pc \in {"mark_sync", "ready"} => Marker = Marked("prepared", fence.token)
    /\ fence.pc = "closing" =>
         Marker \in {Marked("prepared", fence.token), Marked("closing", fence.token)}
    /\ fence.pc \in {"closing_sync"} \cup Thawing => Marker = Marked("closing", fence.token)
    /\ fence.pc = "unmark_sync" => Marker = NoMarker
    /\ fence.pc \in {"restore_sync", "receipt", "unmark"} => Conf = original[fence.token]

\* No retained original carries a harbor-db comment.
Originals ==
    /\ \A t \in Tokens : original[t].mark = NoFence
    /\ fence.pc = "artifacts" => Conf.mark = NoFence

\* The marker of an acknowledged fence is in every image, and its own commands
\* only re-open it: whatever was left or undone.
MarkerPromised ==
    /\ state.now \in state.may
    /\ fence.pc = "mark_sync" => Marker = Marked("prepared", fence.token)
    /\ fence.pc = "ready" => AllMarked({Marked("prepared", fence.token)})
    /\ promised # NoFence =>
        /\ AllMarked({Marked("prepared", promised)})
        /\ fence.pc # "idle" => fence.pc \in Opening /\ fence.token = promised

\* Its selection is in force and, unless a killed command left it, in every image;
\* a running primary is under it.
Promise ==
    promised # NoFence =>
        /\ Conf.hba = promised
        /\ "data" \notin left => \A a \in data.may : a.hba = promised
        /\ ~Stopped => hba = promised

\* Between inspect_offline and the unlink, what was inspected still stands.
ReleaseAdmitted ==
    root.pc = "release" =>
        StartupAdmitted /\ loaded = Units /\ Stopped /\ fence.pc = "idle"

\* What holds of the fence until a power loss takes back a change that was left.
Kept == FenceBarred /\ MarkerFlushed /\ DataFlushed /\ FenceShape /\ Promise

IInv ==
    /\ DropInsFlushed /\ GateFlushed /\ InForce
    /\ MarkerPromised /\ Originals /\ ReleaseAdmitted
    /\ undone \/ Kept

\* A fence command under way names the fence it works on.
Held == fence.pc # "idle" => fence.token \in Tokens

-----------------------------------------------------------------------------
(* Types.                                                                   *)

\* What TypeOK says of the parts of the records.
LEMMA Typed ==
  ASSUME TypeOK
  PROVE  /\ state.now \in StateImages /\ Marker \in Markers /\ state.may \subseteq StateImages
         /\ Conf \in AutoConf /\ data.may \subseteq AutoConf
         /\ \A u \in Units : barrier[u] \in Directory(BOOLEAN)
         /\ fence.pc \in FenceSteps /\ fence.token \in Tokens \cup {NoFence}
         /\ root.pc \in RootSteps /\ root.unit \in Units
         /\ \A t \in Tokens : original[t] \in AutoConf /\ Selected(t) \in AutoConf
BY DEF TypeOK, Directory, Marker, Conf, StateImages, Selected, AutoConf

\* Writes, flushes and losses keep the images of a directory (durable.rs).
LEMMA DirectoryOps ==
  ASSUME NEW S, NEW dir \in Directory(S)
  PROVE  /\ Synced(dir) \in Directory(S)
         /\ \A i \in S : Changed(dir, i) \in Directory(S) /\ Settled(i) \in Directory(S)
         /\ AfterLoss(dir) \subseteq Directory(S)
BY DEF Directory, Synced, Changed, Settled, AfterLoss

\* Every operation keeps the types and the name of the fence under way.
LEMMA TypeNext ==
  ASSUME TypeOK, Held, [Next]_vars
  PROVE  TypeOK' /\ Held'
<1> USE FenceAssumption DEF losses
<1>1. /\ Synced(state) \in Directory(StateImages)
      /\ \A i \in StateImages : Changed(state, i) \in Directory(StateImages)
      /\ AfterLoss(state) \subseteq Directory(StateImages)
  BY DirectoryOps DEF TypeOK
<1>2. \A t \in Tokens, p \in {"prepared", "closing"} : [phase |-> p, token |-> t] \in Markers
  BY DEF Markers
<1>3. NoMarker \in Markers
  BY DEF Markers
<1>4. \A m \in Markers : [state.now EXCEPT !.marker = m] \in StateImages
  BY Typed DEF StateImages
<1>5. [state.now EXCEPT !.registered = TRUE] \in StateImages
  BY Typed DEF StateImages
<1>6. \A pc \in FenceSteps : [fence EXCEPT !.pc = pc]
        \in [pc : FenceSteps, token : Tokens \cup {NoFence}, leased : BOOLEAN]
  BY DEF TypeOK
<1>7. /\ IdleFence \in [pc : FenceSteps, token : Tokens \cup {NoFence}, leased : BOOLEAN]
      /\ IdleFence.pc = "idle"
      /\ \A pc \in FenceSteps, t \in Tokens :
           [pc |-> pc, token |-> t, leased |-> state.now.registered]
             \in [pc : FenceSteps, token : Tokens \cup {NoFence}, leased : BOOLEAN]
  BY Typed DEF IdleFence, FenceSteps, StateImages
<1>8. /\ IdleRoot \in [pc : RootSteps, unit : Units]
      /\ \A pc \in RootSteps : [root EXCEPT !.pc = pc] \in [pc : RootSteps, unit : Units]
      /\ \A pc \in RootSteps,
           u \in Units : [pc |-> pc, unit |-> u] \in [pc : RootSteps, unit : Units]
      /\ \A pc \in RootSteps : [IdleRoot EXCEPT !.pc = pc] \in [pc : RootSteps, unit : Units]
  BY DEF TypeOK, IdleRoot, RootSteps
<1>9. /\ Synced(data) \in Directory(AutoConf)
      /\ \A i \in AutoConf : Changed(data, i) \in Directory(AutoConf)
           /\ Settled(i) \in Directory(AutoConf)
      /\ AfterLoss(data) \subseteq Directory(AutoConf)
  BY DirectoryOps DEF TypeOK
<1>23. /\ Synced(gate) \in Directory(Inhibitions \cup {NoInhibition})
       /\ \A i \in Inhibitions \cup {NoInhibition} :
            Changed(gate, i) \in Directory(Inhibitions \cup {NoInhibition})
       /\ AfterLoss(gate) \subseteq Directory(Inhibitions \cup {NoInhibition})
  BY DirectoryOps DEF TypeOK
<1>24. \A u \in Units : /\ Synced(barrier[u]) \in Directory(BOOLEAN)
                        /\ Changed(barrier[u], TRUE) \in Directory(BOOLEAN)
  BY DirectoryOps DEF TypeOK
<1>25. gate.now \in Inhibitions \cup {NoInhibition}
  BY DEF TypeOK, Directory
<1>10. Serve \/ LegacyServe => TypeOK'
  <2>1. FenceInForce \in Tokens \cup {NoFence} /\ Conf.hba \in Tokens \cup {NoFence}
    BY Typed DEF FenceInForce, Markers, AutoConf, NoMarker
  <2> QED
    BY <2>1 DEF TypeOK, Serve, LegacyServe, files, history, claims
<1>11. \A u \in Units : SetupStart(u) \/ Stop(u) => TypeOK'
  BY DEF TypeOK, SetupStart, Stop, files, history, claims
<1>12. AlterSystem => TypeOK'
  <2>1. AlterSystem => [Conf EXCEPT !.base = @ + 1, !.mark = NoFence] \in AutoConf
    <3>1. Conf \in AutoConf /\ Conf.base \in 0..MaxBase
      BY Typed DEF AutoConf
    <3>2. AlterSystem => Conf.base + 1 \in 0..MaxBase
      BY <3>1 DEF AlterSystem
    <3> QED
      BY <3>1, <3>2 DEF AutoConf
  <2> QED
    BY <1>1, <1>9, <2>1 DEF TypeOK, AlterSystem, history, services, claims
<1>13. Adopt => TypeOK'
  BY <1>1, <1>5, <1>9 DEF TypeOK, Adopt, history, services, claims
<1>14. Inhibit => TypeOK'
  <2>1. InhibitStart \/ InhibitDone => TypeOK'
    BY <1>8, <1>25
       DEF TypeOK, InhibitStart, InhibitDone, RootSteps, files, history, services, claims
  <2>2. DropIn \/ DropInSync => TypeOK'
    <3>1. DropIn \/ DropInSync => barrier' \in [Units -> Directory(BOOLEAN)]
      <4>1. barrier \in [Units -> Directory(BOOLEAN)] /\ root.unit \in Units
              /\ Missing \subseteq Units
        BY Typed DEF TypeOK, Missing
      <4>2. DropInSync => barrier' \in [Units -> Directory(BOOLEAN)]
        <5>1. DropInSync => barrier' = [barrier EXCEPT ![root.unit] = Synced(barrier[root.unit])]
          BY DEF DropInSync
        <5>2. barrier[root.unit] \in Directory(BOOLEAN)
          BY <4>1
        <5>3. Synced(barrier[root.unit]) \in Directory(BOOLEAN)
          BY <4>1, <1>24
        <5> QED
          BY <4>1, <5>1, <5>3
      <4>3. DropIn => barrier' \in [Units -> Directory(BOOLEAN)]
        <5>1. SUFFICES ASSUME NEW u \in Units, barrier' = [barrier EXCEPT ![u] = Changed(barrier[u], TRUE)]
                       PROVE  barrier' \in [Units -> Directory(BOOLEAN)]
          BY <4>1 DEF DropIn
        <5>2. barrier[u] \in Directory(BOOLEAN)
          BY <4>1
        <5>3. Changed(barrier[u], TRUE) \in Directory(BOOLEAN)
          BY <5>2, <1>24
        <5> QED
          BY <4>1, <5>1, <5>3
      <4> QED
        BY <4>2, <4>3
    <3>2. DropIn \/ DropInSync => root' \in [pc : RootSteps, unit : Units]
      <4>1. Missing \subseteq Units /\ {"drop_in", "drop_in_sync", "inhibit"} \subseteq RootSteps
        BY DEF Missing, RootSteps
      <4> QED
        BY <4>1, <1>8 DEF DropIn, DropInSync
    <3> QED
      BY <3>1, <3>2 DEF TypeOK, DropIn, DropInSync, history, services, claims
  <2>4. InhibitMark \/ InhibitSync => TypeOK'
    <3>1. InhibitMark \/ InhibitSync => gate' \in Directory(Inhibitions \cup {NoInhibition})
      BY <1>23 DEF TypeOK, InhibitMark, InhibitSync
    <3>2. InhibitMark \/ InhibitSync => root' \in [pc : RootSteps, unit : Units]
      BY <1>8 DEF InhibitMark, InhibitSync, RootSteps
    <3> QED
      BY <3>1, <3>2 DEF TypeOK, InhibitMark, InhibitSync, history, services, claims
  <2>5. Reload => TypeOK'
    BY <1>8 DEF TypeOK, Reload, RootSteps, files, history, claims
  <2> QED
    BY <2>1, <2>2, <2>4, <2>5 DEF Inhibit
<1>15. Release => TypeOK'
  <2>1. ASSUME NEW t, NEW phase, ReleaseStart(t, phase) PROVE TypeOK'
    BY <2>1, <1>8 DEF TypeOK, ReleaseStart, RootSteps, files, history, services, claims
  <2>2. ReleaseUnlink => TypeOK'
    <3>1. ReleaseUnlink => gate' \in Directory(Inhibitions \cup {NoInhibition})
      BY <1>23 DEF ReleaseUnlink
    <3>2. ReleaseUnlink => root' \in [pc : RootSteps, unit : Units]
      BY <1>8 DEF ReleaseUnlink, RootSteps
    <3> QED
      BY <3>1, <3>2 DEF TypeOK, ReleaseUnlink, history, services
  <2>3. ReleaseSync => TypeOK'
    BY <1>8, <1>23 DEF TypeOK, ReleaseSync, RootSteps, history, services, claims
  <2> QED
    BY <2>1, <2>2, <2>3 DEF Release
<1>16. ASSUME NEW from, NEW to \in FenceSteps, from # "idle",
              StateSync(from, to) \/ DataSync(from, to)
       PROVE  TypeOK' /\ Held'
  <2>1. state' \in Directory(StateImages) /\ data' \in Directory(AutoConf)
    BY <1>1, <1>9, <1>16 DEF TypeOK, StateSync, DataSync
  <2>2. fence' \in [pc : FenceSteps, token : Tokens \cup {NoFence}, leased : BOOLEAN]
    BY <1>6, <1>7, <1>16 DEF StateSync, DataSync, GoFence
  <2>3. Held'
    BY <1>7, <1>16 DEF StateSync, DataSync, GoFence, Held, TypeOK
  <2> QED
    BY <1>16, <2>1, <2>2, <2>3 DEF TypeOK, StateSync, DataSync, history, services, claims
<1>17. Open => TypeOK' /\ Held'
  <2>1. OpenAgain \/ OpenInterrupted \/ OpenNew => TypeOK' /\ Held'
    <3>1. Marker.phase = "prepared" => Marker.token \in Tokens
      BY Typed DEF Markers, NoMarker
    <3>2. Conf.mark \in Tokens \cup {NoFence}
      BY Typed DEF AutoConf
    <3>3. ASSUME NEW pc \in FenceSteps, NEW t \in Tokens, BeginFence(pc, t)
          PROVE  /\ fence' \in [pc : FenceSteps, token : Tokens \cup {NoFence}, leased : BOOLEAN]
                 /\ Held'
      BY <3>3, <1>7 DEF BeginFence, Held
    <3>4. OpenAgain \/ OpenInterrupted \/ OpenNew =>
            /\ fence' \in [pc : FenceSteps, token : Tokens \cup {NoFence}, leased : BOOLEAN]
            /\ Held'
      BY <3>1, <3>2, <3>3 DEF OpenAgain, OpenInterrupted, OpenNew, FenceSteps, TypeOK
    <3> QED
      BY <3>4
         DEF TypeOK, OpenAgain, OpenInterrupted, OpenNew, files, history, services, claims
  <2>2. Artifacts => TypeOK' /\ Held'
    BY <1>6, Typed DEF TypeOK, Held, Artifacts, GoFence, FenceSteps, files, services, claims
  <2>3. Select => TypeOK' /\ Held'
    <3>1. Select => Selected(fence.token) \in AutoConf
      BY Typed DEF Select, Held
    <3> QED
      BY <1>1, <1>6, <1>9, <3>1
         DEF TypeOK, Held, Select, GoFence, FenceSteps, history, services, claims
  <2>4. Mark => TypeOK' /\ Held'
    <3>1. Mark
            => [state.now EXCEPT !.marker = [phase |-> "prepared", token |-> fence.token]]
              \in StateImages
      BY <1>2, <1>4 DEF Mark, Held
    <3> QED
      BY <1>1, <1>6, <1>9, <3>1
         DEF TypeOK, Held, Mark, GoFence, FenceSteps, history, services, claims
  <2>5. OpenDone => TypeOK' /\ Held'
    BY <1>7 DEF TypeOK, Held, OpenDone, FenceSteps, files, history, services
  <2> QED
    BY <1>16, <2>1, <2>2, <2>3, <2>4, <2>5 DEF Open, FenceSteps
<1>18. Close => TypeOK' /\ Held'
  <2>1. ASSUME NEW t \in Tokens, CloseStart(t) PROVE TypeOK' /\ Held'
    BY <2>1, <1>7
       DEF TypeOK, Held, CloseStart, BeginFence, FenceSteps, files, history, services
  <2>2. Closing => TypeOK' /\ Held'
    <3>1. Closing
            => [state.now EXCEPT !.marker = [phase |-> "closing", token |-> fence.token]]
              \in StateImages
      BY <1>2, <1>4 DEF Closing, Held
    <3> QED
      BY <1>1, <1>6, <1>9, <3>1
         DEF TypeOK, Held, Closing, GoFence, FenceSteps, history, services, claims
  <2>3. Restore => TypeOK' /\ Held'
    <3>1. Restore => original[fence.token] \in AutoConf
      BY Typed DEF Restore, Held
    <3> QED
      BY <1>1, <1>6, <1>9, <3>1
         DEF TypeOK, Held, Restore, GoFence, FenceSteps, history, services, claims
  <2>4. Receipt => TypeOK' /\ Held'
    BY <1>6 DEF TypeOK, Held, Receipt, GoFence, FenceSteps, files, services, claims
  <2>5. Unmark => TypeOK' /\ Held'
    BY <1>1, <1>3, <1>4, <1>6, <1>9
       DEF TypeOK, Held, Unmark, GoFence, FenceSteps, history, services, claims
  <2> QED
    BY <1>16, <2>1, <2>2, <2>3, <2>4, <2>5 DEF Close, FenceSteps
<1>19. Kill => TypeOK' /\ Held'
  <2>1. Kill => /\ fence' \in [pc : FenceSteps, token : Tokens \cup {NoFence}, leased : BOOLEAN]
                /\ root' \in [pc : RootSteps, unit : Units]
                /\ Held'
    BY <1>7, <1>8 DEF TypeOK, Held, Kill
  <2>2. Kill => crashes' \in 0..MaxCrashes /\ left' \in SUBSET {"state", "data", "barrier", "gate"}
    <3>1. \A pc : Owed(pc) \subseteq {"state", "data", "barrier", "gate"}
      BY DEF Owed
    <3>2. left \subseteq {"state", "data", "barrier", "gate"} /\ crashes \in Nat /\ MaxCrashes \in Nat
            /\ crashes \in 0..MaxCrashes
      BY FenceAssumption, Typed DEF FenceAssumption, TypeOK
    <3>3. Kill => crashes < MaxCrashes /\ crashes' = crashes + 1
                    /\ (left' = left \cup Owed(fence.pc) \/ left' = left \cup Owed(root.pc))
      BY DEF Kill
    <3>4. Kill => crashes' \in 0..MaxCrashes
      BY <3>2, <3>3
    <3>5. Kill => left' \in SUBSET {"state", "data", "barrier", "gate"}
      <4>1. Owed(fence.pc) \subseteq {"state", "data", "barrier", "gate"}
              /\ Owed(root.pc) \subseteq {"state", "data", "barrier", "gate"}
        BY <3>1
      <4> QED
        BY <3>2, <3>3, <4>1
    <3> QED
      BY <3>4, <3>5
  <2> QED
    BY <2>1, <2>2 DEF TypeOK, Kill, files, history, services, claims
<1>20. PowerLoss => TypeOK' /\ Held'
  <2>1. PowerLoss => barrier' \in [Units -> Directory(BOOLEAN)]
    <3>1. Settled(TRUE) \in Directory(BOOLEAN) /\ Settled(FALSE) \in Directory(BOOLEAN)
      BY DEF Settled, Directory
    <3> QED
      BY <3>1 DEF PowerLoss
  <2>2. PowerLoss => /\ state' \in Directory(StateImages) /\ data' \in Directory(AutoConf)
                     /\ gate' \in Directory(Inhibitions \cup {NoInhibition})
    BY <1>1, <1>9, <1>23 DEF PowerLoss
  <2>3. PowerLoss => crashes' \in 0..MaxCrashes /\ undone' \in BOOLEAN /\ left' = {}
    BY DEF PowerLoss, TypeOK, TakenBack
  <2>4. PowerLoss => loaded' \in SUBSET Units /\ Held'
    BY <1>7 DEF PowerLoss, Held
  <2> QED
    BY <1>7, <1>8, <2>1, <2>2, <2>3, <2>4 DEF TypeOK, PowerLoss, history, claims
<1>21. UNCHANGED vars => TypeOK' /\ Held'
  BY DEF TypeOK, Held, vars
<1>22. Serve \/ LegacyServe \/ AlterSystem \/ Adopt \/ Inhibit \/ Release
         \/ (\E u \in Units : SetupStart(u) \/ Stop(u))
         => Held'
  BY
     DEF Held, Serve, LegacyServe, AlterSystem, Adopt, Inhibit, InhibitStart, DropIn,
         DropInSync,
         InhibitMark, InhibitSync, Reload, InhibitDone, Release, ReleaseStart, ReleaseUnlink,
         ReleaseSync, SetupStart, Stop
<1> QED
  BY <1>10, <1>11, <1>12, <1>13, <1>14, <1>15, <1>17, <1>18, <1>19, <1>20, <1>21, <1>22
     DEF Next

\* The unfenced primary of Init is well typed.
LEMMA TypeInit ==
  ASSUME Init
  PROVE  TypeOK /\ Held
<1> USE FenceAssumption DEF Init
<1>1. /\ NoMarker \in Markers
      /\ [base |-> 0, hba |-> NoFence, mark |-> NoFence] \in AutoConf
  BY DEF Markers, AutoConf
<1>2. PICK registered
        \in BOOLEAN : state = Settled([marker |-> NoMarker, registered |-> registered])
  OBVIOUS
<1>3. state \in Directory(StateImages)
  <2>1. [marker |-> NoMarker, registered |-> registered] \in StateImages
    BY <1>1 DEF StateImages
  <2> QED
    BY <1>2, <2>1 DEF Settled, Directory
<1>4. /\ data \in Directory(AutoConf)
      /\ barrier \in [Units -> Directory(BOOLEAN)]
      /\ gate \in Directory(Inhibitions \cup {NoInhibition})
  BY <1>1 DEF Settled, Directory
<1>5. /\ fence \in [pc : FenceSteps, token : Tokens \cup {NoFence}, leased : BOOLEAN]
      /\ root \in [pc : RootSteps, unit : Units]
      /\ fence.pc = "idle"
  BY DEF IdleFence, IdleRoot, FenceSteps, RootSteps
<1>6. crashes \in 0..MaxCrashes
  OBVIOUS
<1> QED
  BY <1>1, <1>3, <1>4, <1>5, <1>6 DEF TypeOK, Held

\* Every variable keeps its type; a fence command knows its fence.
THEOREM TypeCorrect == Spec => [](TypeOK /\ Held)
<1> QED
  BY TypeInit, TypeNext, PTL DEF Spec

-----------------------------------------------------------------------------
(* The barrier: drop-ins, gate and what systemd has loaded.                 *)

\* Every step keeps the drop-ins, the gate and the acknowledgement in
\* step: what is acknowledged is flushed and loaded (inhibit, startup_inhibition.rs).
LEMMA BarrierNext ==
  ASSUME TypeOK, DropInsFlushed, GateFlushed, InForce, [Next]_vars
  PROVE  DropInsFlushed' /\ GateFlushed' /\ InForce'
<1> USE FenceAssumption DEF losses
<1> DEFINE Good == DropInsFlushed /\ GateFlushed /\ InForce
<1> DEFINE StillLeft == \A d \in {"barrier", "gate"} : d \in left <=> d \in left'
<1>1. UNCHANGED <<barrier, gate, loaded, root, acked, undone>> /\ StillLeft => Good'
  BY DEF DropInsFlushed, GateFlushed, InForce, Settled
<1>2. /\ barrier \in [Units -> Directory(BOOLEAN)]
      /\ \A u \in Units : barrier[u].now \in BOOLEAN
      /\ root \in [pc : RootSteps, unit : Units]
      /\ \A pc \in RootSteps : [IdleRoot EXCEPT !.pc = pc].pc = pc
      /\ IdleRoot.pc = "idle"
  BY DEF TypeOK, Directory, IdleRoot, RootSteps
<1>3. InhibitStart => Good'
  BY <1>2
     DEF InhibitStart, DropInsFlushed, GateFlushed, InForce, Settled, files, services,
         claims
<1>4. DropIn => Good'
  <2>1. acked # NoInhibition /\ ~undone => Missing = {}
    BY DEF InForce, DropInsFlushed, Missing
  <2>2. CASE DropIn /\ Missing = {} /\ root' = [root EXCEPT !.pc = "inhibit"] /\ UNCHANGED barrier
    BY <1>2, <2>2
       DEF DropIn, DropInsFlushed, GateFlushed, InForce, Settled, services, claims
  <2>3. ASSUME NEW u \in Missing, DropIn, barrier' = [barrier EXCEPT ![u] = Changed(@, TRUE)],
               root' = [pc |-> "drop_in_sync", unit |-> u]
        PROVE  Good'
    <3>1. root.pc = "drop_in"
      BY <2>3 DEF DropIn
    <3>2. UNCHANGED <<gate, loaded, acked, left, undone>>
      BY <2>3 DEF DropIn, services, claims
    <3>3. DropInsFlushed'
      <4>1. u \in Units /\ barrier'[u].now = TRUE /\ TRUE \in barrier'[u].may
        BY <1>2, <2>3 DEF Missing, Changed
      <4>2. \A v \in Units : v # u
              => /\ barrier'[v] = barrier[v]
                 /\ "barrier" \in left \/ barrier[v] = Settled(barrier[v].now)
        BY <1>2, <2>3, <3>1 DEF DropInsFlushed
      <4> QED
        BY <2>3, <3>2, <4>1, <4>2 DEF DropInsFlushed, Settled
    <3>4. GateFlushed' /\ InForce'
      BY <2>1, <2>3, <3>1, <3>2 DEF GateFlushed, InForce, Settled
    <3> QED
      BY <3>3, <3>4
  <2> QED
    BY <2>2, <2>3 DEF DropIn
<1>5. DropInSync => Good'
  <2>1. SUFFICES ASSUME DropInSync PROVE Good'
    OBVIOUS
  <2>2. UNCHANGED <<gate, loaded, acked, left, undone>> /\ root.pc = "drop_in_sync"
          /\ root'.pc = "drop_in"
    BY <1>2, <2>1 DEF DropInSync, services, claims, RootSteps
  <2>3. DropInsFlushed'
    <3>1. /\ barrier'[root.unit] = Settled(barrier[root.unit].now)
          /\ \A v \in Units : v # root.unit => barrier'[v] = barrier[v]
      BY <1>2, <2>1 DEF DropInSync, Synced
    <3>2. \A v \in Units : v # root.unit
            => "barrier" \in left \/ barrier[v] = Settled(barrier[v].now)
      BY <1>2 DEF DropInsFlushed
    <3>3. ASSUME NEW v \in Units
          PROVE  /\ barrier'[v].now \in barrier'[v].may
                 /\ "barrier" \in left \/ barrier'[v] = Settled(barrier'[v].now)
                 /\ barrier'[v].now = barrier[v].now
      <4>1. CASE v = root.unit
        <5>1. barrier'[v] = [now |-> barrier[v].now, may |-> {barrier[v].now}]
          BY <3>1, <4>1 DEF Settled
        <5> QED
          BY <5>1 DEF Settled
      <4>2. CASE v # root.unit
        BY <3>1, <3>2, <4>2 DEF DropInsFlushed
      <4> QED
        BY <4>1, <4>2
    <3> QED
      BY <2>2, <3>3 DEF DropInsFlushed
  <2> QED
    BY <2>2, <2>3 DEF GateFlushed, InForce, Settled
<1>6. InhibitMark => Good'
  <2>1. SUFFICES ASSUME InhibitMark PROVE Good'
    OBVIOUS
  <2>2. UNCHANGED <<barrier, loaded, acked, left, undone>> /\ root.pc = "inhibit"
    BY <2>1 DEF InhibitMark, services, claims
  <2>3. CASE gate.now # NoInhibition
    BY <1>2, <2>1, <2>2, <2>3
       DEF InhibitMark, DropInsFlushed, GateFlushed, InForce, Settled
  <2>4. CASE gate.now = NoInhibition
    <3>1. PICK i \in Inhibitions : gate' = Changed(gate, i)
      BY <2>1, <2>4 DEF InhibitMark
    <3>2. root'.pc = "inhibit_sync"
      BY <1>2, <2>1, <2>4 DEF InhibitMark
    <3>3. gate'.now = i /\ i \in gate'.may /\ i # NoInhibition
      BY <3>1 DEF Changed, Inhibitions, NoInhibition
    <3> QED
      BY <2>2, <2>4, <3>2, <3>3 DEF DropInsFlushed, GateFlushed, InForce, Settled
  <2> QED
    BY <2>3, <2>4
<1>7. InhibitSync => Good'
  <2>1. InhibitSync
          => /\ UNCHANGED <<barrier, loaded, acked, undone>> /\ left' = left \ {"gate"}
             /\ root.pc = "inhibit_sync" /\ root'.pc = "reload"
    BY <1>2 DEF InhibitSync, services, claims
  <2>2. InhibitSync => gate' = Settled(gate.now)
    BY DEF InhibitSync, Synced
  <2> QED
    BY <2>1, <2>2 DEF DropInsFlushed, GateFlushed, InForce, Settled
<1>8. Reload => Good'
  <2>1. Reload => /\ UNCHANGED <<barrier, gate, acked, left, undone>>
                  /\ root.pc = "reload" /\ root'.pc = "loaded"
    BY <1>2 DEF Reload, files, claims
  <2>2. Reload => loaded' = {u \in Units : barrier[u].now}
    BY DEF Reload
  <2>3. Reload /\ acked # NoInhibition /\ ~undone => loaded' = Units
    BY <2>2 DEF InForce, DropInsFlushed
  <2> QED
    BY <2>1, <2>2, <2>3 DEF DropInsFlushed, GateFlushed, InForce, Settled
<1>9. InhibitDone => Good'
  <2>1. InhibitDone
          => /\ UNCHANGED <<barrier, gate, loaded, left, undone>>
             /\ root.pc = "loaded" /\ root'.pc = "idle"
    BY <1>2 DEF InhibitDone, files, services
  <2> QED
    BY <2>1 DEF InhibitDone, DropInsFlushed, GateFlushed, InForce, Settled
<1>10. ASSUME NEW t, NEW phase, ReleaseStart(t, phase) PROVE Good'
  <2>1. /\ UNCHANGED <<barrier, gate, loaded, acked, left, undone>>
        /\ root.pc = "idle" /\ root'.pc = "release"
        /\ gate.now # NoInhibition
    BY <1>2, <1>10 DEF ReleaseStart, files, services, claims
  <2> QED
    BY <2>1 DEF DropInsFlushed, GateFlushed, InForce, Settled
<1>11. ReleaseUnlink => Good'
  <2>1. ReleaseUnlink
          => /\ UNCHANGED <<barrier, loaded, left, undone>>
             /\ root.pc = "release" /\ root'.pc = "release_sync"
    BY <1>2 DEF ReleaseUnlink, services
  <2>2. ReleaseUnlink => gate'.now \in gate'.may /\ acked' = NoInhibition
    BY DEF ReleaseUnlink, Changed
  <2> QED
    BY <2>1, <2>2 DEF DropInsFlushed, GateFlushed, InForce, Settled
<1>12. ReleaseSync => Good'
  <2>1. ReleaseSync
          => /\ UNCHANGED <<barrier, loaded, acked, undone>> /\ left' = left \ {"gate"}
             /\ root.pc = "release_sync" /\ root'.pc = "idle"
    BY <1>2 DEF ReleaseSync, services, claims
  <2>2. ReleaseSync => gate' = Settled(gate.now)
    BY DEF ReleaseSync, Synced
  <2> QED
    BY <2>1, <2>2 DEF DropInsFlushed, GateFlushed, InForce, Settled
<1>13. Kill => Good'
  <2>1. SUFFICES ASSUME Kill PROVE Good'
    OBVIOUS
  <2>2. UNCHANGED <<barrier, gate, loaded, acked, undone>>
    BY <2>1 DEF Kill, files, services, claims
  <2>3. /\ Owed("drop_in_sync") = {"barrier"} /\ Owed("inhibit_sync") = {"gate"}
        /\ Owed("release_sync") = {"gate"}
    BY DEF Owed
  <2>4. CASE UNCHANGED root
    <3>1. left \subseteq left'
      BY <2>1 DEF Kill
    <3> QED
      BY <2>2, <2>4, <3>1 DEF DropInsFlushed, GateFlushed, InForce, Settled
  <2>5. CASE root' = IdleRoot /\ left' = left \cup Owed(root.pc)
    BY <1>2, <2>2, <2>3, <2>5 DEF DropInsFlushed, GateFlushed, InForce, Settled
  <2> QED
    BY <2>1, <2>4, <2>5 DEF Kill
<1>14. PowerLoss => Good'
  <2>1. SUFFICES ASSUME PowerLoss PROVE Good'
    OBVIOUS
  <2>2. root' = IdleRoot /\ UNCHANGED acked /\ loaded' = {u \in Units : barrier'[u].now}
    BY <2>1 DEF PowerLoss, claims
  <2>3. \A u \in Units : \E b \in barrier[u].may : barrier'[u] = Settled(b)
    BY <2>1 DEF PowerLoss, AfterLoss
  <2>4. PICK i \in gate.may : gate' = Settled(i)
    BY <2>1 DEF PowerLoss, AfterLoss
  <2>8. \A u \in Units : /\ barrier'[u] = Settled(barrier'[u].now)
                         /\ barrier'[u].now \in barrier'[u].may
    <3> TAKE u \in Units
    <3>1. PICK b : barrier'[u] = Settled(b)
      BY <2>3
    <3> QED
      BY <3>1 DEF Settled
  <2>5. DropInsFlushed'
    BY <2>2, <2>8 DEF DropInsFlushed
  <2>6. GateFlushed'
    BY <1>2, <2>2, <2>4 DEF GateFlushed, Settled
  <2>7. ASSUME acked # NoInhibition, ~undone'
        PROVE  gate'.now = acked /\ loaded' = Units
    <3>1. ~undone /\ ~TakenBack
      BY <2>1, <2>7 DEF PowerLoss
    <3>2. gate.now = acked /\ loaded = Units
            /\ root.pc \notin {"drop_in_sync", "inhibit_sync", "release_sync"}
      BY <2>7, <3>1 DEF InForce
    <3>3. gate'.now = acked
      <4>1. CASE "gate" \in left
        BY <3>1, <3>2, <4>1 DEF TakenBack
      <4>2. CASE "gate" \notin left
        BY <2>4, <3>2, <4>2 DEF GateFlushed, Settled
      <4> QED
        BY <4>1, <4>2
    <3>4. ASSUME NEW v \in Units PROVE barrier'[v].now
      <4>1. barrier[v].now
        BY <3>2 DEF DropInsFlushed
      <4>2. CASE "barrier" \in left
        BY <3>1, <4>1, <4>2 DEF TakenBack
      <4>3. CASE "barrier" \notin left
        <5>1. PICK b \in barrier[v].may : barrier'[v] = Settled(b)
          BY <2>3
        <5>2. PICK n : n = barrier[v].now /\ barrier[v] = Settled(n)
          BY <3>2, <4>3 DEF DropInsFlushed
        <5>3. Settled(n).may = {n}
          BY DEF Settled
        <5> QED
          BY <4>1, <5>1, <5>2, <5>3 DEF Settled
      <4> QED
        BY <4>2, <4>3
    <3> QED
      BY <2>2, <3>3, <3>4
  <2> QED
    BY <1>2, <2>2, <2>5, <2>6, <2>7 DEF InForce
<1> HIDE DEF Good
<1>15. Serve \/ LegacyServe \/ AlterSystem \/ Adopt \/ (\E u \in Units : SetupStart(u) \/ Stop(u))
         => Good'
  BY <1>1
     DEF Serve, LegacyServe, AlterSystem, Adopt, SetupStart, Stop, files, services, claims
<1>16. Open => Good'
  BY <1>1
     DEF Open, OpenAgain, OpenInterrupted, OpenNew, Artifacts, Select, DataSync, Mark,
         StateSync, OpenDone, files, services, claims
<1>17. Close => Good'
  BY <1>1
     DEF Close, CloseStart, Closing, StateSync, Restore, DataSync, Receipt, Unmark,
         files, services, claims
<1>18. UNCHANGED vars => Good'
  BY <1>1 DEF vars
<1>19. Good'
  BY <1>3, <1>4, <1>5, <1>6, <1>7, <1>8, <1>9, <1>10, <1>11, <1>12, <1>13, <1>14, <1>15,
     <1>16,
     <1>17, <1>18 DEF Next, Inhibit, Release
<1> QED
  BY <1>19 DEF Good

-----------------------------------------------------------------------------
(* The fence: marker, selection and promise.                                *)

\* Nothing starts while an inhibition is acknowledged (the drop-ins' condition).
LEMMA NothingStarts ==
  ASSUME TypeOK, [Next]_vars, loaded = Units, gate.now # NoInhibition
  PROVE  up' \subseteq up
<1>1. \A u \in Units : ~Allowed(u)
  BY DEF Allowed
<1>2. Serve \/ LegacyServe \/ (\E u \in Units : SetupStart(u)) => FALSE
  BY <1>1, FenceAssumption DEF Serve, LegacyServe, SetupStart
<1>3. (\E u \in Units : Stop(u)) \/ PowerLoss => up' \subseteq up
  BY DEF Stop, PowerLoss
<1>4. AlterSystem \/ Adopt \/ Inhibit \/ Release \/ Kill \/ UNCHANGED vars => up' = up
  BY
     DEF AlterSystem, Adopt, Inhibit, InhibitStart, DropIn, DropInSync, InhibitMark,
         InhibitSync, Reload,
         InhibitDone, Release, ReleaseStart, ReleaseUnlink, ReleaseSync, Kill, vars, services
<1>5. Open \/ Close => up' = up
  BY
     DEF Open, OpenAgain, OpenInterrupted, OpenNew, Artifacts, Select, DataSync, Mark,
         StateSync,
         OpenDone, Close, CloseStart, Closing, Restore, Receipt, Unmark, services
<1> QED
  BY <1>2, <1>3, <1>4, <1>5 DEF Next

\* An inhibit-startup invocation never finds itself releasing.
LEMMA InhibitPath ==
  ASSUME TypeOK, Inhibit
  PROVE  root'.pc \notin {"release", "release_sync"}
<1>0. /\ \A pc \in RootSteps : [root EXCEPT !.pc = pc].pc = pc
      /\ \A pc \in RootSteps : [IdleRoot EXCEPT !.pc = pc].pc = pc
      /\ IdleRoot.pc = "idle"
  BY DEF TypeOK, IdleRoot, RootSteps
<1>1. {"drop_in", "inhibit", "inhibit_sync", "reload", "loaded"} \subseteq RootSteps
  BY DEF RootSteps
<1>2. InhibitStart \/ InhibitDone => root'.pc \in {"drop_in", "idle"}
  BY <1>0, <1>1 DEF InhibitStart, InhibitDone
<1>3. DropInSync => root'.pc = "drop_in"
  BY <1>0, <1>1 DEF DropInSync
<1>4. DropIn => root'.pc \in {"inhibit", "drop_in_sync"}
  <2>1. \A u : [pc |-> "drop_in_sync", unit |-> u].pc = "drop_in_sync"
    OBVIOUS
  <2>2. DropIn => \/ root' = [root EXCEPT !.pc = "inhibit"]
                  \/ \E u : root' = [pc |-> "drop_in_sync", unit |-> u]
    BY DEF DropIn
  <2> QED
    BY <1>0, <1>1, <2>1, <2>2
<1>5. InhibitMark => root'.pc \in {"reload", "inhibit_sync"}
  <2>1. InhibitMark
          => root' \in {[root EXCEPT !.pc = "reload"], [root EXCEPT !.pc = "inhibit_sync"]}
    BY DEF InhibitMark
  <2> QED
    BY <1>0, <1>1, <2>1
<1>6. InhibitSync \/ Reload => root'.pc \in {"reload", "loaded"}
  BY <1>0, <1>1 DEF InhibitSync, Reload
<1> QED
  BY <1>2, <1>3, <1>4, <1>5, <1>6 DEF Inhibit

\* A fence command runs only while the barrier is acknowledged and the primary is
\* down: no step of systemd, of root or of a crash takes that away under it.
LEMMA FenceBarredNext ==
  ASSUME TypeOK, Held, ~undone, GateFlushed, InForce, FenceBarred, [Next]_vars
  PROVE  FenceBarred'
<1>1. /\ \A pc \in RootSteps : [root EXCEPT !.pc = pc].pc = pc
      /\ \A pc \in RootSteps : [IdleRoot EXCEPT !.pc = pc].pc = pc
      /\ \A pc \in FenceSteps : [fence EXCEPT !.pc = pc].pc = pc
      /\ IdleRoot.pc = "idle" /\ IdleFence.pc = "idle"
  BY DEF TypeOK, IdleRoot, IdleFence, RootSteps, FenceSteps
<1>2. acked # NoInhibition => up' \subseteq up
  BY NothingStarts DEF InForce
<1>3. UNCHANGED <<fence, root, acked>> => FenceBarred'
  BY <1>2 DEF FenceBarred, Releasing, Stopped
<1>4. Serve \/ LegacyServe \/ AlterSystem \/ Adopt \/ (\E u \in Units : SetupStart(u) \/ Stop(u))
        \/ UNCHANGED vars => UNCHANGED <<fence, root, acked>>
  BY DEF Serve, LegacyServe, AlterSystem, Adopt, SetupStart, Stop, claims, vars
<1>5. Inhibit => FenceBarred'
  <2>1. Inhibit => UNCHANGED <<fence, up>>
    BY
       DEF Inhibit, InhibitStart, DropIn, DropInSync, InhibitMark, InhibitSync, Reload,
           InhibitDone, services
  <2>2. Inhibit /\ acked # NoInhibition => acked' # NoInhibition
    BY
       DEF Inhibit, InhibitStart, DropIn, DropInSync, InhibitMark, InhibitSync, Reload,
           InhibitDone, claims,
           GateFlushed
  <2>3. Inhibit => ~Releasing'
    BY InhibitPath DEF Releasing
  <2> QED
    BY <2>1, <2>2, <2>3 DEF FenceBarred, Stopped
<1>6. Release => FenceBarred'
  <2>1. Release => fence' = fence /\ (fence.pc = "idle" \/ Releasing)
    BY DEF Release, ReleaseStart, ReleaseUnlink, ReleaseSync, Releasing
  <2> QED
    BY <2>1 DEF FenceBarred
<1>7. Open \/ Close => UNCHANGED <<root, acked, up>>
  BY
     DEF Open, OpenAgain, OpenInterrupted, OpenNew, Artifacts, Select, DataSync, Mark,
         StateSync,
         OpenDone, Close, CloseStart, Closing, Restore, Receipt, Unmark, services, claims
<1>8. Open \/ Close => fence.pc # "idle" \/ Offline
  BY
     DEF Open, OpenAgain, OpenInterrupted, OpenNew, Artifacts, Select, DataSync, Mark,
         StateSync,
         OpenDone, Close, CloseStart, Closing, Restore, Receipt, Unmark
<1>9. Open \/ Close => FenceBarred'
  BY <1>7, <1>8 DEF FenceBarred, Offline, Releasing, Stopped
<1>10. Kill => FenceBarred'
  <2>1. Kill
          => UNCHANGED <<acked, up>>
            /\ (fence'.pc = "idle" \/ (UNCHANGED fence /\ root'.pc = "idle"))
    BY <1>1 DEF Kill, services, claims
  <2> QED
    BY <2>1 DEF FenceBarred, Releasing, Stopped
<1>11. PowerLoss => FenceBarred'
  BY <1>1 DEF PowerLoss, FenceBarred
<1> QED
  BY <1>3, <1>4, <1>5, <1>6, <1>9, <1>10, <1>11 DEF Next

\* What a step that touches a directory leaves of the marker (durable.rs).
LEMMA MarkerMoves ==
  ASSUME TypeOK, state.now \in state.may
  PROVE  /\ \A m \in Markers :
              state' = Changed(state, [state.now EXCEPT !.marker = m]) =>
                /\ Marker' = m /\ state'.now \in state'.may
                /\ \A s \in state'.may : s \in state.may \/ s.marker = m
         /\ state' = Changed(state, [state.now EXCEPT !.registered = TRUE]) =>
                /\ Marker' = Marker /\ state'.now \in state'.may
                /\ \A s \in state'.may : s \in state.may \/ s.marker = Marker
         /\ state' = Synced(state) =>
                /\ Marker' = Marker /\ state'.now \in state'.may
                /\ \A s \in state'.may : s.marker = Marker
         /\ state' \in AfterLoss(state) =>
                /\ state'.now \in state.may /\ state'.now \in state'.may
                /\ \A s \in state'.may : s.marker = Marker'
<1>1. state.now \in [marker : Markers, registered : BOOLEAN]
  BY Typed DEF StateImages
<1>2. ASSUME NEW m \in Markers, state' = Changed(state, [state.now EXCEPT !.marker = m])
      PROVE  /\ Marker' = m /\ state'.now \in state'.may
             /\ \A s \in state'.may : s \in state.may \/ s.marker = m
  <2>1. [state.now EXCEPT !.marker = m].marker = m
    BY <1>1
  <2> QED
    BY <1>2, <2>1 DEF Changed, Marker
<1>3. ASSUME state' = Changed(state, [state.now EXCEPT !.registered = TRUE])
      PROVE  /\ Marker' = Marker /\ state'.now \in state'.may
             /\ \A s \in state'.may : s \in state.may \/ s.marker = Marker
  <2>1. [state.now EXCEPT !.registered = TRUE].marker = state.now.marker
    BY <1>1
  <2> QED
    BY <1>3, <2>1 DEF Changed, Marker
<1>4. ASSUME state' = Synced(state)
      PROVE  /\ Marker' = Marker /\ state'.now \in state'.may
             /\ \A s \in state'.may : s.marker = Marker
  BY <1>4 DEF Synced, Settled, Marker
<1>5. ASSUME state' \in AfterLoss(state)
      PROVE  /\ state'.now \in state.may /\ state'.now \in state'.may
             /\ \A s \in state'.may : s.marker = Marker'
  BY <1>5 DEF AfterLoss, Settled, Marker
<1> QED
  BY <1>2, <1>3, <1>4, <1>5

\* The same of postgresql.auto.conf.
LEMMA ConfMoves ==
  ASSUME data.now \in data.may
  PROVE  /\ \A c : data' = Changed(data, c) =>
              /\ Conf' = c /\ data'.now \in data'.may
              /\ \A a \in data'.may : a \in data.may \/ a = c
         /\ \A c : data' = Settled(c) =>
              Conf' = c /\ data'.now \in data'.may /\ data' = Settled(Conf')
         /\ data' = Synced(data) =>
              /\ Conf' = Conf /\ data'.now \in data'.may /\ data' = Settled(Conf')
         /\ data' \in AfterLoss(data) =>
              /\ Conf' \in data.may /\ data'.now \in data'.may /\ data' = Settled(Conf')
BY DEF Changed, Settled, Synced, AfterLoss, Conf

\* One step of systemd, of a command or of a crash keeps the marker and the
\* selection in the shape the command under way expects.
LEMMA FenceNext ==
  ASSUME TypeOK, Held, FenceBarred, MarkerFlushed, DataFlushed, FenceShape, [Next]_vars
  PROVE  MarkerFlushed' /\ DataFlushed' /\ FenceShape'
<1> USE DEF losses
<1> DEFINE Good == MarkerFlushed /\ DataFlushed /\ FenceShape
           StillLeft == \A d \in {"state", "data"} : d \in left <=> d \in left'
<1>1. /\ \A pc \in FenceSteps : [fence EXCEPT !.pc = pc].pc = pc
      /\ \A pc \in FenceSteps : [fence EXCEPT !.pc = pc].token = fence.token
      /\ IdleFence.pc = "idle"
      /\ fence.pc # "idle" => fence.token \in Tokens
  BY DEF TypeOK, IdleFence, FenceSteps, Held
<1>2. /\ NoMarker \in Markers /\ NoMarker.phase = "none"
      /\ \A p \in {"prepared", "closing"}, t \in Tokens :
           Marked(p, t) \in Markers /\ Marked(p, t).phase = p /\ Marked(p, t).token = t
      /\ \A m \in Markers : m.phase \in {"prepared", "closing"}
           => m.token \in Tokens /\ m = Marked(m.phase, m.token)
  BY DEF Marked, Markers, NoMarker
<1>3. state.now \in state.may /\ data.now \in data.may
  BY DEF MarkerFlushed, DataFlushed
<1>4. /\ \A t \in Tokens : Selected(t).mark = t /\ Selected(t).hba = t
      /\ \A p \in {"prepared", "closing"}, t \in Tokens : Marked(p, t) = [phase |-> p, token |-> t]
  BY DEF Selected, Marked
<1>5. UNCHANGED <<state, data, original, fence>> /\ StillLeft => Good'
  BY
     DEF MarkerFlushed, DataFlushed, FenceShape, MarkerMoving, DataMoving,
         Opening, Thawing,
         AllMarked, Marker, Conf, Selected, Settled
<1>6. Serve \/ LegacyServe \/ (\E u \in Units : SetupStart(u) \/ Stop(u)) \/ Inhibit \/ Release
        \/ UNCHANGED vars
        => UNCHANGED <<state, data, original, fence>> /\ StillLeft
  BY
     DEF Serve, LegacyServe, SetupStart, Stop, Inhibit, InhibitStart, DropIn, DropInSync,
         InhibitMark,
         InhibitSync, Reload, InhibitDone, Release, ReleaseStart, ReleaseUnlink, ReleaseSync,
         vars, files, history
<1>7. Kill => Good'
  <2>1. SUFFICES ASSUME Kill PROVE Good'
    OBVIOUS
  <2>2. UNCHANGED <<state, data, original>>
    BY <2>1 DEF Kill, files, history
  <2>3. CASE UNCHANGED fence /\ left' = left \cup Owed(root.pc)
    <3>1. Owed(root.pc) \subseteq {"barrier", "gate"}
      BY Typed DEF Owed, RootSteps
    <3> QED
      BY <1>5, <2>2, <2>3, <3>1
  <2>4. CASE fence' = IdleFence /\ left' = left \cup Owed(fence.pc)
    <3>1. /\ fence.pc \in MarkerMoving => "state" \in left'
          /\ fence.pc \in DataMoving => "data" \in left'
          /\ left \subseteq left'
      BY <2>4 DEF Owed, MarkerMoving, DataMoving
    <3>2. fence'.pc = "idle"
      BY <1>1, <2>4
    <3>3. /\ "state" \notin left' => AllMarked({Marker})
          /\ "data" \notin left' => data = Settled(Conf)
      BY <3>1 DEF MarkerFlushed, DataFlushed
    <3> QED
      BY <1>3, <2>2, <3>2, <3>3
         DEF MarkerFlushed, DataFlushed, FenceShape, Thawing, AllMarked, Marker, Conf
  <2> QED
    BY <2>1, <2>3, <2>4 DEF Kill
<1>8. AlterSystem => Good'
  <2>1. AlterSystem => /\ UNCHANGED <<state, original, fence>> /\ fence.pc = "idle"
                       /\ left' = left \ {"data"}
    BY DEF AlterSystem, FenceBarred, history
  <2>2. AlterSystem => data'.now \in data'.may /\ data' = Settled(Conf')
    BY <1>3, ConfMoves DEF AlterSystem
  <2> QED
    BY <2>1, <2>2
       DEF MarkerFlushed, DataFlushed, FenceShape, MarkerMoving, DataMoving,
           Opening,
         Thawing, AllMarked, Marker
<1>9. Adopt => Good'
  <2>1. Adopt => UNCHANGED <<data, original, fence, left>>
    BY DEF Adopt, history
  <2>2. Adopt => /\ Marker' = Marker /\ state'.now \in state'.may
                 /\ \A s \in state'.may : s \in state.may \/ s.marker = Marker
    BY <1>3, MarkerMoves DEF Adopt
  <2> QED
    BY <1>3, <2>1, <2>2
       DEF MarkerFlushed, DataFlushed, FenceShape, AllMarked, Conf, Selected,
           Marker
<1>10. OpenAgain \/ OpenInterrupted \/ OpenNew => Good'
  <2>1. OpenAgain \/ OpenInterrupted \/ OpenNew
          => UNCHANGED <<state, data, original, left>> /\ fence.pc = "idle"
    BY DEF OpenAgain, OpenInterrupted, OpenNew, Offline, files, history
  <2>2. OpenAgain => fence'.pc = "select" /\ Marker = Marked("prepared", fence'.token)
    BY <1>2, Typed DEF OpenAgain, BeginFence
  <2>3. OpenInterrupted => fence'.pc = "mark" /\ Marker = NoMarker /\ Conf = Selected(fence'.token)
    BY DEF OpenInterrupted, BeginFence
  <2>4. OpenNew => fence'.pc = "artifacts" /\ Marker = NoMarker /\ Conf.mark = NoFence
    BY DEF OpenNew, BeginFence
  <2> QED
    BY <2>1, <2>2, <2>3, <2>4
       DEF MarkerFlushed, DataFlushed, FenceShape, MarkerMoving,
         DataMoving, Thawing, AllMarked, Conf, Selected, Marker
<1>11. ASSUME NEW t \in Tokens, CloseStart(t) PROVE Good'
  <2>1. /\ UNCHANGED <<state, data, original, left>> /\ fence.pc = "idle"
        /\ fence'.pc = "closing" /\ fence'.token = t
    BY <1>11 DEF CloseStart, Offline, BeginFence, files, history
  <2>2. Marker \in {Marked("prepared", t), Marked("closing", t)}
    BY <1>2, <1>11, Typed DEF CloseStart
  <2> QED
    BY <2>1, <2>2 DEF MarkerFlushed, DataFlushed, FenceShape, MarkerMoving,
         DataMoving, Thawing, AllMarked, Conf, Selected, Marker
<1>12. Artifacts => Good'
  <2>1. Artifacts => /\ UNCHANGED <<state, data, left>> /\ fence.pc = "artifacts" /\ fence'.pc = "select"
                     /\ original' = [original EXCEPT ![fence.token] = Conf]
    BY <1>1 DEF Artifacts, GoFence, FenceSteps, files
  <2> QED
    BY <2>1 DEF MarkerFlushed, DataFlushed, FenceShape, MarkerMoving,
         DataMoving, Thawing, AllMarked, Conf, Marker
<1>13. Select => Good'
  <2>1. Select
          => /\ UNCHANGED <<state, original, left>> /\ fence.pc = "select" /\ fence'.pc = "select_sync"
                  /\ fence'.token = fence.token /\ data'.now \in data'.may
                  /\ Conf' = Selected(fence.token)
    BY <1>1, <1>3, ConfMoves DEF Select, GoFence, FenceSteps, history
  <2> QED
    BY <2>1 DEF MarkerFlushed, DataFlushed, FenceShape, MarkerMoving,
         DataMoving, Thawing, AllMarked, Marker, Selected
<1>14. Restore => Good'
  <2>1. Restore
          => /\ UNCHANGED <<state, original, left>> /\ fence.pc = "restore" /\ fence'.pc = "restore_sync"
                   /\ fence'.token = fence.token /\ data'.now \in data'.may
                   /\ Conf' = original[fence.token]
    BY <1>1, <1>3, ConfMoves DEF Restore, GoFence, FenceSteps, history
  <2> QED
    BY <2>1 DEF MarkerFlushed, DataFlushed, FenceShape, MarkerMoving,
         DataMoving, Thawing, AllMarked, Marker
<1>15. ASSUME NEW from, NEW to,
                <<from, to>> \in {<<"select_sync", "mark">>, <<"restore_sync", "receipt">>},
              DataSync(from, to)
       PROVE  Good'
  <2>1. /\ UNCHANGED <<state, original>> /\ fence.pc = from /\ fence'.pc = to
             /\ fence'.token = fence.token
        /\ Conf' = Conf /\ data'.now \in data'.may /\ data' = Settled(Conf')
        /\ left' = left \ {"data"}
    BY <1>1, <1>3, <1>15, ConfMoves DEF DataSync, GoFence, FenceSteps, history
  <2> QED
    BY <1>15, <2>1 DEF MarkerFlushed, DataFlushed, FenceShape, MarkerMoving,
         DataMoving, Thawing, AllMarked, Marker, Selected
<1>16. ASSUME NEW from, NEW m \in Markers, NEW to,
              <<from, m, to>> \in {<<"mark", Marked("prepared", fence.token), "mark_sync">>,
                                   <<"closing", Marked("closing", fence.token), "closing_sync">>,
                                   <<"unmark", NoMarker, "unmark_sync">>},
              fence.pc = from, fence'.pc = to, fence'.token = fence.token,
              state' = Changed(state, [state.now EXCEPT !.marker = m]),
              UNCHANGED <<data, original, left>>
       PROVE  Good'
  <2>1. /\ Marker' = m /\ state'.now \in state'.may
        /\ \A s \in state'.may : s \in state.may \/ s.marker = m
    BY <1>3, <1>16, MarkerMoves
  <2>2. "state" \notin left => \A s \in state.may : s.marker = Marker
    BY <1>16 DEF MarkerFlushed, MarkerMoving, AllMarked
  <2>3. CASE from = "mark"
    BY <1>16, <2>1, <2>2, <2>3
       DEF MarkerFlushed, DataFlushed, FenceShape, MarkerMoving,
         DataMoving, Thawing, AllMarked, Conf, Selected
  <2>4. CASE from = "closing"
    BY <1>16, <2>1, <2>2, <2>4
       DEF MarkerFlushed, DataFlushed, FenceShape, MarkerMoving,
         DataMoving, Thawing, AllMarked, Conf, Selected
  <2>5. CASE from = "unmark"
    BY <1>16, <2>1, <2>2, <2>5
       DEF MarkerFlushed, DataFlushed, FenceShape, MarkerMoving,
         DataMoving, Thawing, AllMarked, Conf, Selected
  <2> QED
    BY <1>16, <2>3, <2>4, <2>5
<1>17. Mark \/ Closing \/ Unmark => Good'
  <2>1. Mark \/ Closing \/ Unmark => UNCHANGED <<data, original, left>> /\ fence.token \in Tokens
    BY <1>1 DEF Mark, Closing, Unmark, history
  <2>2. Mark => Good'
    BY <1>1, <1>2, <1>4, <1>16, <2>1 DEF Mark, GoFence, FenceSteps
  <2>3. Closing => Good'
    BY <1>1, <1>2, <1>4, <1>16, <2>1 DEF Closing, GoFence, FenceSteps
  <2>4. Unmark => Good'
    BY <1>1, <1>2, <1>4, <1>16, <2>1 DEF Unmark, GoFence, FenceSteps
  <2> QED
    BY <2>2, <2>3, <2>4
<1>18. ASSUME NEW from, NEW to,
              <<from, to>>
                \in {<<"mark_sync", "ready">>, <<"closing_sync", "restore">>,
                  <<"unmark_sync", "idle">>},
              StateSync(from, to)
       PROVE  Good'
  <2>1. /\ UNCHANGED <<data, original>> /\ fence.pc = from /\ fence'.pc = to
        /\ fence'.token = fence.token \/ to = "idle"
        /\ left' = left \ {"state"}
    <3>1. to \in {"ready", "restore", "idle"} /\ {"ready", "restore"} \subseteq FenceSteps
      BY <1>18 DEF FenceSteps
    <3>2. CASE to = "idle"
      BY <1>1, <1>18, <3>2 DEF StateSync, history
    <3>3. CASE to \in {"ready", "restore"}
      <4>1. fence' = [fence EXCEPT !.pc = to]
        BY <1>18, <3>3 DEF StateSync, GoFence
      <4> QED
        BY <1>1, <1>18, <3>1, <3>3, <4>1 DEF StateSync, history
    <3> QED
      BY <3>1, <3>2, <3>3
  <2>2. /\ Marker' = Marker /\ state'.now \in state'.may
        /\ \A s \in state'.may : s.marker = Marker
    BY <1>3, <1>18, MarkerMoves DEF StateSync
  <2> QED
    BY <1>18, <2>1, <2>2
       DEF MarkerFlushed, DataFlushed, FenceShape, MarkerMoving,
         DataMoving, Thawing, AllMarked, Conf, Selected
<1>19. OpenDone \/ Receipt => Good'
  <2>1. OpenDone => /\ UNCHANGED <<state, data, original, left>>
                    /\ fence'.pc = "idle" /\ fence.pc = "ready"
    BY <1>1 DEF OpenDone, files, history
  <2>2. Receipt
          => /\ UNCHANGED <<state, data, original, left>> /\ fence.pc = "receipt" /\ fence'.pc = "unmark"
                   /\ fence'.token = fence.token
    BY <1>1 DEF Receipt, GoFence, FenceSteps, files
  <2> QED
    BY <1>5, <2>1, <2>2 DEF MarkerFlushed, DataFlushed, FenceShape, MarkerMoving,
         DataMoving, Thawing, AllMarked, Conf, Selected, Marker
<1>20. PowerLoss => Good'
  <2>1. PowerLoss => /\ fence'.pc = "idle" /\ UNCHANGED original /\ left' = {}
                     /\ state' \in AfterLoss(state) /\ data' \in AfterLoss(data)
    BY <1>1 DEF PowerLoss, history
  <2> QED
    BY <1>3, <2>1, MarkerMoves, ConfMoves
       DEF MarkerFlushed, DataFlushed, FenceShape, MarkerMoving,
         DataMoving, Thawing, AllMarked
<1> HIDE DEF Good
<1>21. Good'
  BY <1>5, <1>6, <1>7, <1>8, <1>9, <1>10, <1>11, <1>12, <1>13, <1>14, <1>15, <1>17, <1>18,
     <1>19, <1>20
     DEF Next, Open, Close
<1> QED
  BY <1>21 DEF Good

\* The marker of an acknowledged fence stays in every image of state_dir until
\* close_fence begins, whatever a killed command left: each fence-open writes and
\* flushes it again.
LEMMA MarkerPromisedNext ==
  ASSUME TypeOK, Held, MarkerPromised, [Next]_vars
  PROVE  MarkerPromised'
<1>1. /\ \A pc \in FenceSteps : [fence EXCEPT !.pc = pc].pc = pc
           /\ [fence EXCEPT !.pc = pc].token = fence.token
      /\ IdleFence.pc = "idle"
      /\ fence.pc # "idle" => fence.token \in Tokens
  BY DEF TypeOK, IdleFence, FenceSteps, Held
<1>2. /\ state.now \in state.may /\ NoMarker.phase # "prepared" /\ NoFence \notin Tokens
      /\ promised \in Tokens \cup {NoFence}
      /\ \A t : Marked("prepared", t).phase = "prepared" /\ Marked("prepared", t).token = t
  BY DEF MarkerPromised, NoMarker, Marked, NoFence, Tokens, TypeOK
<1>3. promised # NoFence => Marker = Marked("prepared", promised)
  BY DEF MarkerPromised, AllMarked, Marker
<1>4. UNCHANGED <<state, fence, promised>> => MarkerPromised'
  BY DEF MarkerPromised, AllMarked, Marker
<1>5. Serve \/ LegacyServe \/ AlterSystem \/ (\E u \in Units : SetupStart(u) \/ Stop(u))
        \/ Inhibit \/ Release \/ UNCHANGED vars
        => UNCHANGED <<state, fence, promised>>
  BY
     DEF Serve, LegacyServe, AlterSystem, SetupStart, Stop, Inhibit, InhibitStart, DropIn,
         DropInSync, InhibitMark, InhibitSync, Reload, InhibitDone, Release, ReleaseStart,
         ReleaseUnlink, ReleaseSync, vars, files, claims
<1>6. Adopt => MarkerPromised'
  <2>1. Adopt => /\ Marker' = Marker /\ state'.now \in state'.may
                 /\ \A s \in state'.may : s \in state.may \/ s.marker = Marker
    BY <1>2, MarkerMoves DEF Adopt
  <2>2. Adopt => UNCHANGED <<fence, promised>>
    BY DEF Adopt, claims
  <2> QED
    BY <1>2, <2>1, <2>2 DEF MarkerPromised, AllMarked, Marker
<1>7. ASSUME UNCHANGED <<state, promised>>, fence'.pc \notin {"mark_sync", "ready"},
             promised # NoFence =>
               fence'.pc = "idle" \/ (fence'.pc \in Opening /\ fence'.token = promised)
      PROVE  MarkerPromised'
  BY <1>7 DEF MarkerPromised, AllMarked
<1>8. OpenAgain \/ OpenInterrupted \/ OpenNew => MarkerPromised'
  <2>1. OpenAgain \/ OpenInterrupted \/ OpenNew => UNCHANGED <<state, promised>>
    BY DEF OpenAgain, OpenInterrupted, OpenNew, files, claims
  <2>2. OpenAgain => fence'.pc = "select" /\ fence'.token = Marker.token
    BY DEF OpenAgain, BeginFence
  <2>3. OpenInterrupted => fence'.pc = "mark" /\ Marker = NoMarker
    BY DEF OpenInterrupted, BeginFence
  <2>4. OpenNew => fence'.pc = "artifacts" /\ Marker = NoMarker
    BY DEF OpenNew, BeginFence
  <2> QED
    BY <1>2, <1>3, <1>7, <2>1, <2>2, <2>3, <2>4 DEF Opening
<1>9. ASSUME NEW from, NEW to \in FenceSteps, fence.pc = from, GoFence(to),
             <<from, to>> \in {<<"artifacts", "select">>, <<"select", "select_sync">>,
                <<"select_sync", "mark">>, <<"restore", "restore_sync">>,
                <<"restore_sync", "receipt">>, <<"receipt", "unmark">>},
             UNCHANGED <<state, promised>>
      PROVE  MarkerPromised'
  <2>1. fence'.pc = to /\ fence'.token = fence.token
    BY <1>1, <1>9 DEF GoFence
  <2>2. promised # NoFence => fence.pc \in Opening /\ fence.token = promised
    BY <1>9 DEF MarkerPromised
  <2> QED
    BY <1>7, <1>9, <2>1, <2>2 DEF Opening
<1>10. Artifacts \/ Select \/ DataSync("select_sync", "mark") \/ Restore
         \/ DataSync("restore_sync", "receipt") \/ Receipt => MarkerPromised'
  <2>1. {"select", "select_sync", "mark", "restore_sync", "receipt", "unmark"} \subseteq FenceSteps
    BY DEF FenceSteps
  <2> QED
    BY <1>9, <2>1 DEF Artifacts, Select, DataSync, Restore, Receipt, files, claims
<1>11. Mark => MarkerPromised'
  <2>1. Mark => /\ UNCHANGED promised /\ fence.pc = "mark" /\ fence'.pc = "mark_sync"
                /\ fence'.token = fence.token /\ fence.token \in Tokens
    BY <1>1 DEF Mark, GoFence, FenceSteps, claims
  <2>2. Mark => Marked("prepared", fence.token) \in Markers
    BY <2>1 DEF Marked, Markers
  <2>3. Mark => state' = Changed(state, [state.now EXCEPT !.marker = Marked("prepared", fence.token)])
    BY DEF Mark, Marked
  <2>4. Mark => /\ Marker' = Marked("prepared", fence.token) /\ state'.now \in state'.may
                /\ \A s \in state'.may : s \in state.may \/ s.marker = Marked("prepared", fence.token)
    BY <1>2, <2>2, <2>3, MarkerMoves
  <2> QED
    BY <2>1, <2>4 DEF MarkerPromised, AllMarked, Opening
<1>12. StateSync("mark_sync", "ready") => MarkerPromised'
  <2>1. SUFFICES ASSUME StateSync("mark_sync", "ready") PROVE MarkerPromised'
    OBVIOUS
  <2>2. UNCHANGED promised /\ fence.pc = "mark_sync" /\ fence' = [fence EXCEPT !.pc = "ready"]
    BY <2>1 DEF StateSync, GoFence, claims
  <2>3. fence'.pc = "ready" /\ fence'.token = fence.token
    BY <1>1, <2>2 DEF FenceSteps
  <2>4. Marker' = Marker /\ state'.now \in state'.may /\ \A s \in state'.may : s.marker = Marker
    BY <1>2, <2>1, MarkerMoves DEF StateSync
  <2> QED
    BY <2>2, <2>3, <2>4 DEF MarkerPromised, AllMarked, Opening
<1>13. OpenDone => MarkerPromised'
  <2>1. OpenDone
          => /\ UNCHANGED state /\ fence.pc = "ready" /\ fence'.pc = "idle"
             /\ promised' \in {promised, fence.token}
    BY <1>1 DEF OpenDone, files
  <2> QED
    BY <2>1 DEF MarkerPromised, AllMarked
<1>14. ASSUME NEW t, CloseStart(t) PROVE MarkerPromised'
  <2>1. UNCHANGED state /\ fence'.pc = "closing" /\ promised' = NoFence
    BY <1>14 DEF CloseStart, BeginFence, files
  <2> QED
    BY <2>1 DEF MarkerPromised, AllMarked
<1>15. ASSUME NEW m \in Markers, NEW from \in {"closing", "unmark"},
              NEW to \in {"closing_sync", "unmark_sync"}, fence.pc = from, fence'.pc = to,
              state' = Changed(state, [state.now EXCEPT !.marker = m]), UNCHANGED promised
       PROVE  MarkerPromised'
  <2>1. promised = NoFence
    BY <1>15 DEF MarkerPromised, Opening
  <2>2. state'.now \in state'.may
    BY <1>2, <1>15, MarkerMoves
  <2> QED
    BY <1>15, <2>1, <2>2 DEF MarkerPromised
<1>16. Closing \/ Unmark => MarkerPromised'
  <2>1. Closing => Marked("closing", fence.token) \in Markers
    BY <1>1 DEF Closing, Marked, Markers
  <2>2. NoMarker \in Markers
    BY DEF Markers
  <2>3. Closing
          => /\ state' = Changed(state, [state.now EXCEPT !.marker = Marked("closing", fence.token)])
             /\ fence.pc = "closing" /\ fence'.pc = "closing_sync" /\ UNCHANGED promised
    BY <1>1 DEF Closing, Marked, GoFence, FenceSteps, claims
  <2>4. Unmark
          => /\ state' = Changed(state, [state.now EXCEPT !.marker = NoMarker])
             /\ fence.pc = "unmark" /\ fence'.pc = "unmark_sync" /\ UNCHANGED promised
    BY <1>1 DEF Unmark, GoFence, FenceSteps, claims
  <2>5. Closing => MarkerPromised'
    BY <1>15, <2>1, <2>3
  <2>6. Unmark => MarkerPromised'
    BY <1>15, <2>2, <2>4
  <2> QED
    BY <2>5, <2>6
<1>17. StateSync("closing_sync", "restore") \/ StateSync("unmark_sync", "idle") => MarkerPromised'
  <2>1. SUFFICES ASSUME NEW from \in {"closing_sync", "unmark_sync"}, NEW to \in {"restore", "idle"},
                        StateSync(from, to)
                 PROVE  MarkerPromised'
    OBVIOUS
  <2>2. promised = NoFence /\ UNCHANGED promised
    BY <2>1 DEF StateSync, MarkerPromised, Opening, claims
  <2>3. fence'.pc \in {"restore", "idle"}
    <3>1. fence' = IdleFence \/ fence' = [fence EXCEPT !.pc = to]
      BY <2>1 DEF StateSync, GoFence
    <3>2. fence \in [pc : FenceSteps, token : Tokens \cup {NoFence}, leased : BOOLEAN]
      BY DEF TypeOK
    <3> QED
      BY <3>1, <3>2 DEF IdleFence
  <2>4. state'.now \in state'.may
    BY <1>2, <2>1, MarkerMoves DEF StateSync
  <2> QED
    BY <2>2, <2>3, <2>4 DEF MarkerPromised
<1>18. Kill => MarkerPromised'
  <2>1. Kill => /\ UNCHANGED <<state, promised>>
                /\ UNCHANGED fence \/ fence'.pc = "idle"
    BY <1>1 DEF Kill, files, claims
  <2> QED
    BY <1>4, <1>7, <2>1
<1>19. PowerLoss => MarkerPromised'
  <2>1. PowerLoss => UNCHANGED promised /\ fence'.pc = "idle"
    BY <1>1 DEF PowerLoss, claims
  <2>2. PowerLoss => state'.now \in state'.may /\ \A s \in state'.may : s \in state.may
    BY DEF PowerLoss, AfterLoss, Settled
  <2> QED
    BY <2>1, <2>2 DEF MarkerPromised, AllMarked
<1> QED
  BY <1>4, <1>5, <1>6, <1>8, <1>10, <1>11, <1>12, <1>13, <1>14, <1>16, <1>17, <1>18, <1>19
     DEF Next, Open, Close

\* No retained original ever carries a comment: a fence is opened anew only over a
\* configuration without one, and ALTER SYSTEM writes none.
LEMMA OriginalsNext ==
  ASSUME TypeOK, Held, Originals, [Next]_vars
  PROVE  Originals'
<1>1. /\ \A pc \in FenceSteps : [fence EXCEPT !.pc = pc].pc = pc
      /\ IdleFence.pc = "idle"
      /\ original \in [Tokens -> AutoConf]
      /\ fence.pc # "idle" => fence.token \in Tokens
  BY DEF TypeOK, IdleFence, FenceSteps, Held
<1>2. Artifacts => Originals'
  <2>1. Artifacts => /\ fence.pc = "artifacts" /\ fence'.pc = "select"
                     /\ original' = [original EXCEPT ![fence.token] = Conf]
    BY <1>1 DEF Artifacts, GoFence, FenceSteps
  <2> QED
    BY <1>1, <2>1 DEF Originals
<1>3. UNCHANGED original /\ fence'.pc # "artifacts" => Originals'
  BY DEF Originals
<1>4. UNCHANGED <<original, data, fence>> => Originals'
  BY DEF Originals, Conf
<1>5. Serve \/ LegacyServe \/ Adopt \/ (\E u \in Units : SetupStart(u) \/ Stop(u))
        \/ Inhibit \/ Release \/ UNCHANGED vars => UNCHANGED <<original, data, fence>>
  BY
     DEF Serve, LegacyServe, Adopt, SetupStart, Stop, Inhibit, InhibitStart, DropIn,
         DropInSync, InhibitMark, InhibitSync, Reload, InhibitDone, Release, ReleaseStart,
         ReleaseUnlink, ReleaseSync, vars, files, history
<1>6. AlterSystem => Originals'
  <2>1. [Conf EXCEPT !.base = @ + 1, !.mark = NoFence].mark = NoFence
    BY Typed DEF AutoConf
  <2>2. AlterSystem => UNCHANGED original /\ Conf'.mark = NoFence
    <3>1. AlterSystem => UNCHANGED original
      BY DEF AlterSystem, history
    <3>2. AlterSystem => data' = Settled([Conf EXCEPT !.base = @ + 1, !.mark = NoFence])
      BY Zenon DEF AlterSystem
    <3>3. \A i : Settled(i).now = i
      BY DEF Settled
    <3>4. AlterSystem => data'.now = [Conf EXCEPT !.base = @ + 1, !.mark = NoFence]
      BY <3>2, <3>3, Zenon
    <3>5. AlterSystem => data'.now.mark = NoFence
      BY <2>1, <3>4, Zenon
    <3> QED
      BY <3>1, <3>5 DEF Conf
  <2> QED
    BY <2>2 DEF Originals
<1>7. OpenAgain \/ OpenInterrupted \/ OpenNew => Originals'
  <2>1. OpenAgain \/ OpenInterrupted \/ OpenNew => UNCHANGED <<original, data>>
    BY DEF OpenAgain, OpenInterrupted, OpenNew, files, history
  <2>2. OpenAgain \/ OpenInterrupted => fence'.pc # "artifacts"
    BY DEF OpenAgain, OpenInterrupted, BeginFence
  <2>3. OpenNew => Conf.mark = NoFence
    BY DEF OpenNew
  <2> QED
    BY <2>1, <2>2, <2>3 DEF Originals, Conf
<1>8. Select \/ DataSync("select_sync", "mark") \/ Mark \/ OpenDone \/ Closing \/ Restore
        \/ DataSync("restore_sync", "receipt") \/ Receipt \/ Unmark => Originals'
  <2>1. Select \/ DataSync("select_sync", "mark") \/ Mark \/ OpenDone \/ Closing \/ Restore
          \/ DataSync("restore_sync", "receipt") \/ Receipt \/ Unmark
          => UNCHANGED original /\ fence'.pc # "artifacts"
    BY <1>1
       DEF Select, DataSync, Mark, OpenDone, Closing, Restore, Receipt, Unmark, GoFence,
           FenceSteps, history
  <2> QED
    BY <1>3, <2>1
<1>9. StateSync("mark_sync", "ready") \/ StateSync("closing_sync", "restore")
        \/ StateSync("unmark_sync", "idle") => Originals'
  <2>1. {"ready", "restore"} \subseteq FenceSteps
    BY DEF FenceSteps
  <2>2. ASSUME NEW from, NEW to \in {"ready", "restore", "idle"}, StateSync(from, to)
        PROVE  UNCHANGED original /\ fence'.pc # "artifacts"
    BY <1>1, <2>1, <2>2 DEF StateSync, GoFence, history
  <2> QED
    BY <1>3, <2>2
<1>10. (\E t \in Tokens : CloseStart(t)) => Originals'
  BY <1>3 DEF CloseStart, BeginFence, history
<1>11. Kill \/ PowerLoss => Originals'
  <2>1. Kill => UNCHANGED <<original, data>> /\ (UNCHANGED fence \/ fence'.pc = "idle")
    BY <1>1 DEF Kill, files, history
  <2>2. PowerLoss => UNCHANGED original /\ fence'.pc = "idle"
    BY <1>1 DEF PowerLoss, history
  <2> QED
    BY <1>3, <1>4, <2>1, <2>2
<1> QED
  BY <1>2, <1>4, <1>5, <1>6, <1>7, <1>8, <1>9, <1>10, <1>11 DEF Next, Open, Close

\* An acknowledged fence keeps its selection, in force and under a running primary,
\* until close_fence begins.
LEMMA PromiseNext ==
  ASSUME TypeOK, Held, ~undone', FenceBarred, MarkerPromised, DataFlushed, FenceShape, Promise,
         [Next]_vars
  PROVE  Promise'
<1> USE DEF losses
<1>1. /\ \A pc \in FenceSteps : [fence EXCEPT !.pc = pc].pc = pc
           /\ [fence EXCEPT !.pc = pc].token = fence.token
      /\ IdleFence.pc = "idle"
      /\ fence.pc # "idle" => fence.token \in Tokens
  BY DEF TypeOK, IdleFence, FenceSteps, Held
<1>2. /\ data.now \in data.may /\ Conf = data.now
      /\ promised # NoFence => Marker.token = promised /\ Marker # NoMarker
      /\ promised # NoFence /\ fence.pc # "idle" => fence.pc \in Opening /\ fence.token = promised
  BY DEF DataFlushed, Conf, MarkerPromised, AllMarked, Marker, Marked, NoMarker
<1>3. /\ \A t : Selected(t).hba = t
  BY DEF Selected
<1>4. UNCHANGED <<data, promised, up, hba>> /\ ("data" \in left => "data" \in left') => Promise'
  BY DEF Promise, Stopped, Conf
<1>5. Serve \/ LegacyServe => Promise'
  <2>1. Serve \/ LegacyServe => UNCHANGED <<data, promised, left>>
    BY DEF Serve, LegacyServe, files, claims
  <2>2. Serve \/ LegacyServe => (promised # NoFence => hba' = promised)
    BY <1>2 DEF Serve, LegacyServe, FenceInForce, Promise
  <2> QED
    BY <2>1, <2>2 DEF Promise, Conf
<1>6. ASSUME NEW u \in Units, SetupStart(u) \/ Stop(u) PROVE Promise'
  <2>1. UNCHANGED <<data, promised, left>>
    BY <1>6 DEF SetupStart, Stop, files, claims
  <2>2. Stopped' \/ (~Stopped /\ hba' = hba)
    BY <1>6 DEF SetupStart, Stop, Stopped
  <2> QED
    BY <2>1, <2>2 DEF Promise, Conf
<1>7. Adopt \/ Inhibit \/ Release \/ UNCHANGED vars => Promise'
  <2>1. Adopt \/ Inhibit \/ Release \/ UNCHANGED vars
          => UNCHANGED <<data, promised, up, hba>> /\ ("data" \in left => "data" \in left')
    BY
       DEF Adopt, Inhibit, InhibitStart, DropIn, DropInSync, InhibitMark, InhibitSync, Reload,
           InhibitDone, Release, ReleaseStart, ReleaseUnlink, ReleaseSync, vars, files,
           services, claims
  <2> QED
    BY <1>4, <2>1
<1>8. AlterSystem => Promise'
  <2>1. AlterSystem => UNCHANGED <<promised, up, hba>>
    BY DEF AlterSystem, services, claims
  <2>2. AlterSystem => Conf'.hba = Conf.hba /\ \A a \in data'.may : a.hba = Conf.hba
    <3>1. [Conf EXCEPT !.base = @ + 1, !.mark = NoFence].hba = Conf.hba
      BY Typed DEF AutoConf
    <3>2. AlterSystem => /\ data'.may = {[Conf EXCEPT !.base = @ + 1, !.mark = NoFence]}
                         /\ Conf' = [Conf EXCEPT !.base = @ + 1, !.mark = NoFence]
      BY DEF AlterSystem, Settled, Conf
    <3> QED
      BY <3>1, <3>2
  <2> QED
    BY <2>1, <2>2 DEF Promise, Stopped
<1>9. OpenAgain \/ OpenInterrupted \/ OpenNew \/ Mark \/ StateSync("mark_sync", "ready") => Promise'
  <2>1. OpenAgain \/ OpenInterrupted \/ OpenNew \/ Mark \/ StateSync("mark_sync", "ready")
          => UNCHANGED <<data, promised, up, hba>> /\ ("data" \in left => "data" \in left')
    BY DEF OpenAgain, OpenInterrupted, OpenNew, Mark, StateSync, files, services, claims
  <2> QED
    BY <1>4, <2>1
<1>10. Select => Promise'
  <2>1. Select => /\ UNCHANGED <<promised, up, hba, left>> /\ fence.pc = "select"
                  /\ Conf' = Selected(fence.token)
                  /\ \A a \in data'.may : a \in data.may \/ a = Selected(fence.token)
    BY <1>2, ConfMoves DEF Select, services, claims
  <2> QED
    BY <1>2, <1>3, <2>1 DEF Promise, Stopped
<1>11. DataSync("select_sync", "mark") => Promise'
  <2>1. DataSync("select_sync", "mark") =>
          /\ UNCHANGED <<promised, up, hba>> /\ Conf' = Conf
          /\ \A a \in data'.may : a = Conf
    BY DEF DataSync, Synced, Settled, Conf, services, claims
  <2> QED
    BY <2>1 DEF Promise, Stopped
<1>12. OpenDone => Promise'
  <2>1. OpenDone
          => /\ UNCHANGED <<data, up, hba, left>> /\ fence.pc = "ready"
             /\ promised' \in {promised, fence.token}
    BY <1>1 DEF OpenDone, files, services
  <2>2. OpenDone => Stopped /\ Conf = Selected(fence.token)
    BY <2>1 DEF FenceBarred, FenceShape
  <2>3. OpenDone /\ "data" \notin left => \A a \in data.may : a = Conf
    <3>1. PICK c : c = Conf
      OBVIOUS
    <3>2. Settled(c).may = {c}
      BY DEF Settled
    <3> QED
      BY <2>1, <3>1, <3>2 DEF DataFlushed, DataMoving
  <2> QED
    BY <1>3, <2>1, <2>2, <2>3 DEF Promise, Stopped, Conf
<1>13. ASSUME NEW t, CloseStart(t) PROVE Promise'
  BY <1>13 DEF CloseStart, Promise
<1>14. Artifacts \/ Closing \/ Restore \/ Receipt \/ Unmark
         \/ DataSync("restore_sync", "receipt") \/ StateSync("closing_sync", "restore")
         \/ StateSync("unmark_sync", "idle") => Promise'
  <2>1. SUFFICES ASSUME Artifacts \/ Closing \/ Restore \/ Receipt \/ Unmark
                          \/ DataSync("restore_sync", "receipt")
                          \/ StateSync("closing_sync", "restore")
                          \/ StateSync("unmark_sync", "idle")
                 PROVE  Promise'
    OBVIOUS
  <2>2. UNCHANGED promised
    BY <2>1
       DEF Artifacts, Closing, Restore, Receipt, Unmark, DataSync, StateSync, claims
  <2>3. promised = NoFence
    BY <1>2, <2>1
       DEF Artifacts, Closing, Restore, Receipt, Unmark, DataSync, StateSync, Opening
  <2> QED
    BY <2>2, <2>3 DEF Promise
<1>15. Kill => Promise'
  <2>1. Kill => UNCHANGED <<data, promised, up, hba>> /\ left \subseteq left'
    BY DEF Kill, files, services, claims
  <2> QED
    BY <1>4, <2>1
<1>16. PowerLoss => Promise'
  <2>1. SUFFICES ASSUME PowerLoss, promised # NoFence PROVE Promise'
    BY DEF PowerLoss, Promise, claims
  <2>2. ~TakenBack /\ UNCHANGED promised /\ Stopped' /\ data' \in AfterLoss(data)
    BY <2>1 DEF PowerLoss, claims, Stopped
  <2>3. PICK a \in data.may : data' = Settled(a)
    BY <2>2 DEF AfterLoss
  <2>4. Conf' = a /\ \A b \in data'.may : b = a
    BY <2>3 DEF Settled, Conf
  <2>5. a.hba = promised
    <3>1. CASE "data" \in left
      BY <1>2, <2>1, <2>2, <2>4, <3>1 DEF TakenBack, Promise, Conf
    <3>2. CASE "data" \notin left
      BY <2>1, <2>3, <3>2 DEF Promise
    <3> QED
      BY <3>1, <3>2
  <2> QED
    BY <2>2, <2>4, <2>5 DEF Promise
<1> QED
  BY <1>5, <1>6, <1>7, <1>8, <1>9, <1>10, <1>11, <1>12, <1>13, <1>14, <1>15, <1>16
     DEF Next, Open, Close

\* The boundary a release inspected still stands when it unlinks the gate: it
\* holds the fence lock, and the gate keeps every unit down.
LEMMA ReleaseAdmittedNext ==
  ASSUME TypeOK, Held, GateFlushed, MarkerPromised, Originals, ReleaseAdmitted, [Next]_vars
  PROVE  ReleaseAdmitted'
<1>1. /\ \A pc \in RootSteps : [root EXCEPT !.pc = pc].pc = pc
      /\ \A pc \in RootSteps : [IdleRoot EXCEPT !.pc = pc].pc = pc
      /\ IdleRoot.pc = "idle"
  BY DEF TypeOK, IdleRoot, RootSteps
<1>2. ASSUME NEW t \in Tokens, NEW phase, ReleaseStart(t, phase) PROVE ReleaseAdmitted'
  <2>1. UNCHANGED <<state, data, loaded, up, original, fence>>
    BY <1>2 DEF ReleaseStart, files, history, services
  <2>2. StartupAdmitted /\ loaded = Units /\ Stopped /\ fence.pc = "idle"
    BY <1>2 DEF ReleaseStart, OfflineBoundary, StartupAdmitted, Originals
  <2> QED
    BY <2>1, <2>2 DEF ReleaseAdmitted, StartupAdmitted, Marker, Conf, Selected, Stopped
<1>3. ASSUME root.pc = "release", UNCHANGED root PROVE ReleaseAdmitted'
  <2>1. StartupAdmitted /\ loaded = Units /\ Stopped /\ fence.pc = "idle" /\ gate.now # NoInhibition
    BY <1>3 DEF ReleaseAdmitted, GateFlushed
  <2>2. Stopped'
    BY <2>1, NothingStarts DEF Stopped
  <2>3. ~(Open \/ Close)
    BY <1>3, <2>1
       DEF Open, OpenAgain, OpenInterrupted, OpenNew, Artifacts, Select, DataSync, Mark,
           StateSync,
         OpenDone, Close, CloseStart, Closing, Restore, Receipt, Unmark, Offline, Releasing
  <2>4. ~(AlterSystem \/ Inhibit \/ Release \/ PowerLoss)
    <3>1. ~(AlterSystem \/ PowerLoss)
      BY <1>1, <1>3, <2>1 DEF AlterSystem, PowerLoss
    <3>2. ~Inhibit
      BY <1>3
         DEF Inhibit, InhibitStart, DropIn, DropInSync, InhibitMark, InhibitSync, Reload,
             InhibitDone
    <3>3. ~Release
      <4>1. "release_sync" \in RootSteps
        BY DEF RootSteps
      <4>2. ReleaseUnlink => root'.pc = "release_sync"
        BY <1>1, <4>1 DEF ReleaseUnlink
      <4> QED
        BY <1>3, <4>2 DEF Release, ReleaseStart, ReleaseSync
    <3> QED
      BY <3>1, <3>2, <3>3
  <2>5. UNCHANGED <<data, original, loaded, Marker>> /\ fence'.pc = "idle"
    <3>1. Serve \/ LegacyServe \/ (\E u \in Units : SetupStart(u) \/ Stop(u)) \/ UNCHANGED vars
            => UNCHANGED <<state, data, original, loaded, fence>>
      BY DEF Serve, LegacyServe, SetupStart, Stop, files, history, vars
    <3>2. Adopt => UNCHANGED <<data, original, loaded, fence, Marker>>
      BY MarkerMoves DEF Adopt, history, services, MarkerPromised
    <3>3. Kill => UNCHANGED <<state, data, original, loaded>> /\ fence'.pc = "idle"
      <4>1. IdleFence.pc = "idle"
        BY DEF IdleFence
      <4> QED
        BY <2>1, <4>1 DEF Kill, files, history, services
    <3> QED
      BY <2>1, <2>3, <2>4, <3>1, <3>2, <3>3 DEF Next, Marker
  <2> QED
    BY <2>1, <2>2, <2>5 DEF ReleaseAdmitted, StartupAdmitted, Conf, Selected
<1>4. root'.pc = "release"
        => (root.pc = "release" /\ UNCHANGED root)
          \/ \E t \in Tokens, phase \in {"prepared", "closed"} : ReleaseStart(t, phase)
  <2>1. Serve \/ LegacyServe \/ AlterSystem \/ Adopt
          \/ (\E u \in Units : SetupStart(u) \/ Stop(u)) \/ UNCHANGED vars
          => UNCHANGED root
    BY DEF Serve, LegacyServe, AlterSystem, Adopt, SetupStart, Stop, vars
  <2>2. Open \/ Close => UNCHANGED root
    BY
       DEF Open, OpenAgain, OpenInterrupted, OpenNew, Artifacts, Select, DataSync, Mark,
           StateSync,
         OpenDone, Close, CloseStart, Closing, Restore, Receipt, Unmark
  <2>3. Kill \/ PowerLoss => UNCHANGED root \/ root'.pc = "idle"
    BY <1>1 DEF Kill, PowerLoss
  <2>4. Inhibit => root'.pc # "release"
    BY InhibitPath
  <2>5. ReleaseUnlink \/ ReleaseSync => root'.pc # "release"
    BY <1>1 DEF ReleaseUnlink, ReleaseSync, RootSteps
  <2> QED
    BY <2>1, <2>2, <2>3, <2>4, <2>5 DEF Next, Release
<1> QED
  BY <1>2, <1>3, <1>4 DEF ReleaseAdmitted

-----------------------------------------------------------------------------
(* The theorems.                                                            *)

\* A primary nobody fenced yet: no marker, no drop-in, no gate (Init).
LEMMA InitInv ==
  ASSUME Init
  PROVE  IInv
<1>1. PICK r : state = Settled([marker |-> NoMarker, registered |-> r])
  BY DEF Init
<1>2. /\ state.now = [marker |-> NoMarker, registered |-> r] /\ state.may = {state.now}
      /\ Marker = NoMarker
  BY <1>1 DEF Settled, Marker
<1>3. /\ fence.pc = "idle" /\ root.pc = "idle" /\ acked = NoInhibition /\ promised = NoFence
      /\ loaded = {} /\ gate = Settled(NoInhibition)
      /\ data = Settled([base |-> 0, hba |-> NoFence, mark |-> NoFence])
      /\ \A u \in Units : barrier[u] = Settled(FALSE)
      /\ \A t \in Tokens : original[t].mark = NoFence
  BY DEF Init, IdleFence, IdleRoot
<1>4. DropInsFlushed /\ GateFlushed /\ InForce
  <2>1. /\ Settled(NoInhibition).now = NoInhibition /\ NoInhibition \in Settled(NoInhibition).may
        /\ Settled(FALSE).now = FALSE /\ FALSE \in Settled(FALSE).may
    BY DEF Settled
  <2> QED
    BY <1>3, <2>1 DEF DropInsFlushed, GateFlushed, InForce
<1>5. MarkerFlushed /\ DataFlushed /\ Originals
  BY <1>2, <1>3 DEF MarkerFlushed, DataFlushed, Originals, AllMarked, Settled, Conf, Marker
<1>6. FenceBarred /\ FenceShape /\ Promise /\ MarkerPromised /\ ReleaseAdmitted
  BY <1>2, <1>3
     DEF FenceBarred, FenceShape, Promise, MarkerPromised, ReleaseAdmitted, Opening, Thawing
<1> QED
  BY <1>4, <1>5, <1>6 DEF IInv, Kept

\* A change that was taken back stays taken back.
LEMMA UndoneStays ==
  ASSUME undone, [Next]_vars
  PROVE  undone'
<1> USE DEF losses
<1>1. Serve \/ LegacyServe \/ AlterSystem \/ Adopt \/ (\E u \in Units : SetupStart(u) \/ Stop(u))
        \/ Inhibit \/ Release \/ Kill \/ PowerLoss \/ UNCHANGED vars => undone'
  BY
     DEF Serve, LegacyServe, AlterSystem, Adopt, SetupStart, Stop, Inhibit, InhibitStart,
         DropIn, DropInSync, InhibitMark, InhibitSync, Reload, InhibitDone, Release,
         ReleaseStart, ReleaseUnlink, ReleaseSync, Kill, PowerLoss, vars
<1>2. Open \/ Close => undone'
  BY
     DEF Open, OpenAgain, OpenInterrupted, OpenNew, Artifacts, Select, DataSync, Mark,
         StateSync, OpenDone, Close, CloseStart, Closing, Restore, Receipt, Unmark
<1> QED
  BY <1>1, <1>2 DEF Next

\* The inductive invariant.
LEMMA Inductive == Spec => [](TypeOK /\ Held /\ IInv)
<1>1. Init => TypeOK /\ Held /\ IInv
  BY TypeInit, InitInv
<1>2. TypeOK /\ Held /\ IInv /\ [Next]_vars => (TypeOK /\ Held /\ IInv)'
  <2> SUFFICES ASSUME TypeOK, Held, IInv, [Next]_vars
               PROVE  (TypeOK /\ Held /\ IInv)'
    OBVIOUS
  <2>1. TypeOK' /\ Held'
    BY TypeNext
  <2>2. DropInsFlushed' /\ GateFlushed' /\ InForce'
    BY BarrierNext DEF IInv
  <2>3. MarkerPromised' /\ Originals'
    BY MarkerPromisedNext, OriginalsNext DEF IInv
  <2>4. ReleaseAdmitted'
    BY ReleaseAdmittedNext DEF IInv
  <2>5. ASSUME ~undone' PROVE Kept'
    <3>1. ~undone /\ Kept
      BY <2>5, UndoneStays DEF IInv
    <3>2. FenceBarred'
      BY <3>1, FenceBarredNext DEF IInv, Kept
    <3>3. MarkerFlushed' /\ DataFlushed' /\ FenceShape'
      BY <3>1, FenceNext DEF IInv, Kept
    <3>4. Promise'
      BY <2>5, <3>1, PromiseNext DEF IInv, Kept
    <3> QED
      BY <3>2, <3>3, <3>4 DEF Kept
  <2> QED
    BY <2>1, <2>2, <2>3, <2>4, <2>5 DEF IInv
<1> QED
  BY <1>1, <1>2, PTL DEF Spec

\* From its acknowledgement to its thaw, a fence restricts every primary that runs:
\* one from before the guard (LegacyServe), one that checks (Serve), after any kill
\* and any power loss but one that took an unflushed change back.
THEOREM FenceHolds == Spec => []FencedWhilePromised
<1>1. IInv => FencedWhilePromised
  BY DEF IInv, Kept, Promise, FencedWhilePromised
<1> QED
  BY <1>1, Inductive, PTL

\* fence-open answers "prepared-offline" only when its marker is on disk, and that
\* marker does not leave the disk before close_fence begins, wherever commands are
\* killed; nor does the selection, unless a killed fence-open left it unflushed.
THEOREM FenceIsOnDisk == Spec => []FencePersists
<1>1. TypeOK /\ IInv => FencePersists
  <2> SUFFICES ASSUME TypeOK, IInv, promised # NoFence
               PROVE  /\ AlwaysOnDisk(state,
                        LAMBDA s : s.marker = [phase |-> "prepared", token |-> promised])
                      /\ \/ "data" \in left \/ undone
                         \/ AlwaysOnDisk(data, LAMBDA a : a.hba = promised)
    BY DEF FencePersists
  <2>1. \A s \in state.may \cup {state.now} : s.marker = [phase |-> "prepared", token |-> promised]
    BY DEF IInv, MarkerPromised, AllMarked, Marked
  <2>2. "data" \notin left /\ ~undone => \A a \in data.may \cup {data.now} : a.hba = promised
    BY DEF IInv, Kept, Promise, DataFlushed
  <2> QED
    BY <2>1, <2>2 DEF AlwaysOnDisk
<1> QED
  BY <1>1, Inductive, PTL

\* While an inhibition is acknowledged no unit starts: not the primary, not a
\* setup unit, not from a generation without the guard, not after a restart, until
\* a power loss takes back a gate or drop-in that a killed command left unflushed.
THEOREM NothingStartsInhibited == Spec => NoStartWhileInhibited
<1>1. TypeOK /\ Held /\ IInv /\ [Next]_vars
        => [\A u \in up' \ up : acked = NoInhibition \/ undone]_vars
  <2> SUFFICES ASSUME TypeOK, IInv, [Next]_vars, acked # NoInhibition, ~undone
               PROVE  up' \subseteq up
    OBVIOUS
  <2>1. loaded = Units /\ gate.now # NoInhibition
    BY DEF IInv, InForce, TypeOK, NoInhibition, Inhibitions
  <2> QED
    BY <2>1, NothingStarts
<1> QED
  BY <1>1, Inductive, PTL DEF Spec, NoStartWhileInhibited

\* A thaw is released only complete, wherever commands are killed, and its marker
\* goes only after the retained original is on disk (release_startup, close_fence).
THEOREM ThawIsWhole == Spec => OriginalRestored
<1>1. TypeOK /\ Held /\ IInv /\ [Next]_vars =>
        [/\ acked # NoInhibition /\ acked' = NoInhibition
              => Marker.phase # "closing" /\ StartupAdmitted
         /\ Marker.phase = "closing" /\ Marker'.phase = "none" /\ ~undone'
              => data'.may = {original[Marker.token]}]_vars
  <2> SUFFICES ASSUME TypeOK, Held, IInv, Next
               PROVE  /\ acked # NoInhibition /\ acked' = NoInhibition
                           => Marker.phase # "closing" /\ StartupAdmitted
                      /\ Marker.phase = "closing" /\ Marker'.phase = "none" /\ ~undone'
                           => data'.may = {original[Marker.token]}
    OBVIOUS
  <2>1. ASSUME acked # NoInhibition, acked' = NoInhibition
        PROVE  Marker.phase # "closing" /\ StartupAdmitted
    <3>1. Serve \/ LegacyServe \/ AlterSystem \/ Adopt
            \/ (\E u \in Units : SetupStart(u) \/ Stop(u))
            \/ Kill \/ PowerLoss => UNCHANGED acked
      BY
         DEF Serve, LegacyServe, AlterSystem, Adopt, SetupStart, Stop, Kill, PowerLoss,
             claims
    <3>2. Open \/ Close => UNCHANGED acked
      BY
         DEF Open, OpenAgain, OpenInterrupted, OpenNew, Artifacts, Select, DataSync, Mark,
             StateSync,
           OpenDone, Close, CloseStart, Closing, Restore, Receipt, Unmark, claims
    <3>3. Inhibit => UNCHANGED acked \/ acked' # NoInhibition
      BY
         DEF Inhibit, InhibitStart, DropIn, DropInSync, InhibitMark, InhibitSync, Reload,
             InhibitDone, claims,
             IInv, GateFlushed
    <3>4. Release => UNCHANGED acked \/ root.pc = "release"
      BY DEF Release, ReleaseStart, ReleaseUnlink, ReleaseSync, claims
    <3>5. root.pc = "release"
      BY <2>1, <3>1, <3>2, <3>3, <3>4 DEF Next
    <3>6. StartupAdmitted
      BY <3>5 DEF IInv, ReleaseAdmitted
    <3> QED
      BY <3>6 DEF StartupAdmitted, NoMarker
  <2>2. ASSUME Marker.phase = "closing", Marker'.phase = "none", ~undone'
        PROVE  data'.may = {original[Marker.token]}
    <3>0. Kept
      BY <2>2, UndoneStays DEF IInv
    <3>1. state.now \in state.may /\ \A t : Marked("closing", t).token = t
            /\ Marked("prepared", t).phase = "prepared"
      BY DEF IInv, MarkerPromised, Marked
    <3>2. Serve \/ LegacyServe \/ AlterSystem \/ (\E u \in Units : SetupStart(u) \/ Stop(u))
            \/ Kill \/ Inhibit \/ Release => UNCHANGED Marker
      BY
         DEF Serve, LegacyServe, AlterSystem, SetupStart, Stop, Kill, Inhibit, InhibitStart,
             DropIn, DropInSync,
             InhibitMark, InhibitSync, Reload, InhibitDone, Release, ReleaseStart, ReleaseUnlink,
             ReleaseSync, files, Marker
    <3>3. OpenAgain \/ OpenInterrupted \/ OpenNew \/ Artifacts \/ Select \/ OpenDone \/ Restore
            \/ Receipt
            \/ (\E t \in Tokens : CloseStart(t)) \/ DataSync("select_sync", "mark")
            \/ DataSync("restore_sync", "receipt") => UNCHANGED Marker
      BY
         DEF OpenAgain, OpenInterrupted, OpenNew, Artifacts, Select, OpenDone, Restore,
             Receipt, CloseStart,
             DataSync, files, Marker
    <3>4. Adopt \/ StateSync("mark_sync", "ready") \/ StateSync("closing_sync", "restore")
            \/ StateSync("unmark_sync", "idle") => UNCHANGED Marker
      BY <3>1, MarkerMoves DEF Adopt, StateSync
    <3>5. ~(Mark \/ Closing)
      <4>1. ASSUME Mark \/ Closing PROVE FALSE
        <5>1. fence.token \in Tokens
          BY <4>1 DEF Mark, Closing, Held
        <5>2. \A p \in {"prepared", "closing"} : Marked(p, fence.token) \in Markers
                /\ Marked(p, fence.token).phase = p
          BY <5>1 DEF Marked, Markers
        <5>3. \E p \in {"prepared", "closing"} :
                state' = Changed(state, [state.now EXCEPT !.marker = Marked(p, fence.token)])
          BY <4>1 DEF Mark, Closing, Marked
        <5>4. \E p \in {"prepared", "closing"} : Marker' = Marked(p, fence.token)
          BY <3>1, <5>2, <5>3, MarkerMoves
        <5> QED
          BY <2>2, <5>2, <5>4
      <4> QED
        BY <4>1
    <3>6. ~PowerLoss
      <4>1. ASSUME PowerLoss PROVE FALSE
        <5>1. PICK s \in state.may : Marker' = s.marker /\ state'.now = s
          BY <4>1, <3>1, MarkerMoves DEF PowerLoss, Marker
        <5>2. CASE "state" \in left
          <6>1. state'.now = state.now
            BY <2>2, <4>1, <5>2 DEF PowerLoss, TakenBack
          <6> QED
            BY <2>2, <6>1 DEF Marker
        <5>3. CASE "state" \notin left
          <6>1. fence.pc \notin {"mark_sync", "unmark_sync"}
            BY <2>2, <3>0, <3>1 DEF Kept, FenceShape, NoMarker
          <6>2. CASE fence.pc = "closing_sync"
            BY <2>2, <3>0, <5>1, <5>3, <6>2 DEF Kept, MarkerFlushed, AllMarked, Marked
          <6>3. CASE fence.pc \notin MarkerMoving
            BY <2>2, <3>0, <5>1, <5>3, <6>3 DEF Kept, MarkerFlushed, AllMarked
          <6> QED
            BY <6>1, <6>2, <6>3 DEF MarkerMoving
        <5> QED
          BY <5>2, <5>3
      <4> QED
        BY <4>1
    <3>7. Unmark
      BY <2>2, <3>2, <3>3, <3>4, <3>5, <3>6 DEF Next, Open, Close
    <3>8. fence.pc = "unmark" /\ data' = data
      BY <3>7 DEF Unmark
    <3>9. Marker = Marked("closing", fence.token) /\ Conf = original[fence.token]
            /\ data = Settled(Conf)
      BY <3>0, <3>8 DEF Kept, FenceShape, Thawing, DataFlushed, DataMoving
    <3>10. data.may = {Conf}
      <4>1. PICK c : c = Conf /\ data = Settled(c)
        BY <3>9
      <4>2. Settled(c).may = {c}
        BY DEF Settled
      <4> QED
        BY <4>1, <4>2
    <3> QED
      BY <3>1, <3>8, <3>9, <3>10
  <2> QED
    BY <2>1, <2>2
<1> QED
  BY <1>1, Inductive, PTL DEF Spec, OriginalRestored
=============================================================================
