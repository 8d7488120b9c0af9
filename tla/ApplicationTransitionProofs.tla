-------------------- MODULE ApplicationTransitionProofs --------------------
(***************************************************************************)
(* Theorems about the application transition, for any units, retired       *)
(* units, guarded units, runs, writes and crashes.                         *)
(*                                                                         *)
(* The first layer holds whatever is lost: a command's step finds the      *)
(* journal in its phase (Phased), a publication what its earlier steps     *)
(* wrote (Published), a worker an unmoved journal (Working), and every     *)
(* image a power loss may leave names one backend (Authorities).           *)
(*                                                                         *)
(* The second layer follows the system until a power loss takes back a     *)
(* change that a killed command had left without its flush (`undone`).  It *)
(* speaks of the images that may stand without that (Standing): the seen   *)
(* one alone of a directory in `left`, else every one on disk.  Only the   *)
(* directory changed last has two (Flushed), so the barrier stands while   *)
(* the journal is held (Barrier), the start policy follows the point of no *)
(* return (Generations), who runs is on one side (Running), and that       *)
(* side's backend holds every acknowledged write (Backends).               *)
(***************************************************************************)
EXTENDS ApplicationTransition, FiniteSetTheorems, TLAPS

\* The steps of a command, by the phase its journal is in.
Installing == {"policy", "drop_ins", "inhibit_retired", "reload", "stop", "lock"}
Capturing == {"capture", "capturing", "captured"}
Publishing == {"anchors", "identity", "custody", "committed"}
Releasing == {"policy_new", "lift"}
Restoring == {"abort_identity", "abort_custody"}
Returning == {"policy_old", "lift_old", "lift_retired"}

Ops == [pc : Steps, lease : {"none", "shared", "exclusive"},
        dirty : {"none", "state", "gate", "retired"} \cup Barriered]
Workers == [task : {"none", "capture", "import"}, run : Runs \cup {NoRun}]

\* What a capture holds, and a target that nothing but an import wrote to.
Whole == {Junk} \cup SUBSET (1..MaxWrites)

\* TypeOK, and more of what backends hold; the visible image of a directory is
\* one a power loss may leave.
Typed ==
  /\ state \in Directory(StateImages) /\ state.now \in state.may
  /\ gate \in Directory(GateImages) /\ gate.now \in gate.may
  /\ retired \in Directory(BOOLEAN) /\ retired.now \in retired.may
  /\ dropIn \in [Barriered -> Directory(BOOLEAN)]
  /\ \A u \in Barriered : dropIn[u].now \in dropIn[u].may
  /\ anchored \in BOOLEAN
  /\ content \in [Sides -> SUBSET (0..MaxWrites)] /\ content["source"] \subseteq 1..MaxWrites
  /\ acked \subseteq 1..MaxWrites
  /\ backup \in [Runs -> Whole]
  /\ receipt \in [run : Runs \cup {NoRun}, fresh : BOOLEAN]
  /\ loaded \subseteq Barriered /\ up \subseteq Barriered
  /\ gen \in {"old", "new"} /\ installed \subseteq {"old", "new"}
  /\ op \in Ops /\ worker \in Workers
  /\ runs \in 0..MaxRuns /\ gaveUp \in BOOLEAN /\ crashes \in 0..MaxCrashes
  /\ left \subseteq {"state", "gate", "retired"} \cup Barriered /\ undone \in BOOLEAN

\* The phases a command's step belongs to.
Belongs(pc, phase) ==
  /\ pc \in Installing => phase \in Preparable \ {"planned"}
  /\ pc \in Capturing => phase = "quiesced"
  /\ pc = "target" => phase \in {"captured", "importing", "imported", "prepared"}
  /\ pc \in {"import", "importing"} => phase = "importing"
  /\ pc = "verify" => phase \in {"importing", "imported", "prepared"}
  /\ pc = "prepared" => phase \in {"imported", "prepared"}
  /\ pc \in Publishing => phase = "committing"
  /\ pc \in Releasing => phase = "write-enabled"
  /\ pc \in Restoring => phase = "aborting"
  /\ pc = "aborted" => phase \in Preparable \cup {"aborting"}
  /\ pc \in Returning => phase = "aborted"
Phased == /\ Belongs(op.pc, Phase)
          /\ op.pc = "idle" /\ op.dirty = "none" => op = Idle

\* What a publication has done by a step.
Published ==
  /\ op.pc \in {"identity", "custody", "committed"} => anchored
  /\ op.pc \in {"custody", "committed"} => state.now.identity = "target"
  /\ op.pc = "committed" => state.now.custody = "target"
  /\ op.pc = "aborted" /\ Phase = "aborting" => state.now.custody = "source"

\* A worker's journal does not move while it runs.
Working ==
  /\ worker # NoWorker =>
       /\ worker.run = Journal.run
       /\ op.dirty = "none"
       /\ \/ worker.task = "capture" /\ Phase = "quiesced" /\ op.pc \in {"idle", "capturing"}
          \/ worker.task = "import" /\ Phase = "importing" /\ op.pc \in {"idle", "importing"}
  /\ op.pc = "capturing" => worker.task = "capture"
  /\ op.pc = "importing" => worker.task = "import"

\* Runs are numbered in the order they are planned.
Numbered ==
  /\ \A s \in state.may :
       IF s.journal.phase = "none" THEN s.journal.run = NoRun ELSE s.journal.run \in 1..runs
  /\ \A r \in Runs : r > runs => backup[r] = Junk

\* AuthorityWhole, of one image.
Authority(s) ==
  LET side == IF s.journal.phase \in {"committed", "write-enabled", "complete"}
                THEN "target" ELSE "source"
  IN  /\ s.journal.phase \notin {"committing", "aborting"} => s.identity = s.custody
      /\ s.journal.phase \notin {"none", "committing", "aborting"} => s.identity = side
      /\ s.identity = "target" => anchored
Authorities == \A s \in state.may : Authority(s)

Commands == Phased /\ Published /\ Working /\ Numbered /\ Authorities

-----------------------------------------------------------------------------
(* Types.                                                                   *)

\* Renames, flushes and losses keep the images of a directory (durable.rs).
LEMMA DirectoryOps ==
  ASSUME NEW S, NEW dir \in Directory(S), dir.now \in dir.may
  PROVE  /\ Synced(dir) \in Directory(S) /\ Synced(dir).now \in Synced(dir).may
         /\ \A i \in S : /\ Changed(dir, i) \in Directory(S)
                         /\ Changed(dir, i).now \in Changed(dir, i).may
         /\ \A d \in AfterLoss(dir) : d \in Directory(S) /\ d.now \in d.may
BY DEF Directory, Synced, Changed, Settled, AfterLoss

\* A journal step renames one new image into place.
Moves(phase, run, identity, custody) ==
  /\ state' \in Directory(StateImages) /\ state'.now \in state'.may
  /\ state'.may = state.may \cup {state'.now}
  /\ state'.now.journal.phase = phase /\ state'.now.journal.run = run
  /\ state'.now.identity = identity /\ state'.now.custody = custody

\* A save keeps the run and the authority (Save).
LEMMA Saved ==
  ASSUME Typed, NEW phase \in Phases, Save(phase)
  PROVE  Moves(phase, Journal.run, state.now.identity, state.now.custody)
<1>1. /\ state.now \in StateImages /\ state.now.journal \in Journals
  BY DEF Typed, Directory, StateImages
<1>2. [state.now EXCEPT !.journal.phase = phase] \in StateImages
  BY <1>1 DEF StateImages, Journals
<1>3. state' = Changed(state, [state.now EXCEPT !.journal.phase = phase])
  BY DEF Save
<1>4. state' \in Directory(StateImages) /\ state'.now \in state'.may
  <2>1. state \in Directory(StateImages) /\ state.now \in state.may
    BY DEF Typed
  <2> QED BY <1>2, <1>3, <2>1, DirectoryOps
<1>5. state'.now = [state.now EXCEPT !.journal.phase = phase]
      /\ state'.may = state.may \cup {state'.now}
  BY <1>3 DEF Changed
<1>6. [state.now EXCEPT !.journal.phase = phase].journal.phase = phase
      /\ [state.now EXCEPT !.journal.phase = phase].journal.run = Journal.run
      /\ [state.now EXCEPT !.journal.phase = phase].identity = state.now.identity
      /\ [state.now EXCEPT !.journal.phase = phase].custody = state.now.custody
  BY <1>1 DEF StateImages, Journals, Journal
<1> QED BY <1>4, <1>5, <1>6 DEF Moves

\* What a step of a command does to its own record.
LEMMA OpMoves ==
  ASSUME Typed
  PROVE  /\ Idle \in Ops
         /\ \A step \in Steps, dirty \in {"none", "state", "gate", "retired"} \cup Barriered :
              /\ Go(step, dirty) =>
                   /\ op' \in Ops /\ op'.pc = step /\ op'.dirty = dirty
                   /\ op'.lease = op.lease
              /\ \A lease \in {"none", "shared", "exclusive"} : Begin(step, dirty, lease) =>
                   /\ op' \in Ops /\ op'.pc = step /\ op'.dirty = dirty
<1>1. Idle \in Ops
  BY DEF Ops, Idle, Steps
<1>2. ASSUME NEW step \in Steps, NEW dirty \in {"none", "state", "gate", "retired"} \cup Barriered,
             Go(step, dirty)
      PROVE  /\ op' \in Ops /\ op'.pc = step /\ op'.dirty = dirty
             /\ op'.lease = op.lease
  BY <1>2 DEF Typed, Ops, Go
<1>3. ASSUME NEW step \in Steps, NEW dirty \in {"none", "state", "gate", "retired"} \cup Barriered,
             NEW lease \in {"none", "shared", "exclusive"}, Begin(step, dirty, lease)
      PROVE  op' \in Ops /\ op'.pc = step /\ op'.dirty = dirty
  BY <1>3 DEF Ops, Begin
<1> QED BY <1>1, <1>2, <1>3

\* A publication of the authority.
Publications ==
  \/ Publish("identity", "target", "custody")
  \/ PublishCustody("custody", "target", "committed")
  \/ Publish("abort_identity", "source", "abort_custody")
  \/ PublishCustody("abort_custody", "source", "aborted")

\* The journal's images, as every action moves them.
StateStep ==
  \/ state' = state
  \/ state' = Synced(state) /\ Flush
  \/ state' \in AfterLoss(state) /\ PowerLoss
  \/ \E candidate \in BOOLEAN :
       /\ Plan(candidate) /\ Moves("planned", runs + 1, state.now.identity, state.now.custody)
  \/ /\ Prepare
     /\ Moves(IF Phase = "planned" THEN "quiescing" ELSE Phase, Journal.run,
              state.now.identity, state.now.custody)
  \/ Quiesce /\ Moves("quiesced", Journal.run, state.now.identity, state.now.custody)
  \/ SaveCaptured /\ Moves("captured", Journal.run, state.now.identity, state.now.custody)
  \/ PrepareTarget /\ Moves("importing", Journal.run, state.now.identity, state.now.custody)
  \/ VerifyTarget /\ Moves("imported", Journal.run, state.now.identity, state.now.custody)
  \/ SavePrepared /\ Moves("prepared", Journal.run, state.now.identity, state.now.custody)
  \/ Bind /\ Moves(Phase, Journal.run, state.now.identity, state.now.custody)
  \/ Commit /\ Moves("committing", Journal.run, state.now.identity, state.now.custody)
  \/ /\ Publish("identity", "target", "custody")
     /\ Moves(Phase, Journal.run, "target", state.now.custody)
  \/ /\ PublishCustody("custody", "target", "committed")
     /\ Moves(Phase, Journal.run, state.now.identity, "target")
  \/ /\ Publish("abort_identity", "source", "abort_custody")
     /\ Moves(Phase, Journal.run, "source", state.now.custody)
  \/ /\ PublishCustody("abort_custody", "source", "aborted")
     /\ Moves(Phase, Journal.run, state.now.identity, "source")
  \/ SaveCommitted /\ Moves("committed", Journal.run, state.now.identity, state.now.custody)
  \/ /\ EnableWrites /\ Phase = "committed"
     /\ Moves("write-enabled", Journal.run, state.now.identity, state.now.custody)
  \/ Complete /\ Moves("complete", Journal.run, state.now.identity, state.now.custody)
  \/ Abort /\ Moves("aborting", Journal.run, state.now.identity, state.now.custody)
  \/ SaveAborted /\ Moves("aborted", Journal.run, state.now.identity, state.now.custody)
  \/ Retire /\ Moves("none", NoRun, state.now.identity, state.now.custody)

\* The actions that are no step of a command.
Beside ==
  \/ \E u \in Barriered : StartUnit(u) \/ StopUnit(u) \/ Write(u)
  \/ Certify \/ Expire \/ GiveUp

\* What begins a command, and what a command does to its journal or its worker.
Beginning ==
  \/ \E candidate \in BOOLEAN : Plan(candidate)
  \/ Prepare \/ Bind \/ Commit \/ EnableWrites \/ EnableAgain \/ Complete
  \/ Abort \/ AbortAgain \/ Retire
Journaling ==
  \/ Quiesce \/ SaveCaptured \/ PrepareTarget \/ VerifyTarget \/ SavePrepared
  \/ Publications \/ SaveCommitted \/ SaveAborted
Gating ==
  \/ InstallPolicy \/ Inhibit
  \/ ReleasePolicy("policy_new", "target", "lift")
  \/ ReleasePolicy("policy_old", "source", "lift_old")
  \/ Lift("lift", "idle") \/ Lift("lift_old", "lift_retired") \/ Lift("lift_old", "idle")

\* Next, by these kinds.
LEMMA Kinds ==
  [Next]_vars =>
    \/ Beginning \/ Journaling \/ Gating \/ Beside
    \/ Flush \/ Refuse \/ Kill \/ PowerLoss \/ RollBack
    \/ Activate \/ InhibitRetired \/ LiftRetired \/ DaemonReload \/ StopUnits
    \/ Capture \/ Import \/ PublishAnchors
    \/ (\E u \in Barriered : InstallDropIn(u)) \/ (\E ok \in BOOLEAN : WorkerEnds(ok))
    \/ UNCHANGED vars
BY DEF Next, Proceed, Beginning, Journaling, Gating, Beside, Publications, Barriered

\* Which actions change a variable, if any.
LEMMA Frame ==
  [Next]_vars =>
    /\ gate' = gate \/ Gating \/ Flush \/ PowerLoss
    /\ retired' = retired \/ InhibitRetired \/ LiftRetired \/ Flush \/ PowerLoss
    /\ dropIn' = dropIn \/ Flush \/ PowerLoss \/ (\E u \in Barriered : InstallDropIn(u))
    /\ anchored' = anchored \/ PublishAnchors
    /\ content' = content \/ (\E ok \in BOOLEAN : WorkerEnds(ok)) \/ RollBack \/ PowerLoss
         \/ (\E u \in Barriered : Write(u))
    /\ acked' = acked \/ \E u \in Barriered : Write(u)
    /\ backup' = backup \/ \E ok \in BOOLEAN : WorkerEnds(ok)
    /\ receipt' = receipt \/ Certify \/ Expire
    /\ loaded' = loaded \/ DaemonReload \/ RollBack \/ PowerLoss
    /\ up' = up \/ StopUnits \/ RollBack \/ PowerLoss
         \/ (\E u \in Barriered : StartUnit(u) \/ StopUnit(u))
    /\ gen' = gen \/ Activate \/ RollBack \/ PowerLoss
    /\ installed' = installed \/ Activate
    /\ worker' = worker \/ Capture \/ Import \/ (\E ok \in BOOLEAN : WorkerEnds(ok))
         \/ RollBack \/ PowerLoss
    /\ runs' = runs \/ \E candidate \in BOOLEAN : Plan(candidate)
    /\ gaveUp' = gaveUp \/ GiveUp
    /\ crashes' = crashes \/ Kill \/ PowerLoss
    /\ left' = left \/ Flush \/ Kill \/ PowerLoss
    /\ undone' = undone \/ PowerLoss
    /\ state' = state \/ Beginning \/ Journaling \/ Flush \/ PowerLoss
<1>1. CASE Beginning
  BY <1>1 DEF Beginning, Plan, Prepare, Bind, Commit, EnableWrites, EnableAgain, Complete,
     Abort, AbortAgain, Retire, files, data, host, bounds
<1>2. CASE Journaling
  BY <1>2 DEF Journaling, Quiesce, SaveCaptured, PrepareTarget, VerifyTarget, SavePrepared,
     Publications, Publish, PublishCustody, SaveCommitted, SaveAborted, files, data, host, bounds
<1>3. CASE Gating
  BY <1>3 DEF Gating, InstallPolicy, Inhibit, ReleasePolicy, Lift, files, data, host, bounds
<1>4. CASE Beside
  BY <1>4
     DEF Beside, StartUnit, StopUnit, Write, Certify, Expire, GiveUp, files, data, host, bounds
<1>5. CASE Flush \/ Refuse \/ Kill \/ Activate \/ InhibitRetired \/ LiftRetired \/ DaemonReload
           \/ StopUnits
  BY <1>5 DEF Flush, Refuse, Kill, Activate, InhibitRetired, LiftRetired, DaemonReload, StopUnits,
     files, data, host, bounds
<1>6. CASE Capture \/ Import \/ PublishAnchors
  BY <1>6 DEF Capture, Import, PublishAnchors, files, data, host, bounds
<1>7. CASE (\E u \in Barriered : InstallDropIn(u)) \/ (\E ok \in BOOLEAN : WorkerEnds(ok))
  BY <1>7 DEF InstallDropIn, WorkerEnds, files, data, host, bounds
<1>8. CASE PowerLoss \/ RollBack
  BY <1>8 DEF PowerLoss, RollBack, Boot, files
<1>9. CASE UNCHANGED vars
  BY <1>9 DEF vars
<1> QED BY <1>1, <1>2, <1>3, <1>4, <1>5, <1>6, <1>7, <1>8, <1>9, Kinds

\* Every action moves the journal in one of these ways.
LEMMA StateMoves == Typed /\ Phased /\ Numbered /\ [Next]_vars => StateStep
<1>1. SUFFICES ASSUME Typed, Phased, Numbered, [Next]_vars PROVE StateStep
  OBVIOUS
<1> USE TransitionAssumption
<1>2. /\ state.now \in StateImages /\ state.now.journal \in Journals
      /\ Phase \in Phases
  BY <1>1 DEF Typed, Directory, StateImages, Journals, Phase, Journal
<1>3. ASSUME NEW image \in StateImages, state' = Changed(state, image)
      PROVE  Moves(image.journal.phase, image.journal.run, image.identity, image.custody)
  <2>1. state \in Directory(StateImages) /\ state.now \in state.may
    BY <1>1 DEF Typed
  <2>2. state' \in Directory(StateImages) /\ state'.now \in state'.may
    BY <1>3, <2>1, DirectoryOps
  <2>3. state'.now = image /\ state'.may = state.may \cup {state'.now}
    BY <1>3 DEF Changed
  <2> QED BY <2>2, <2>3 DEF Moves
<1>4. ASSUME NEW candidate \in BOOLEAN, Plan(candidate) PROVE StateStep
  <2> DEFINE planned == [phase |-> "planned", run |-> runs + 1, bound |-> candidate]
             image == [state.now EXCEPT !.journal = planned]
  <2>1. planned \in Journals
    BY <1>1, <1>4 DEF Plan, Journals, Phases, Preparable, Runs, Typed
  <2>2. image \in StateImages /\ image.journal = planned
        /\ image.identity = state.now.identity /\ image.custody = state.now.custody
    BY <1>2, <2>1 DEF StateImages
  <2>3. state' = Changed(state, image)
    BY <1>4 DEF Plan
  <2>4. planned.phase = "planned" /\ planned.run = runs + 1
    OBVIOUS
  <2> HIDE DEF planned, image
  <2>5. Moves("planned", runs + 1, state.now.identity, state.now.custody)
    BY <1>3, <2>2, <2>3, <2>4
  <2> QED BY <1>4, <2>5 DEF StateStep
<1>5. ASSUME Bind PROVE StateStep
  <2> DEFINE image == [state.now EXCEPT !.journal.bound = TRUE]
  <2>1. image \in StateImages /\ image.journal.phase = Phase /\ image.journal.run = Journal.run
        /\ image.identity = state.now.identity /\ image.custody = state.now.custody
    BY <1>2 DEF StateImages, Journals, Phase, Journal
  <2>2. state' = Changed(state, image)
    BY <1>5 DEF Bind
  <2>3. Moves(Phase, Journal.run, state.now.identity, state.now.custody)
    BY <1>3, <2>1, <2>2
  <2> QED BY <1>5, <2>3 DEF StateStep
<1>6. ASSUME Retire PROVE StateStep
  <2> DEFINE image == [state.now EXCEPT !.journal = NoJournal]
  <2>1. NoJournal \in Journals /\ NoJournal.phase = "none" /\ NoJournal.run = NoRun
    BY DEF NoJournal, Journals, Phases
  <2>2. image \in StateImages /\ image.journal = NoJournal
        /\ image.identity = state.now.identity /\ image.custody = state.now.custody
    BY <1>2, <2>1 DEF StateImages
  <2>3. state' = Changed(state, image)
    BY <1>6 DEF Retire
  <2>4. Moves("none", NoRun, state.now.identity, state.now.custody)
    BY <1>3, <2>1, <2>2, <2>3
  <2> QED BY <1>6, <2>4 DEF StateStep
<1>7. ASSUME NEW step, NEW side \in Sides, NEW next, Publish(step, side, next)
      PROVE  Moves(Phase, Journal.run, side, state.now.custody)
  <2> DEFINE image == [state.now EXCEPT !.identity = side]
  <2>1. image \in StateImages /\ image.journal = Journal
        /\ image.identity = side /\ image.custody = state.now.custody
    BY <1>2 DEF StateImages, Journal
  <2>2. state' = Changed(state, image)
    BY <1>7 DEF Publish
  <2> QED BY <1>3, <2>1, <2>2 DEF Phase
<1>8. ASSUME NEW step, NEW side \in Sides, NEW next, PublishCustody(step, side, next)
      PROVE  Moves(Phase, Journal.run, state.now.identity, side)
  <2> DEFINE image == [state.now EXCEPT !.custody = side]
  <2>1. image \in StateImages /\ image.journal = Journal
        /\ image.identity = state.now.identity /\ image.custody = side
    BY <1>2 DEF StateImages, Journal
  <2>2. state' = Changed(state, image)
    BY <1>8 DEF PublishCustody
  <2> QED BY <1>3, <2>1, <2>2 DEF Phase
<1>9. ASSUME Publications PROVE StateStep
  BY <1>7, <1>8, <1>9 DEF Publications, StateStep, Sides
<1>10. {"quiescing", "quiesced", "captured", "importing", "imported", "prepared", "committing",
        "committed", "write-enabled", "complete", "aborting", "aborted"} \subseteq Phases
       /\ Preparable \subseteq Phases
  BY DEF Phases, Preparable, Committable
<1>11. CASE Prepare
  <2>1. Save(IF Phase = "planned" THEN "quiescing" ELSE Phase)
    BY <1>11 DEF Prepare
  <2>2. (IF Phase = "planned" THEN "quiescing" ELSE Phase) \in Phases
    BY <1>2, <1>10
  <2> QED BY <1>1, <1>11, <2>1, <2>2, Saved DEF StateStep
<1>12. ASSUME Quiesce \/ SaveCaptured \/ PrepareTarget \/ VerifyTarget \/ SavePrepared
       PROVE  StateStep
  BY <1>1, <1>10, <1>12, Saved
     DEF Quiesce, SaveCaptured, PrepareTarget, VerifyTarget, SavePrepared, StateStep
<1>13. ASSUME Commit \/ SaveCommitted \/ EnableWrites PROVE StateStep
  BY <1>1, <1>10, <1>13, Saved DEF Commit, SaveCommitted, EnableWrites, StateStep
<1>14. ASSUME Complete \/ Abort \/ SaveAborted PROVE StateStep
  BY <1>1, <1>10, <1>14, Saved DEF Complete, Abort, SaveAborted, StateStep
<1>15. ASSUME Flush \/ PowerLoss PROVE StateStep
  BY <1>15 DEF Flush, PowerLoss, StateStep
<1>16. ASSUME Refuse \/ InstallPolicy \/ (\E u \in Barriered : InstallDropIn(u))
              \/ Inhibit \/ InhibitRetired \/ DaemonReload \/ StopUnits \/ Capture \/ Import
       PROVE  StateStep
  BY <1>16 DEF Refuse, InstallPolicy, InstallDropIn, Inhibit, InhibitRetired, DaemonReload,
     StopUnits, Capture, Import, StateStep, files
<1>17. ASSUME PublishAnchors \/ (\E step, policy, next : ReleasePolicy(step, policy, next))
              \/ (\E step, next : Lift(step, next)) \/ LiftRetired
       PROVE  StateStep
  BY <1>17 DEF PublishAnchors, ReleasePolicy, Lift, LiftRetired, StateStep, files
<1>18. ASSUME Activate \/ EnableAgain \/ AbortAgain \/ (\E ok \in BOOLEAN : WorkerEnds(ok))
              \/ (\E u \in Barriered : StartUnit(u) \/ StopUnit(u) \/ Write(u))
       PROVE  StateStep
  BY <1>18 DEF Activate, EnableAgain, AbortAgain, WorkerEnds, StartUnit, StopUnit, Write,
     StateStep, files
<1>19. ASSUME Certify \/ Expire \/ GiveUp \/ RollBack \/ Kill \/ UNCHANGED vars PROVE StateStep
  BY <1>19 DEF Certify, Expire, GiveUp, RollBack, Kill, vars, StateStep, files
<1>20. Proceed => StateStep
  BY <1>9, <1>12, <1>13, <1>14, <1>15, <1>16, <1>17 DEF Proceed, Publications, Barriered
<1> QED BY <1>1, <1>4, <1>5, <1>6, <1>11, <1>13, <1>14, <1>15, <1>18, <1>19, <1>20
       DEF Next, Barriered

\* The journal keeps its type.
LEMMA TypedState ==
  Typed /\ StateStep => state' \in Directory(StateImages) /\ state'.now \in state'.may
<1>1. SUFFICES ASSUME Typed, StateStep
               PROVE  state' \in Directory(StateImages) /\ state'.now \in state'.may
  OBVIOUS
<1>2. state \in Directory(StateImages) /\ state.now \in state.may
  BY <1>1 DEF Typed
<1>3. /\ Synced(state) \in Directory(StateImages) /\ Synced(state).now \in Synced(state).may
      /\ \A d \in AfterLoss(state) : d \in Directory(StateImages) /\ d.now \in d.may
  BY <1>2, DirectoryOps
<1> QED BY <1>1, <1>2, <1>3 DEF StateStep, Moves

\* The barrier's directories keep their types.
BarrierTyped ==
  /\ gate \in Directory(GateImages) /\ gate.now \in gate.may
  /\ retired \in Directory(BOOLEAN) /\ retired.now \in retired.may
  /\ dropIn \in [Barriered -> Directory(BOOLEAN)]
  /\ \A u \in Barriered : dropIn[u].now \in dropIn[u].may

\* The gates and the drop-ins keep their types.
LEMMA TypedBarrier == Typed /\ [Next]_vars => BarrierTyped'
<1>1. SUFFICES ASSUME Typed, [Next]_vars PROVE BarrierTyped'
  OBVIOUS
<1>2. /\ gate \in Directory(GateImages) /\ gate.now \in gate.may
      /\ retired \in Directory(BOOLEAN) /\ retired.now \in retired.may
      /\ dropIn \in [Barriered -> Directory(BOOLEAN)]
      /\ \A u \in Barriered : dropIn[u] \in Directory(BOOLEAN) /\ dropIn[u].now \in dropIn[u].may
  BY <1>1 DEF Typed
<1>3. gate.now \in GateImages
  BY <1>2 DEF Directory
<1>4. ASSUME NEW g \in GateImages, gate' = Changed(gate, g)
      PROVE  gate' \in Directory(GateImages) /\ gate'.now \in gate'.may
  BY <1>2, <1>4, DirectoryOps
<1>5. CASE UNCHANGED <<gate, retired, dropIn>>
  BY <1>2, <1>5 DEF BarrierTyped
<1>6. CASE Flush
  <2>1. /\ Synced(gate) \in Directory(GateImages) /\ Synced(gate).now \in Synced(gate).may
        /\ Synced(retired) \in Directory(BOOLEAN) /\ Synced(retired).now \in Synced(retired).may
        /\ \A u \in Barriered : /\ Synced(dropIn[u]) \in Directory(BOOLEAN)
                                /\ Synced(dropIn[u]).now \in Synced(dropIn[u]).may
    BY <1>2, DirectoryOps
  <2>2. DOMAIN dropIn = Barriered
    BY <1>2
  <2>3. dropIn' = [u \in Barriered |-> IF op.dirty = u THEN Synced(dropIn[u]) ELSE dropIn[u]]
    BY <1>6, <2>2 DEF Flush
  <2>4. dropIn' \in [Barriered -> Directory(BOOLEAN)]
        /\ \A u \in Barriered : dropIn'[u].now \in dropIn'[u].may
    BY <1>2, <2>1, <2>3
  <2>5. /\ gate' \in {gate, Synced(gate)} /\ retired' \in {retired, Synced(retired)}
    BY <1>6 DEF Flush
  <2> QED BY <1>2, <2>1, <2>4, <2>5 DEF BarrierTyped
<1>7. CASE PowerLoss
  <2>1. /\ \A d \in AfterLoss(gate) : d \in Directory(GateImages) /\ d.now \in d.may
        /\ \A d \in AfterLoss(retired) : d \in Directory(BOOLEAN) /\ d.now \in d.may
    BY <1>2, DirectoryOps
  <2>2. gate' \in AfterLoss(gate) /\ retired' \in AfterLoss(retired)
        /\ dropIn' \in [Barriered -> {Settled(TRUE), Settled(FALSE)}]
    BY <1>7 DEF PowerLoss, Barriered
  <2>3. \A d \in {Settled(TRUE), Settled(FALSE)} : d \in Directory(BOOLEAN) /\ d.now \in d.may
    <3>1. \A b \in BOOLEAN : Settled(b) \in Directory(BOOLEAN) /\ Settled(b).now \in Settled(b).may
      BY DEF Settled, Directory
    <3> QED BY <3>1
  <2> QED BY <2>1, <2>2, <2>3 DEF BarrierTyped
<1>8. CASE \/ InstallPolicy
           \/ Inhibit
           \/ \E step, next : \E policy \in Sides : ReleasePolicy(step, policy, next)
           \/ \E step, next : Lift(step, next)
  <2>1. /\ [gate.now EXCEPT !.policy = "source"] \in GateImages
        /\ [gate.now EXCEPT !.marker = TRUE] \in GateImages
        /\ [gate.now EXCEPT !.marker = FALSE] \in GateImages
        /\ \A p \in Sides : [gate.now EXCEPT !.policy = p] \in GateImages
    BY <1>3 DEF GateImages, Policies, Sides
  <2>2. \/ gate' = gate
        \/ \E g \in GateImages : gate' = Changed(gate, g)
    BY <1>8, <2>1 DEF InstallPolicy, Inhibit, ReleasePolicy, Lift
  <2>3. UNCHANGED <<retired, dropIn>>
    BY <1>8 DEF InstallPolicy, Inhibit, ReleasePolicy, Lift
  <2> QED BY <1>2, <1>4, <2>2, <2>3 DEF BarrierTyped
<1>9. CASE InhibitRetired \/ LiftRetired
  <2>1. \/ retired' = retired
        \/ \E r \in BOOLEAN : retired' = Changed(retired, r)
    BY <1>9 DEF InhibitRetired, LiftRetired
  <2>2. UNCHANGED <<gate, dropIn>>
    BY <1>9 DEF InhibitRetired, LiftRetired
  <2>3. \A r \in BOOLEAN : /\ Changed(retired, r) \in Directory(BOOLEAN)
                           /\ Changed(retired, r).now \in Changed(retired, r).may
    BY <1>2, DirectoryOps
  <2> QED BY <1>2, <2>1, <2>2, <2>3 DEF BarrierTyped
<1>10. ASSUME NEW u \in Barriered, InstallDropIn(u) PROVE BarrierTyped'
  <2>1. /\ Changed(dropIn[u], TRUE) \in Directory(BOOLEAN)
        /\ Changed(dropIn[u], TRUE).now \in Changed(dropIn[u], TRUE).may
    BY <1>2, DirectoryOps
  <2>2. dropIn' = [dropIn EXCEPT ![u] = Changed(@, TRUE)] /\ UNCHANGED <<gate, retired>>
    BY <1>10 DEF InstallDropIn
  <2> QED BY <1>2, <2>1, <2>2 DEF BarrierTyped
<1>11. \/ Gating \/ InhibitRetired \/ LiftRetired \/ Flush \/ PowerLoss
       \/ (\E u \in Barriered : InstallDropIn(u))
       \/ UNCHANGED <<gate, retired, dropIn>>
  BY <1>1, Frame
<1>12. "source" \in Sides /\ "target" \in Sides
  BY DEF Sides
<1> QED BY <1>5, <1>6, <1>7, <1>8, <1>9, <1>10, <1>11, <1>12 DEF Gating

\* A command that waits for its worker is at the worker's step.
LEMMA Waiting ==
  Typed /\ Commands /\ worker # NoWorker /\ op # Idle =>
    op.pc = IF worker.task = "capture" THEN "capturing" ELSE "importing"
BY DEF Commands, Phased, Working

\* The command keeps its type.
LEMMA TypedOp == Typed /\ Commands /\ [Next]_vars => op' \in Ops
<1>1. SUFFICES ASSUME Typed, Commands, [Next]_vars PROVE op' \in Ops
  OBVIOUS
<1>2. op \in Ops /\ Idle \in Ops
  BY <1>1, OpMoves DEF Typed
<1>3. ASSUME NEW step \in Steps, NEW dirty \in {"none", "state", "gate", "retired"} \cup Barriered
      PROVE  /\ Go(step, dirty) => op' \in Ops
             /\ \A lease \in {"none", "shared", "exclusive"} :
                  Begin(step, dirty, lease) => op' \in Ops
  BY <1>1, OpMoves
<1>4. ASSUME op' = op \/ op' = Idle PROVE op' \in Ops
  BY <1>2, <1>4
<1>5. CASE \/ \E candidate \in BOOLEAN : Plan(candidate)
           \/ Prepare \/ Bind \/ Commit \/ EnableWrites \/ EnableAgain \/ Complete
           \/ Abort \/ AbortAgain \/ Retire
  BY <1>3, <1>5 DEF Plan, Prepare, Bind, Commit, EnableWrites, EnableAgain, Complete,
     Abort, AbortAgain, Retire, Steps
<1>6. CASE Flush
  BY <1>2, <1>6 DEF Flush, Ops
<1>7. CASE \/ InstallPolicy \/ (\E u \in Barriered : InstallDropIn(u)) \/ Inhibit
           \/ InhibitRetired \/ DaemonReload \/ StopUnits \/ Quiesce
           \/ Capture \/ SaveCaptured \/ PrepareTarget \/ Import \/ VerifyTarget \/ SavePrepared
  BY <1>3, <1>7 DEF InstallPolicy, InstallDropIn, Inhibit, InhibitRetired, DaemonReload,
     StopUnits, Quiesce, Capture, SaveCaptured, PrepareTarget, Import, VerifyTarget, SavePrepared,
     Steps
<1>8. CASE \/ PublishAnchors \/ Publications \/ SaveCommitted \/ SaveAborted
           \/ ReleasePolicy("policy_new", "target", "lift")
           \/ ReleasePolicy("policy_old", "source", "lift_old")
  BY <1>3, <1>8 DEF PublishAnchors, Publications, Publish, PublishCustody, SaveCommitted,
     SaveAborted, ReleasePolicy, Steps
<1>9. ASSUME NEW next \in Steps, Lift("lift", next) \/ Lift("lift_old", next) PROVE op' \in Ops
  <2>1. [op EXCEPT !.pc = next] \in Ops
    BY <1>2 DEF Ops
  <2> QED BY <1>2, <1>3, <1>9, <2>1 DEF Lift
<1>10. CASE LiftRetired
  <2>1. op' = Idle \/ Begin("idle", "retired", op.lease)
    BY <1>10 DEF LiftRetired
  <2>2. op.lease \in {"none", "shared", "exclusive"} /\ "idle" \in Steps
    BY <1>2 DEF Ops, Steps
  <2> QED BY <1>2, <1>3, <2>1, <2>2
<1>11. CASE \E ok \in BOOLEAN : WorkerEnds(ok)
  <2>1. \A p \in Steps : [op EXCEPT !.pc = p] \in Ops
    BY <1>2 DEF Ops
  <2>2. "captured" \in Steps /\ "verify" \in Steps
    BY DEF Steps
  <2> QED BY <1>2, <1>11, <2>1, <2>2 DEF WorkerEnds
<1>12. CASE \/ Activate \/ Refuse \/ Certify \/ Expire \/ GiveUp \/ RollBack \/ Kill \/ PowerLoss
            \/ (\E u \in Barriered : StartUnit(u) \/ StopUnit(u) \/ Write(u)) \/ UNCHANGED vars
  BY <1>4, <1>12 DEF Activate, Refuse, Certify, Expire, GiveUp, RollBack, Kill, PowerLoss, Boot,
     StartUnit, StopUnit, Write, vars
<1>13. {"idle", "lift_retired"} \subseteq Steps
  BY DEF Steps
<1>14. Proceed => op' \in Ops
  BY <1>6, <1>7, <1>8, <1>9, <1>10, <1>12, <1>13 DEF Proceed, Publications, Barriered
<1> QED BY <1>1, <1>5, <1>11, <1>12, <1>14 DEF Next, Barriered

\* The backends, their copies and the host keep their types.
DataTyped ==
  /\ anchored \in BOOLEAN
  /\ content \in [Sides -> SUBSET (0..MaxWrites)] /\ content["source"] \subseteq 1..MaxWrites
  /\ acked \subseteq 1..MaxWrites
  /\ backup \in [Runs -> Whole]
  /\ receipt \in [run : Runs \cup {NoRun}, fresh : BOOLEAN]
HostTyped ==
  /\ loaded \subseteq Barriered /\ up \subseteq Barriered
  /\ gen \in {"old", "new"} /\ installed \subseteq {"old", "new"}
  /\ worker \in Workers
  /\ runs \in 0..MaxRuns /\ gaveUp \in BOOLEAN /\ crashes \in 0..MaxCrashes
  /\ left \subseteq {"state", "gate", "retired"} \cup Barriered /\ undone \in BOOLEAN

\* The number a write gets is within its bound.
LEMMA NextWrite ==
  ASSUME Typed, Cardinality(acked) < MaxWrites
  PROVE  Cardinality(acked) + 1 \in 1..MaxWrites
<1> USE TransitionAssumption
<1>1. IsFiniteSet(1..MaxWrites)
  BY FS_Interval
<1>2. IsFiniteSet(acked)
  BY <1>1, FS_Subset DEF Typed
<1> QED BY <1>2, FS_CardinalityType

\* A journal that has a phase has a run.
LEMMA RunKnown == Typed /\ Numbered /\ Phase # "none" => Journal.run \in Runs
BY TransitionAssumption DEF Typed, Numbered, Phase, Journal, Runs, NoRun

\* A write, a worker and a receipt stay within their bounds.
LEMMA TypedData == Typed /\ Commands /\ [Next]_vars => DataTyped'
<1>1. SUFFICES ASSUME Typed, Commands, [Next]_vars PROVE DataTyped'
  OBVIOUS
<1>2. DataTyped
  BY <1>1 DEF Typed, DataTyped
<1>3. Sides = {"source", "target"} /\ Junk \subseteq 0..MaxWrites
      /\ SUBSET (1..MaxWrites) \subseteq Whole /\ Junk \in Whole
      /\ \A c \in Whole : c \subseteq 0..MaxWrites
  BY TransitionAssumption DEF Sides, Junk, Whole
<1>4. CASE \E u \in Barriered : Write(u)
  <2>1. PICK u \in Barriered : Write(u)
    BY <1>4
  <2>2. Side(u) \in Sides
    BY <1>3 DEF Side
  <2> DEFINE w == Cardinality(acked) + 1
  <2>3. w \in 1..MaxWrites /\ w \in 0..MaxWrites
    BY <1>1, <2>1, NextWrite, TransitionAssumption DEF Write
  <2>4. /\ acked' = acked \cup {w}
        /\ content' = [content EXCEPT ![Side(u)] = @ \cup {w}]
        /\ UNCHANGED <<anchored, backup, receipt>>
    BY <2>1 DEF Write
  <2> HIDE DEF w
  <2>5. content' \in [Sides -> SUBSET (0..MaxWrites)]
    BY <1>2, <2>2, <2>3, <2>4 DEF DataTyped
  <2>6. content'["source"] \subseteq 1..MaxWrites
    BY <1>2, <1>3, <2>2, <2>3, <2>4 DEF DataTyped
  <2> QED BY <1>2, <2>3, <2>4, <2>5, <2>6 DEF DataTyped
<1>5. ASSUME NEW ok \in BOOLEAN, WorkerEnds(ok) PROVE DataTyped'
  <2>1. worker.run \in Runs /\ worker.run = Journal.run
    BY <1>1, <1>5, RunKnown DEF WorkerEnds, Commands, Working
  <2>2. content["source"] \in Whole /\ backup[worker.run] \in Whole
    BY <1>2, <1>3, <2>1 DEF DataTyped
  <2>3. /\ backup' \in {backup, [backup EXCEPT ![worker.run] = content["source"]]}
        /\ content' \in {content, [content EXCEPT !["target"] = backup[worker.run]],
                         [content EXCEPT !["target"] = Junk]}
        /\ UNCHANGED <<anchored, acked, receipt>>
    BY <1>5 DEF WorkerEnds
  <2>4. backup' \in [Runs -> Whole]
    BY <1>2, <2>1, <2>2, <2>3 DEF DataTyped
  <2>5. content' \in [Sides -> SUBSET (0..MaxWrites)] /\ content'["source"] = content["source"]
    BY <1>2, <1>3, <2>2, <2>3 DEF DataTyped
  <2> QED BY <1>2, <2>3, <2>4, <2>5 DEF DataTyped
<1>6. CASE Certify
  <2>1. Phase # "none" /\ receipt' = [run |-> Journal.run, fresh |-> TRUE]
        /\ UNCHANGED <<anchored, content, acked, backup>>
    BY <1>6 DEF Certify
  <2>2. Journal.run \in Runs
    BY <1>1, <2>1, RunKnown DEF Commands
  <2> QED BY <1>2, <2>1, <2>2 DEF DataTyped
<1>7. CASE Expire
  BY <1>2, <1>7 DEF Expire, DataTyped
<1>8. CASE RollBack \/ PowerLoss
  <2>1. /\ content' \in {content, [content EXCEPT !["target"] = Junk]}
        /\ UNCHANGED <<anchored, acked, backup, receipt>>
    BY <1>8 DEF RollBack, PowerLoss, Boot
  <2>2. content' \in [Sides -> SUBSET (0..MaxWrites)] /\ content'["source"] = content["source"]
    BY <1>2, <1>3, <2>1 DEF DataTyped
  <2> QED BY <1>2, <2>1, <2>2 DEF DataTyped
<1>9. CASE PublishAnchors
  BY <1>2, <1>9 DEF PublishAnchors, DataTyped
<1>10. CASE UNCHANGED <<anchored, content, acked, backup, receipt>>
  BY <1>2, <1>10 DEF DataTyped
<1> QED BY <1>1, <1>4, <1>5, <1>6, <1>7, <1>8, <1>9, <1>10, Frame

\* The host, the worker and the counters keep their types.
LEMMA TypedHost == Typed /\ Commands /\ [Next]_vars => HostTyped'
<1>1. SUFFICES ASSUME Typed, Commands, [Next]_vars PROVE HostTyped'
  OBVIOUS
<1>2. HostTyped
  BY <1>1 DEF Typed, HostTyped
<1>3. CASE UNCHANGED <<loaded, up, gen, installed, worker, runs, gaveUp, left, undone, crashes>>
  BY <1>2, <1>3 DEF HostTyped
<1>4. ASSUME NEW candidate \in BOOLEAN, Plan(candidate) PROVE HostTyped'
  BY <1>2, <1>4, TransitionAssumption DEF Plan, HostTyped, host
<1>5. CASE Activate
  BY <1>2, <1>5 DEF Activate, HostTyped, bounds
<1>6. CASE Capture \/ Import
  <2>1. Journal.run \in Runs
    BY <1>1, <1>6, RunKnown DEF Capture, Import, At, Commands, Phased, Belongs, Capturing
  <2>2. worker' \in Workers
    BY <1>2, <1>6, <2>1 DEF Capture, Import, Workers, HostTyped
  <2> QED BY <1>2, <1>6, <2>2 DEF Capture, Import, HostTyped, host, bounds
<1>7. CASE \E ok \in BOOLEAN : WorkerEnds(ok)
  BY <1>2, <1>7 DEF WorkerEnds, HostTyped, host, bounds, NoWorker, Workers
<1>8. CASE DaemonReload \/ StopUnits
  BY <1>2, <1>8 DEF DaemonReload, StopUnits, HostTyped, bounds, Barriered
<1>9. CASE \E u \in Barriered : StartUnit(u) \/ StopUnit(u)
  BY <1>2, <1>9 DEF StartUnit, StopUnit, HostTyped, bounds
<1>10. CASE GiveUp \/ Kill
  <2>1. /\ UNCHANGED <<loaded, up, gen, installed, worker, runs>>
        /\ gaveUp' \in {gaveUp, TRUE} /\ crashes' \in {crashes, crashes + 1}
        /\ crashes' # crashes => crashes < MaxCrashes
        /\ left' \subseteq left \cup ({op.dirty} \ {"none"}) /\ undone' = undone
    BY <1>10 DEF GiveUp, Kill, host
  <2>2. crashes' \in 0..MaxCrashes
    BY <1>2, <2>1, TransitionAssumption DEF HostTyped
  <2>3. op.dirty \in {"none", "state", "gate", "retired"} \cup Barriered
    BY <1>1 DEF Typed, Ops
  <2> QED BY <1>2, <2>1, <2>2, <2>3 DEF HostTyped
<1>11. CASE RollBack
  BY <1>2, <1>11 DEF RollBack, Boot, HostTyped, Barriered, NoWorker, Workers
<1>12. CASE PowerLoss
  <2>1. PICK g \in installed : Boot(g)
    BY <1>12 DEF PowerLoss
  <2>2. left' = {} /\ undone' \in BOOLEAN
    BY <1>12 DEF PowerLoss
  <2> QED BY <1>2, <1>12, <2>1, <2>2, TransitionAssumption
          DEF PowerLoss, Boot, HostTyped, Barriered, NoWorker, Workers
<1>13. CASE Flush
  BY <1>2, <1>13 DEF Flush, HostTyped, host
<1> QED BY <1>1, <1>3, <1>4, <1>5, <1>6, <1>7, <1>8, <1>9, <1>10, <1>11, <1>12, <1>13, Frame

\* Every step keeps the types.
LEMMA TypedNext == Typed /\ Commands /\ [Next]_vars => Typed'
<1>1. SUFFICES ASSUME Typed, Commands, [Next]_vars PROVE Typed'
  OBVIOUS
<1>2. state' \in Directory(StateImages) /\ state'.now \in state'.may
  BY <1>1, StateMoves, TypedState DEF Commands
<1>3. BarrierTyped'
  BY <1>1, TypedBarrier
<1>4. op' \in Ops
  BY <1>1, TypedOp
<1>5. DataTyped' /\ HostTyped'
  BY <1>1, TypedData, TypedHost
<1> QED BY <1>2, <1>3, <1>4, <1>5 DEF Typed, BarrierTyped, DataTyped, HostTyped

-----------------------------------------------------------------------------
(* The steps of a command and the phase of its journal.                     *)

\* A command finds the journal in the phase its step belongs to: nothing else
\* saves one while it runs.
LEMMA PhasedNext == Typed /\ Commands /\ [Next]_vars => Phased'
<1>1. SUFFICES ASSUME Typed, Commands, [Next]_vars PROVE Phased'
  OBVIOUS
<1>2. /\ op \in Ops /\ state.now \in StateImages /\ Phase \in Phases
      /\ Phased /\ Working
  BY <1>1 DEF Typed, Commands, Directory, StateImages, Journals, Phase, Journal
<1>3. /\ \A step \in Steps, dirty \in {"none", "state", "gate", "retired"} \cup Barriered :
           /\ Go(step, dirty) => op'.pc = step /\ op'.dirty = dirty
           /\ \A lease \in {"none", "shared", "exclusive"} :
                Begin(step, dirty, lease) => op'.pc = step /\ op'.dirty = dirty
  BY <1>1, OpMoves
<1>4. \A phase \in Phases : Save(phase) => Phase' = phase
  BY <1>1, Saved DEF Moves, Phase, Journal
<1>5. state' = state => Phase' = Phase
  BY DEF Phase, Journal
<1>6. Belongs("idle", Phase') /\ Idle.pc = "idle"
  BY DEF Belongs, Installing, Capturing, Publishing, Releasing, Restoring, Returning, Idle
<1>7. ASSUME op' = Idle PROVE Phased'
  BY <1>6, <1>7 DEF Phased
<1>8. ASSUME op'.pc = "idle", op'.dirty # "none" PROVE Phased'
  BY <1>6, <1>8 DEF Phased
<1>9. ASSUME op' = op, Phase' = Phase PROVE Phased'
  BY <1>2, <1>9 DEF Phased
<1>10. ASSUME op'.pc # "idle", Belongs(op'.pc, Phase') PROVE Phased'
  BY <1>10 DEF Phased
<1>11. {"quiescing", "quiesced", "captured", "importing", "imported", "prepared", "committing",
        "committed", "write-enabled", "complete", "aborting", "aborted"} \subseteq Phases
       /\ Preparable \subseteq Phases
  BY DEF Phases, Preparable, Committable
<1>12. CASE (\E candidate \in BOOLEAN : Plan(candidate)) \/ Bind \/ Complete \/ Retire
  <2>1. \A lease \in {"shared", "exclusive"} :
          Begin("idle", "state", lease) => op'.pc = "idle" /\ op'.dirty = "state"
    BY <1>3 DEF Steps
  <2> QED BY <1>8, <1>12, <2>1 DEF Plan, Bind, Complete, Retire
<1>13. CASE Prepare
  <2>1. /\ Phase' \in Preparable \ {"planned"} /\ op'.pc = "policy"
    BY <1>2, <1>3, <1>4, <1>11, <1>13 DEF Prepare, Steps, Preparable
  <2>2. Belongs("policy", Phase')
    BY <2>1 DEF Belongs, Installing, Capturing, Publishing, Releasing, Restoring, Returning
  <2> QED BY <1>10, <2>1, <2>2
<1>14. CASE Commit
  <2>1. /\ Phase' = "committing" /\ op'.pc = "anchors"
    BY <1>3, <1>4, <1>11, <1>14 DEF Commit, Steps
  <2>2. Belongs("anchors", "committing")
    BY DEF Belongs, Installing, Capturing, Publishing, Releasing, Restoring, Returning
  <2> QED BY <1>10, <2>1, <2>2
<1>15. CASE EnableWrites \/ EnableAgain
  <2>1. /\ Phase' = "write-enabled" /\ op'.pc = "policy_new"
    BY <1>3, <1>4, <1>5, <1>11, <1>15 DEF EnableWrites, EnableAgain, Steps, files
  <2>2. Belongs("policy_new", "write-enabled")
    BY DEF Belongs, Installing, Capturing, Publishing, Releasing, Restoring, Returning
  <2> QED BY <1>10, <2>1, <2>2
<1>16. CASE Abort
  <2>1. \/ Phase' = "aborting" /\ op'.pc = "abort_identity"
        \/ Phase' \in Preparable /\ op'.pc = "aborted"
    BY <1>2, <1>3, <1>4, <1>5, <1>11, <1>16 DEF Abort, Steps, Phases, Committable, Preparable
  <2>2. /\ Belongs("abort_identity", "aborting")
        /\ \A p \in Preparable : Belongs("aborted", p)
    BY DEF Belongs, Installing, Capturing, Publishing, Releasing, Restoring, Returning
  <2> QED BY <1>10, <2>1, <2>2
<1>17. CASE AbortAgain
  <2>1. Phase' = "aborted" /\ op'.pc = "policy_old"
    BY <1>3, <1>5, <1>17 DEF AbortAgain, Steps, files
  <2>2. Belongs("policy_old", "aborted")
    BY DEF Belongs, Installing, Capturing, Publishing, Releasing, Restoring, Returning
  <2> QED BY <1>10, <2>1, <2>2
<1>18. CASE Flush
  <2>1. Phase' = Phase
    BY <1>18 DEF Flush, Synced, Settled, Phase, Journal
  <2>2. op' = Idle \/ (op'.pc = op.pc /\ op.pc # "idle")
    BY <1>2, <1>18 DEF Flush, Ops
  <2> QED BY <1>2, <1>7, <1>10, <2>1, <2>2 DEF Phased
<1>19. ASSUME NEW pc \in Steps, NEW next \in Steps,
              NEW dirty \in {"none", "state", "gate", "retired"} \cup Barriered,
              op.pc = pc, Go(next, dirty), Phase' = Phase, next # "idle",
              \A p \in Phases : Belongs(pc, p) => Belongs(next, p)
       PROVE  Phased'
  BY <1>2, <1>3, <1>10, <1>19 DEF Phased
<1>20. /\ \A pc, next \in Installing, p \in Phases : Belongs(pc, p) => Belongs(next, p)
       /\ \A p \in Phases : Belongs("lock", p) /\ p \notin {"quiescing", "quiesced"}
             => Belongs("target", p)
       /\ Belongs("capture", "quiesced")
       /\ \A pc, next \in Capturing, p \in Phases : Belongs(pc, p) => Belongs(next, p)
       /\ Belongs("target", "captured")
       /\ \A p \in {"imported", "prepared"} : Belongs("verify", p) /\ Belongs("prepared", p)
       /\ Belongs("import", "importing") /\ Belongs("importing", "importing")
       /\ Belongs("verify", "importing")
       /\ \A pc, next \in Publishing, p \in Phases : Belongs(pc, p) => Belongs(next, p)
       /\ \A pc, next \in Releasing, p \in Phases : Belongs(pc, p) => Belongs(next, p)
       /\ \A pc, next \in Restoring, p \in Phases : Belongs(pc, p) => Belongs(next, p)
       /\ \A pc, next \in Returning, p \in Phases : Belongs(pc, p) => Belongs(next, p)
       /\ \A p \in Phases : Belongs("abort_custody", p) => Belongs("aborted", p)
       /\ Belongs("policy_old", "aborted")
  BY DEF Belongs, Installing, Capturing, Publishing, Releasing, Restoring, Returning, Preparable,
     Committable
<1>21. CASE \/ InstallPolicy \/ (\E u \in Barriered : InstallDropIn(u)) \/ Inhibit
            \/ InhibitRetired \/ DaemonReload \/ StopUnits
  <2>1. Phase' = Phase
    BY <1>5, <1>21 DEF InstallPolicy, InstallDropIn, Inhibit, InhibitRetired, DaemonReload,
       StopUnits, files
  <2>2. op.pc \in Installing /\ op'.pc \in Installing
    BY <1>3, <1>21 DEF InstallPolicy, InstallDropIn, Inhibit, InhibitRetired, DaemonReload,
       StopUnits, At, Steps, Installing
  <2>3. "idle" \notin Installing
    BY DEF Installing
  <2> QED BY <1>2, <1>10, <1>20, <2>1, <2>2, <2>3 DEF Phased
<1>22. CASE Quiesce
  <2>1. \/ Phase' = "quiesced" /\ op'.pc = "capture"
        \/ Phase' = Phase /\ Phase \notin {"quiescing", "quiesced"} /\ op'.pc = "target"
    BY <1>3, <1>4, <1>5, <1>11, <1>22 DEF Quiesce, Steps
  <2>2. op.pc = "lock"
    BY <1>22 DEF Quiesce, At
  <2> QED BY <1>2, <1>10, <1>20, <2>1, <2>2 DEF Phased
<1>23. CASE Capture
  <2>1. Phase' = Phase /\ op.pc \in Capturing /\ op'.pc \in Capturing
    BY <1>3, <1>5, <1>23 DEF Capture, At, files, Steps, Capturing
  <2>2. "idle" \notin Capturing
    BY DEF Capturing
  <2> QED BY <1>2, <1>10, <1>20, <2>1, <2>2 DEF Phased
<1>24. CASE SaveCaptured
  <2>1. Phase' = "captured" /\ op'.pc = "target"
    BY <1>3, <1>4, <1>11, <1>24 DEF SaveCaptured, Steps
  <2> QED BY <1>10, <1>20, <2>1
<1>25. CASE PrepareTarget
  <2>1. \/ Phase' \in {"imported", "prepared"} /\ op'.pc = "verify"
        \/ Phase' = "importing" /\ op'.pc = "import"
    BY <1>3, <1>4, <1>5, <1>11, <1>25 DEF PrepareTarget, Steps
  <2> QED BY <1>10, <1>20, <2>1
<1>26. CASE Import
  <2>1. Phase' = Phase /\ op.pc = "import" /\ op'.pc = "importing"
    BY <1>3, <1>5, <1>26 DEF Import, At, files, Steps
  <2>2. Phase = "importing"
    BY <1>2, <2>1 DEF Phased, Belongs
  <2> QED BY <1>10, <1>20, <2>1, <2>2
<1>27. CASE VerifyTarget
  <2>1. Phase' \in {"imported", "prepared"} /\ op'.pc = "prepared"
    BY <1>3, <1>4, <1>5, <1>11, <1>27 DEF VerifyTarget, Steps
  <2> QED BY <1>10, <1>20, <2>1
<1>28. CASE SavePrepared \/ SaveCommitted
  BY <1>3, <1>8, <1>28 DEF SavePrepared, SaveCommitted, Steps
<1>29. CASE PublishAnchors
  <2>1. Phase' = Phase /\ op.pc = "anchors" /\ op'.pc = "identity"
    BY <1>3, <1>5, <1>29 DEF PublishAnchors, At, files, Steps
  <2> QED BY <1>2, <1>10, <1>20, <2>1 DEF Phased, Publishing
<1>30. CASE Publications
  <2>1. Phase' = Phase
    BY <1>2, <1>30 DEF Publications, Publish, PublishCustody, Changed, Phase, Journal, StateImages
  <2>2. \/ op.pc \in Publishing /\ op'.pc \in Publishing
        \/ op.pc \in Restoring /\ op'.pc \in Restoring
        \/ op.pc = "abort_custody" /\ op'.pc = "aborted"
    BY <1>3, <1>30 DEF Publications, Publish, PublishCustody, At, Publishing, Restoring, Steps
  <2>3. "idle" \notin Publishing /\ "idle" \notin Restoring
    BY DEF Publishing, Restoring
  <2> QED BY <1>2, <1>10, <1>20, <2>1, <2>2, <2>3 DEF Phased
<1>31. CASE SaveAborted
  <2>1. Phase' = "aborted" /\ op'.pc = "policy_old"
    BY <1>3, <1>4, <1>11, <1>31 DEF SaveAborted, Steps
  <2> QED BY <1>10, <1>20, <2>1
<1>32. CASE \/ ReleasePolicy("policy_new", "target", "lift")
            \/ ReleasePolicy("policy_old", "source", "lift_old")
  <2>1. Phase' = Phase
    BY <1>5, <1>32 DEF ReleasePolicy
  <2>2. \/ op.pc \in Releasing /\ op'.pc \in Releasing
        \/ op.pc \in Returning /\ op'.pc \in Returning
    BY <1>3, <1>32 DEF ReleasePolicy, At, Steps, Releasing, Returning
  <2>3. "idle" \notin Releasing /\ "idle" \notin Returning
    BY DEF Releasing, Returning
  <2> QED BY <1>2, <1>10, <1>20, <2>1, <2>2, <2>3 DEF Phased
<1>33. CASE Lift("lift", "idle")
  BY <1>3, <1>7, <1>8, <1>33 DEF Lift, Steps
<1>34. CASE Lift("lift_old", "lift_retired")
  <2>1. Phase' = Phase
    BY <1>5, <1>34 DEF Lift
  <2>2. op.pc = "lift_old" /\ op'.pc = "lift_retired"
    BY <1>2, <1>3, <1>34 DEF Lift, At, Steps, Ops
  <2> QED BY <1>2, <1>10, <1>20, <2>1, <2>2 DEF Phased, Returning
<1>35. CASE Lift("lift_old", "idle")
  BY <1>3, <1>7, <1>8, <1>35 DEF Lift, Steps
<1>36. CASE LiftRetired
  <2>1. op.lease \in {"none", "shared", "exclusive"}
    BY <1>2 DEF Ops
  <2>2. Begin("idle", "retired", op.lease) => op'.pc = "idle" /\ op'.dirty = "retired"
    BY <1>3, <2>1 DEF Steps
  <2> QED BY <1>7, <1>8, <1>36, <2>2 DEF LiftRetired
<1>37. CASE Refuse \/ Kill \/ PowerLoss \/ RollBack
  BY <1>7, <1>37 DEF Refuse, Kill, PowerLoss, RollBack, Boot
<1>38. CASE \E ok \in BOOLEAN : WorkerEnds(ok)
  <2>1. PICK ok \in BOOLEAN : WorkerEnds(ok)
    BY <1>38
  <2>2. CASE op = Idle \/ ~ok
    BY <1>7, <2>1, <2>2 DEF WorkerEnds
  <2>3. CASE op # Idle /\ ok
    <3>1. Phase' = Phase
      BY <1>5, <2>1 DEF WorkerEnds, files
    <3>2. \/ op.pc = "capturing" /\ op'.pc = "captured"
          \/ op.pc = "importing" /\ op'.pc = "verify"
      BY <1>1, <1>2, <2>1, <2>3, Waiting DEF WorkerEnds, Ops
    <3> QED BY <1>2, <1>10, <1>20, <3>1, <3>2 DEF Phased, Belongs, Capturing
  <2> QED BY <2>2, <2>3
<1>39. CASE \/ Activate \/ (\E u \in Barriered : StartUnit(u) \/ StopUnit(u) \/ Write(u))
            \/ Certify \/ Expire \/ GiveUp \/ UNCHANGED vars
  BY <1>5, <1>9, <1>39
     DEF Activate, StartUnit, StopUnit, Write, Certify, Expire, GiveUp, vars, files
<1>40. Proceed => Phased'
  BY <1>18, <1>21, <1>22, <1>23, <1>24, <1>25, <1>26, <1>27, <1>28, <1>29, <1>30, <1>31, <1>32,
     <1>33, <1>34, <1>35, <1>36, <1>37 DEF Proceed, Publications, Barriered
<1> QED BY <1>1, <1>12, <1>13, <1>14, <1>15, <1>16, <1>17, <1>37, <1>38, <1>39, <1>40
       DEF Next, Barriered


\* Where the publications come from and where they lead.
LEMMA PublicationSteps ==
  ASSUME Typed, Commands, [Next]_vars,
         op'.pc \in {"identity", "custody", "committed", "aborted"}
  PROVE  \/ op'.pc = op.pc /\ state'.now = state.now /\ anchored' = anchored
         \/ PublishAnchors \/ Publications \/ Abort
<1>1. /\ \A step \in Steps, dirty \in {"none", "state", "gate", "retired"} \cup Barriered :
           /\ Go(step, dirty) => op'.pc = step
           /\ \A lease \in {"none", "shared", "exclusive"} :
                Begin(step, dirty, lease) => op'.pc = step
  BY OpMoves
<1>2. op \in Ops /\ Idle.pc = "idle"
  BY DEF Typed, Idle
<1>3. op' # Idle
  BY <1>2
<1>4. ~ \/ \E candidate \in BOOLEAN : Plan(candidate)
        \/ Prepare \/ Bind \/ Commit \/ EnableWrites \/ EnableAgain \/ Complete \/ AbortAgain \/ Retire
  BY <1>1
     DEF Plan, Prepare, Bind, Commit, EnableWrites, EnableAgain, Complete, AbortAgain, Retire,
         Steps
<1>5. ~ \/ InstallPolicy \/ (\E u \in Barriered : InstallDropIn(u)) \/ Inhibit
        \/ InhibitRetired \/ DaemonReload \/ StopUnits \/ Quiesce
        \/ Capture \/ SaveCaptured \/ PrepareTarget \/ Import \/ VerifyTarget \/ SavePrepared
  BY <1>1 DEF InstallPolicy, InstallDropIn, Inhibit, InhibitRetired, DaemonReload,
     StopUnits, Quiesce, Capture, SaveCaptured, PrepareTarget, Import, VerifyTarget, SavePrepared,
     Steps
<1>6. ~ \/ SaveCommitted \/ SaveAborted
        \/ ReleasePolicy("policy_new", "target", "lift")
        \/ ReleasePolicy("policy_old", "source", "lift_old")
  BY <1>1 DEF SaveCommitted, SaveAborted, ReleasePolicy, Steps
<1>7. ASSUME NEW step, NEW next \in {"idle", "lift_retired"} PROVE ~Lift(step, next)
  BY <1>1, <1>2, <1>3, <1>7 DEF Lift, Steps, Ops
<1>8. ~LiftRetired
  <2>1. op.lease \in {"none", "shared", "exclusive"}
    BY <1>2 DEF Ops
  <2>2. Begin("idle", "retired", op.lease) => op'.pc = "idle"
    BY <1>1, <2>1 DEF Steps
  <2> QED BY <1>3, <2>2 DEF LiftRetired
<1>9. ~(Refuse \/ Kill \/ PowerLoss \/ RollBack)
  BY <1>3 DEF Refuse, Kill, PowerLoss, RollBack, Boot
<1>10. ASSUME NEW ok \in BOOLEAN PROVE ~WorkerEnds(ok)
  BY <1>2, <1>3 DEF WorkerEnds, Ops
<1>11. ASSUME Flush PROVE op'.pc = op.pc /\ state'.now = state.now /\ anchored' = anchored
  BY <1>2, <1>3, <1>11 DEF Flush, Ops, Synced, Settled, data
<1>12. ASSUME Activate \/ Beside \/ UNCHANGED vars
       PROVE  op'.pc = op.pc /\ state'.now = state.now /\ anchored' = anchored
  BY <1>12
     DEF Activate, Beside, StartUnit, StopUnit, Write, Certify, Expire, GiveUp, vars, files, data
<1>13. Proceed => Flush \/ PublishAnchors \/ Publications
  BY <1>5, <1>6, <1>7, <1>8, <1>9 DEF Proceed, Publications, Barriered
<1> QED BY <1>4, <1>9, <1>10, <1>11, <1>12, <1>13 DEF Next, Beside, Barriered

\* A publication finds what its earlier steps wrote.
LEMMA PublishedNext == Typed /\ Commands /\ [Next]_vars => Published'
<1>1. SUFFICES ASSUME Typed, Commands, [Next]_vars,
                      op'.pc \in {"identity", "custody", "committed", "aborted"}
               PROVE  Published'
  BY DEF Published
<1>2. /\ \A step \in Steps, dirty \in {"none", "state", "gate", "retired"} \cup Barriered :
           /\ Go(step, dirty) => op'.pc = step
           /\ \A lease \in {"none", "shared", "exclusive"} :
                Begin(step, dirty, lease) => op'.pc = step
  BY <1>1, OpMoves
<1>3. state.now \in StateImages /\ Published /\ Belongs(op.pc, Phase)
  BY <1>1 DEF Typed, Directory, Commands, Phased
<1>4. CASE op'.pc = op.pc /\ state'.now = state.now /\ anchored' = anchored
  BY <1>3, <1>4 DEF Published, Phase, Journal
<1>5. CASE PublishAnchors
  BY <1>2, <1>5 DEF PublishAnchors, Published, Steps
<1>6. CASE Publish("identity", "target", "custody")
  <2>1. op'.pc = "custody" /\ anchored' = anchored /\ op.pc = "identity"
    BY <1>2, <1>6 DEF Publish, At, Steps, data
  <2>2. state'.now.identity = "target"
    BY <1>3, <1>6 DEF Publish, Changed, StateImages
  <2> QED BY <1>3, <2>1, <2>2 DEF Published
<1>7. CASE PublishCustody("custody", "target", "committed")
  <2>1. op'.pc = "committed" /\ anchored' = anchored /\ op.pc = "custody"
    BY <1>2, <1>7 DEF PublishCustody, At, Steps, data
  <2>2. state'.now.custody = "target" /\ state'.now.identity = state.now.identity
    BY <1>3, <1>7 DEF PublishCustody, Changed, StateImages
  <2> QED BY <1>3, <2>1, <2>2 DEF Published
<1>8. CASE Publish("abort_identity", "source", "abort_custody")
  <2>1. op'.pc = "abort_custody"
    BY <1>2, <1>8 DEF Publish, Steps
  <2> QED BY <2>1 DEF Published
<1>9. CASE PublishCustody("abort_custody", "source", "aborted")
  <2>1. op'.pc = "aborted"
    BY <1>2, <1>9 DEF PublishCustody, Steps
  <2>2. state'.now.custody = "source"
    BY <1>3, <1>9 DEF PublishCustody, Changed, StateImages
  <2> QED BY <2>1, <2>2 DEF Published
<1>10. CASE Abort
  <2>1. \/ op'.pc = "abort_identity"
        \/ op'.pc = "aborted" /\ state' = state /\ Phase # "aborting"
    BY <1>2, <1>10 DEF Abort, Steps
  <2> QED BY <2>1 DEF Published, Phase, Journal
<1> QED BY <1>1, <1>4, <1>5, <1>6, <1>7, <1>8, <1>9, <1>10, PublicationSteps DEF Publications

\* While a worker runs no command does: all of them ask for its leases.
LEMMA WhileWorking ==
  Typed /\ Commands /\ worker # NoWorker /\ [Next]_vars =>
    (\E ok \in BOOLEAN : WorkerEnds(ok)) \/ Beside \/ Kill \/ PowerLoss \/ UNCHANGED vars
<1>1. SUFFICES ASSUME Typed, Commands, worker # NoWorker, Next
               PROVE  (\E ok \in BOOLEAN : WorkerEnds(ok)) \/ Beside \/ Kill \/ PowerLoss
  OBVIOUS
<1>2. op.dirty = "none" /\ op.pc \in {"idle", "capturing", "importing"}
  BY <1>1 DEF Commands, Working
<1>3. ~Free
  BY <1>1 DEF Free
<1>4. ~ \/ \E candidate \in BOOLEAN : Plan(candidate)
        \/ Prepare \/ Bind \/ Activate \/ Commit \/ EnableWrites \/ EnableAgain \/ Complete
        \/ Abort \/ AbortAgain \/ Retire \/ RollBack
  BY <1>3 DEF Plan, Prepare, Bind, Activate, Commit, EnableWrites, EnableAgain, Complete, Abort,
     AbortAgain, Retire, RollBack
<1>5. ~ \/ Flush \/ Refuse \/ InstallPolicy \/ (\E u \in Barriered : InstallDropIn(u)) \/ Inhibit
        \/ InhibitRetired \/ DaemonReload \/ StopUnits \/ Quiesce
        \/ Capture \/ SaveCaptured \/ PrepareTarget \/ Import \/ VerifyTarget \/ SavePrepared
  BY <1>2 DEF At, Flush, Refuse, InstallPolicy, InstallDropIn, Inhibit, InhibitRetired,
     DaemonReload, StopUnits, Quiesce, Capture, SaveCaptured, PrepareTarget, Import, VerifyTarget,
     SavePrepared
<1>6. ~ \/ PublishAnchors \/ Publications \/ SaveCommitted \/ SaveAborted \/ LiftRetired
        \/ ReleasePolicy("policy_new", "target", "lift")
        \/ ReleasePolicy("policy_old", "source", "lift_old")
        \/ \E next : Lift("lift", next) \/ Lift("lift_old", next)
  BY <1>2
     DEF At, PublishAnchors, Publications, Publish, PublishCustody, SaveCommitted, SaveAborted,
     LiftRetired, ReleasePolicy, Lift
<1>7. ~Proceed
  BY <1>5, <1>6 DEF Proceed, Publications, Barriered
<1> QED BY <1>1, <1>4, <1>7 DEF Next, Beside, Barriered

\* Nothing saves the journal while a worker holds the leases, its command killed
\* or not.
LEMMA WorkingNext == Typed /\ Commands /\ [Next]_vars => Working'
<1>1. SUFFICES ASSUME Typed, Commands, [Next]_vars PROVE Working'
  OBVIOUS
<1>2. op \in Ops /\ worker \in Workers /\ Working /\ Idle.pc = "idle" /\ Idle.dirty = "none"
      /\ NoWorker.task = "none"
  BY <1>1 DEF Typed, Commands, Idle, NoWorker
<1>3. /\ \A step \in Steps, dirty \in {"none", "state", "gate", "retired"} \cup Barriered :
           /\ Go(step, dirty) => op'.pc = step /\ op'.dirty = dirty
           /\ \A lease \in {"none", "shared", "exclusive"} :
                Begin(step, dirty, lease) => op'.pc = step
  BY <1>1, OpMoves
<1>4. Journal' = state'.now.journal /\ Phase' = Journal'.phase
  BY DEF Journal, Phase
<1>5. CASE worker # NoWorker
  <2>1. CASE \E ok \in BOOLEAN : WorkerEnds(ok)
    <3>1. worker' = NoWorker /\ op'.pc \notin {"capturing", "importing"}
      BY <1>1, <1>2, <1>5, <2>1 DEF WorkerEnds, Ops, Working
    <3> QED BY <3>1 DEF Working
  <2>2. CASE Beside \/ UNCHANGED vars
    <3>1. UNCHANGED <<worker, op, state>>
      BY <2>2 DEF Beside, StartUnit, StopUnit, Write, Certify, Expire, GiveUp, vars, files
    <3> QED BY <1>2, <3>1 DEF Working, Phase, Journal
  <2>3. CASE Kill
    <3>1. UNCHANGED <<worker, state>> /\ op' = Idle
      BY <2>3 DEF Kill, files
    <3> QED BY <1>2, <3>1 DEF Working, Phase, Journal
  <2>4. CASE PowerLoss
    <3>1. worker' = NoWorker /\ op' = Idle
      BY <2>4 DEF PowerLoss, Boot
    <3> QED BY <1>2, <3>1 DEF Working
  <2> QED BY <1>1, <1>5, <2>1, <2>2, <2>3, <2>4, WhileWorking
<1>6. CASE worker = NoWorker /\ (Capture \/ Import)
  <2>1. state' = state
    BY <1>6 DEF Capture, Import, files
  <2>2. \/ /\ Phase = "quiesced" /\ worker' = [task |-> "capture", run |-> Journal.run]
           /\ op'.pc = "capturing" /\ op'.dirty = "none"
        \/ worker' = worker /\ op'.pc = "captured"
        \/ /\ Phase = "importing" /\ worker' = [task |-> "import", run |-> Journal.run]
           /\ op'.pc = "importing" /\ op'.dirty = "none"
    BY <1>1, <1>3, <1>6 DEF Capture, Import, At, Commands, Phased, Belongs, Capturing, Steps
  <2> QED BY <1>2, <1>6, <2>1, <2>2 DEF Working, Phase, Journal
<1>7. CASE worker = NoWorker /\ ~(Capture \/ Import)
  <2>1. op.pc \notin {"capturing", "importing"}
    BY <1>2, <1>7 DEF Working
  <2>2. ASSUME worker' = NoWorker, op'.pc \notin {"capturing", "importing"} PROVE Working'
    BY <2>2 DEF Working
  <2>3. CASE \/ \E candidate \in BOOLEAN : Plan(candidate)
             \/ Prepare \/ Bind \/ Commit \/ EnableWrites \/ EnableAgain \/ Complete
             \/ Abort \/ AbortAgain \/ Retire
    <3>1. worker' = worker
      BY <2>3
         DEF Plan, Prepare, Bind, Commit, EnableWrites, EnableAgain, Complete, Abort, AbortAgain,
         Retire
    <3>2. op'.pc \notin {"capturing", "importing"}
      BY <1>3, <2>3 DEF Plan, Prepare, Bind, Commit, EnableWrites, EnableAgain, Complete, Abort,
         AbortAgain, Retire, Steps
    <3> QED BY <1>7, <2>2, <3>1, <3>2
  <2>4. CASE \/ InstallPolicy \/ (\E u \in Barriered : InstallDropIn(u)) \/ Inhibit
             \/ InhibitRetired \/ DaemonReload \/ StopUnits \/ Quiesce
             \/ SaveCaptured \/ PrepareTarget \/ VerifyTarget \/ SavePrepared
    <3>1. worker' = worker
      BY <2>4 DEF InstallPolicy, InstallDropIn, Inhibit, InhibitRetired, DaemonReload, StopUnits,
         Quiesce, SaveCaptured, PrepareTarget, VerifyTarget, SavePrepared
    <3>2. op'.pc \notin {"capturing", "importing"}
      BY <1>3, <2>4 DEF InstallPolicy, InstallDropIn, Inhibit, InhibitRetired, DaemonReload,
         StopUnits, Quiesce, SaveCaptured, PrepareTarget, VerifyTarget, SavePrepared, Steps
    <3> QED BY <1>7, <2>2, <3>1, <3>2
  <2>5. CASE \/ PublishAnchors \/ Publications \/ SaveCommitted \/ SaveAborted
             \/ ReleasePolicy("policy_new", "target", "lift")
             \/ ReleasePolicy("policy_old", "source", "lift_old")
    <3>1. worker' = worker
      BY <2>5
         DEF PublishAnchors, Publications, Publish, PublishCustody, SaveCommitted, SaveAborted,
         ReleasePolicy
    <3>2. op'.pc \notin {"capturing", "importing"}
      BY <1>3, <2>5 DEF PublishAnchors, Publications, Publish, PublishCustody, SaveCommitted,
         SaveAborted, ReleasePolicy, Steps
    <3> QED BY <1>7, <2>2, <3>1, <3>2
  <2>6. ASSUME NEW step, NEW next \in {"idle", "lift_retired"}, Lift(step, next) PROVE Working'
    <3>1. worker' = worker
      BY <2>6 DEF Lift
    <3>2. op'.pc \notin {"capturing", "importing"}
      BY <1>2, <1>3, <2>6 DEF Lift, Steps, Ops
    <3> QED BY <1>7, <2>2, <3>1, <3>2
  <2>7. CASE LiftRetired
    <3>1. worker' = worker
      BY <2>7 DEF LiftRetired
    <3>2. op.lease \in {"none", "shared", "exclusive"}
      BY <1>2 DEF Ops
    <3>3. Begin("idle", "retired", op.lease) => op'.pc = "idle"
      BY <1>3, <3>2 DEF Steps
    <3> QED BY <1>2, <1>7, <2>2, <2>7, <3>1, <3>3 DEF LiftRetired
  <2>8. CASE Flush \/ Activate \/ Beside \/ UNCHANGED vars
    <3>1. worker' = worker
      BY <2>8
         DEF Flush, Activate, Beside, StartUnit, StopUnit, Write, Certify, Expire, GiveUp, vars
    <3>2. op'.pc \in {op.pc, "idle"}
      BY <1>2, <2>8
         DEF Flush, Activate, Beside, StartUnit, StopUnit, Write, Certify, Expire, GiveUp,
         vars, Ops
    <3> QED BY <1>7, <2>1, <2>2, <3>1, <3>2
  <2>9. CASE Refuse \/ Kill \/ PowerLoss \/ RollBack
    <3>1. worker' \in {worker, NoWorker} /\ op' = Idle
      BY <2>9 DEF Refuse, Kill, PowerLoss, RollBack, Boot
    <3> QED BY <1>2, <1>7, <2>2, <3>1
  <2>10. ASSUME NEW ok \in BOOLEAN PROVE ~WorkerEnds(ok)
    BY <1>7 DEF WorkerEnds
  <2>11. Proceed => Working'
    BY <1>7, <2>4, <2>5, <2>6, <2>7, <2>8, <2>9 DEF Proceed, Publications, Barriered
  <2> QED BY <1>1, <2>3, <2>8, <2>9, <2>10, <2>11 DEF Next, Beside, Barriered
<1> QED BY <1>5, <1>6, <1>7

\* A journal step of a run that is under way keeps its run and has a phase.
LEMMA Images ==
  Typed /\ Commands /\ [Next]_vars =>
    /\ state'.may \subseteq state.may \cup {state'.now}
    /\ state'.may # {}
    /\ \/ state'.now \in state.may
       \/ \E candidate \in BOOLEAN : Plan(candidate)
       \/ Retire
       \/ /\ Phase # "none" /\ state'.now.journal.phase # "none"
          /\ state'.now.journal.run = Journal.run
<1>1. SUFFICES ASSUME Typed, Commands, [Next]_vars
      PROVE /\ state'.may \subseteq state.may \cup {state'.now}
            /\ state'.may # {}
            /\ \/ state'.now \in state.may
               \/ \E candidate \in BOOLEAN : Plan(candidate)
               \/ Retire
               \/ /\ Phase # "none" /\ state'.now.journal.phase # "none"
                  /\ state'.now.journal.run = Journal.run
  OBVIOUS
<1>2. StateStep /\ state'.now \in state'.may
  BY <1>1, StateMoves, TypedState DEF Commands
<1>3. state.now \in state.may
  BY <1>1 DEF Typed
<1>4. state'.may \subseteq state.may \cup {state'.now}
  BY <1>2, <1>3 DEF StateStep, Moves, Synced, AfterLoss, Settled
<1>5. Publications => Phase # "none"
  BY <1>1
     DEF Publications, Publish, PublishCustody, At, Commands, Phased, Belongs, Publishing,
         Restoring
<1>6. SaveCaptured \/ PrepareTarget \/ VerifyTarget \/ SavePrepared \/ SaveCommitted \/ SaveAborted
        => Phase # "none"
  BY <1>1 DEF SaveCaptured, PrepareTarget, VerifyTarget, SavePrepared, SaveCommitted, SaveAborted,
     At, Commands, Phased, Belongs, Capturing, Publishing, Preparable
<1>7. Prepare \/ Bind \/ Commit \/ EnableWrites \/ Complete \/ Abort => Phase # "none"
  BY DEF Prepare, Bind, Commit, EnableWrites, Complete, Abort, Preparable
<1>8. Quiesce => Phase # "none"
  BY <1>1 DEF Quiesce, At, Commands, Phased, Belongs, Installing, Preparable
<1>9. ASSUME state' = state \/ state' = Synced(state) \/ state' \in AfterLoss(state)
      PROVE  state'.now \in state.may
  BY <1>3, <1>9 DEF Synced, AfterLoss, Settled
<1> QED BY <1>2, <1>4, <1>5, <1>6, <1>7, <1>8, <1>9 DEF StateStep, Moves, Publications

\* A run that is not planned yet has no capture.
LEMMA NumberedNext == Typed /\ Commands /\ [Next]_vars => Numbered'
<1>1. SUFFICES ASSUME Typed, Commands, [Next]_vars PROVE Numbered'
  OBVIOUS
<1> USE TransitionAssumption
<1>2. Numbered /\ runs \in Nat /\ state.now \in state.may
  BY <1>1 DEF Commands, Typed
<1>3. \/ runs' = runs
      \/ runs' = runs + 1 /\ \E candidate \in BOOLEAN : Plan(candidate)
  <2>1. ASSUME NEW candidate \in BOOLEAN, Plan(candidate) PROVE runs' = runs + 1
    BY <2>1 DEF Plan
  <2> QED BY <1>1, <2>1, Frame
<1>4. ASSUME NEW s \in state'.may
      PROVE  IF s.journal.phase = "none" THEN s.journal.run = NoRun ELSE s.journal.run \in 1..runs'
  <2>1. CASE s \in state.may
    BY <1>2, <1>3, <2>1 DEF Numbered
  <2>2. CASE s = state'.now /\ \E candidate \in BOOLEAN : Plan(candidate)
    <3>1. PICK candidate \in BOOLEAN : Plan(candidate)
      BY <2>2
    <3>2. s = [state.now EXCEPT !.journal =
                 [phase |-> "planned", run |-> runs + 1, bound |-> candidate]]
          /\ runs' = runs + 1
      BY <2>2, <3>1 DEF Plan, Changed
    <3>3. state.now \in StateImages
      BY <1>1 DEF Typed, Directory
    <3>4. s.journal.phase = "planned" /\ s.journal.run = runs + 1
      BY <3>2, <3>3 DEF StateImages
    <3> QED BY <1>2, <3>2, <3>4
  <2>3. CASE s = state'.now /\ Retire
    <3>1. s = [state.now EXCEPT !.journal = NoJournal]
      BY <2>3 DEF Retire, Changed
    <3>2. state.now \in StateImages
      BY <1>1 DEF Typed, Directory
    <3>3. s.journal = NoJournal
      BY <3>1, <3>2 DEF StateImages
    <3> QED BY <3>3 DEF NoJournal
  <2>4. CASE /\ s = state'.now /\ Phase # "none" /\ s.journal.phase # "none"
             /\ s.journal.run = Journal.run
    <3>1. Journal.run \in 1..runs
      BY <1>2, <2>4 DEF Numbered, Phase, Journal
    <3> QED BY <1>2, <1>3, <2>4, <3>1
  <2> QED BY <1>1, <2>1, <2>2, <2>3, <2>4, Images
<1>5. ASSUME NEW r \in Runs, r > runs' PROVE backup'[r] = Junk
  <2>1. r > runs /\ backup[r] = Junk
    BY <1>2, <1>3, <1>5 DEF Numbered, Runs
  <2>2. \/ backup' = backup
        \/ \E ok \in BOOLEAN : WorkerEnds(ok)
    BY <1>1, Frame
  <2>3. ASSUME NEW ok \in BOOLEAN, WorkerEnds(ok) PROVE backup'[r] = backup[r]
    <3>1. worker.run = Journal.run /\ Phase # "none"
      BY <1>1, <2>3 DEF WorkerEnds, Commands, Working
    <3>2. Journal.run \in 1..runs
      BY <1>2, <3>1 DEF Numbered, Phase, Journal
    <3>3. worker.run # r
      BY <1>2, <2>1, <3>1, <3>2 DEF Runs
    <3>4. backup \in [Runs -> Whole]
      BY <1>1 DEF Typed
    <3> QED BY <2>3, <3>3, <3>4 DEF WorkerEnds
  <2> QED BY <2>1, <2>2, <2>3
<1> QED BY <1>4, <1>5 DEF Numbered

\* Anchors are published once and stay.
LEMMA AnchorsStay == [Next]_vars /\ anchored => anchored'
BY Frame DEF PublishAnchors

\* What an image says of the authority, of its parts.
AuthorityOf(phase, identity, custody) ==
  LET side == IF phase \in {"committed", "write-enabled", "complete"} THEN "target" ELSE "source"
  IN  /\ phase \notin {"committing", "aborting"} => identity = custody
      /\ phase \notin {"none", "committing", "aborting"} => identity = side
      /\ identity = "target" => anchored

\* Every image a step adds names one backend for its phase.
LEMMA AuthoritiesNext == Typed /\ Commands /\ [Next]_vars => Authorities'
<1>1. SUFFICES ASSUME Typed, Commands, [Next]_vars PROVE Authorities'
  OBVIOUS
<1>2. anchored => anchored'
  BY <1>1, AnchorsStay
<1>3. \A s \in state.may : AuthorityOf(s.journal.phase, s.identity, s.custody)
  BY <1>1 DEF Commands, Authorities, Authority, AuthorityOf
<1>4. state.now \in state.may /\ AuthorityOf(Phase, state.now.identity, state.now.custody)
      /\ state.now.identity \in Sides /\ state.now.custody \in Sides
  BY <1>1, <1>3 DEF Typed, Phase, Journal, Directory, StateImages
<1>5. \A phase, identity, custody : AuthorityOf(phase, identity, custody)
        => AuthorityOf(phase, identity, custody)'
  BY <1>2 DEF AuthorityOf
<1>6. ASSUME NEW run, NEW phase, NEW identity, NEW custody, Moves(phase, run, identity, custody),
             AuthorityOf(phase, identity, custody)
      PROVE  Authorities'
  <2>1. \A s \in state'.may : s \in state.may \/ s = state'.now
    BY <1>6 DEF Moves
  <2>2. AuthorityOf(state'.now.journal.phase, state'.now.identity, state'.now.custody)
    BY <1>6 DEF Moves
  <2>3. \A s \in state'.may : AuthorityOf(s.journal.phase, s.identity, s.custody)
    BY <1>3, <2>1, <2>2
  <2>4. \A s \in state'.may : AuthorityOf(s.journal.phase, s.identity, s.custody)'
    BY <1>5, <2>3
  <2> QED BY <1>2, <2>3 DEF Authorities, Authority, AuthorityOf
<1>7. ASSUME state'.may \subseteq state.may PROVE Authorities'
  BY <1>2, <1>3, <1>7 DEF Authorities, Authority, AuthorityOf
<1>8. StateStep
  BY <1>1, StateMoves DEF Commands
<1>9. Published /\ Belongs(op.pc, Phase)
  BY <1>1 DEF Commands, Phased
<1>10. CASE state' = state \/ state' = Synced(state) \/ state' \in AfterLoss(state)
  BY <1>4, <1>7, <1>10 DEF Synced, AfterLoss, Settled
<1>11. ASSUME NEW candidate \in BOOLEAN, Plan(candidate),
              Moves("planned", runs + 1, state.now.identity, state.now.custody)
       PROVE  Authorities'
  <2>1. Phase = "none" /\ state.now.identity = "source"
    BY <1>11 DEF Plan, Check, Verified
  <2>2. AuthorityOf("planned", state.now.identity, state.now.custody)
    BY <1>4, <2>1 DEF AuthorityOf
  <2> QED BY <1>6, <1>11, <2>2
<1>12. ASSUME NEW phase, Moves(phase, Journal.run, state.now.identity, state.now.custody),
              Phase \notin {"none", "committing", "aborting", "committed", "write-enabled", "complete"},
              phase \notin {"committed", "write-enabled", "complete"}
       PROVE  Authorities'
  BY <1>4, <1>6, <1>12 DEF AuthorityOf
<1>13. CASE /\ Prepare
            /\ Moves(IF Phase = "planned" THEN "quiescing" ELSE Phase, Journal.run,
                     state.now.identity, state.now.custody)
  BY <1>12, <1>13 DEF Prepare, Preparable
<1>14. CASE Quiesce /\ Moves("quiesced", Journal.run, state.now.identity, state.now.custody)
  BY <1>9, <1>12, <1>14 DEF Quiesce, At, Belongs, Installing, Preparable
<1>15. CASE SaveCaptured /\ Moves("captured", Journal.run, state.now.identity, state.now.custody)
  BY <1>9, <1>12, <1>15 DEF SaveCaptured, At, Belongs, Capturing
<1>16. CASE PrepareTarget /\ Moves("importing", Journal.run, state.now.identity, state.now.custody)
  BY <1>9, <1>12, <1>16 DEF PrepareTarget, At, Belongs
<1>17. CASE VerifyTarget /\ Moves("imported", Journal.run, state.now.identity, state.now.custody)
  BY <1>9, <1>12, <1>17 DEF VerifyTarget, At, Belongs
<1>18. CASE SavePrepared /\ Moves("prepared", Journal.run, state.now.identity, state.now.custody)
  BY <1>9, <1>12, <1>18 DEF SavePrepared, At, Belongs
<1>19. CASE Bind /\ Moves(Phase, Journal.run, state.now.identity, state.now.custody)
  BY <1>12, <1>19 DEF Bind
<1>20. CASE Commit /\ Moves("committing", Journal.run, state.now.identity, state.now.custody)
  BY <1>4, <1>6, <1>20 DEF AuthorityOf
<1>21. CASE /\ Publish("identity", "target", "custody")
            /\ Moves(Phase, Journal.run, "target", state.now.custody)
  <2>1. Phase = "committing" /\ anchored
    BY <1>9, <1>21 DEF Publish, At, Belongs, Publishing, Published
  <2> QED BY <1>6, <1>21, <2>1 DEF AuthorityOf
<1>22. CASE /\ PublishCustody("custody", "target", "committed")
            /\ Moves(Phase, Journal.run, state.now.identity, "target")
  <2>1. Phase = "committing"
    BY <1>9, <1>22 DEF PublishCustody, At, Belongs, Publishing
  <2> QED BY <1>4, <1>6, <1>22, <2>1 DEF AuthorityOf
<1>23. CASE /\ Publish("abort_identity", "source", "abort_custody")
            /\ Moves(Phase, Journal.run, "source", state.now.custody)
  <2>1. Phase = "aborting"
    BY <1>9, <1>23 DEF Publish, At, Belongs, Restoring
  <2> QED BY <1>6, <1>23, <2>1 DEF AuthorityOf
<1>24. CASE /\ PublishCustody("abort_custody", "source", "aborted")
            /\ Moves(Phase, Journal.run, state.now.identity, "source")
  <2>1. Phase = "aborting"
    BY <1>9, <1>24 DEF PublishCustody, At, Belongs, Restoring
  <2> QED BY <1>4, <1>6, <1>24, <2>1 DEF AuthorityOf
<1>25. CASE SaveCommitted /\ Moves("committed", Journal.run, state.now.identity, state.now.custody)
  <2>1. state.now.identity = "target" /\ state.now.custody = "target" /\ anchored
    BY <1>9, <1>25 DEF SaveCommitted, At, Published
  <2> QED BY <1>6, <1>25, <2>1 DEF AuthorityOf
<1>26. CASE /\ EnableWrites /\ Phase = "committed"
            /\ Moves("write-enabled", Journal.run, state.now.identity, state.now.custody)
  BY <1>4, <1>6, <1>26 DEF AuthorityOf
<1>27. CASE Complete /\ Moves("complete", Journal.run, state.now.identity, state.now.custody)
  BY <1>4, <1>6, <1>27 DEF AuthorityOf, Complete
<1>28. CASE Abort /\ Moves("aborting", Journal.run, state.now.identity, state.now.custody)
  BY <1>4, <1>6, <1>28 DEF AuthorityOf
<1>29. CASE SaveAborted /\ Moves("aborted", Journal.run, state.now.identity, state.now.custody)
  <2>1. state.now.identity = "source" /\ op.pc = "aborted"
    BY <1>29 DEF SaveAborted, Verified, At
  <2>2. state.now.custody = "source"
    BY <1>4, <1>9, <2>1 DEF Belongs, Published, AuthorityOf, Preparable
  <2> QED BY <1>6, <1>29, <2>1, <2>2 DEF AuthorityOf
<1>30. CASE Retire /\ Moves("none", NoRun, state.now.identity, state.now.custody)
  BY <1>4, <1>6, <1>30 DEF AuthorityOf, Retire
<1> QED BY <1>8, <1>10, <1>11, <1>13, <1>14, <1>15, <1>16, <1>17, <1>18, <1>19, <1>20, <1>21,
           <1>22, <1>23, <1>24, <1>25, <1>26, <1>27, <1>28, <1>29, <1>30 DEF StateStep

\* A fresh host runs no command.
LEMMA InitCommands == Init => Typed /\ Commands
<1>1. SUFFICES ASSUME Init PROVE Typed /\ Commands
  OBVIOUS
<1> USE TransitionAssumption
<1>2. [journal |-> NoJournal, identity |-> "source", custody |-> "source"] \in StateImages
      /\ [policy |-> "none", marker |-> FALSE] \in GateImages
  BY DEF StateImages, NoJournal, Journals, Phases, Sides, GateImages, Policies
<1>3. \A S : \A i \in S : Settled(i) \in Directory(S) /\ Settled(i).now \in Settled(i).may
                       /\ Settled(i).may = {i} /\ Settled(i).now = i
  BY DEF Settled, Directory
<1>4. Idle \in Ops /\ NoWorker \in Workers /\ Idle.pc = "idle" /\ Junk \in Whole
      /\ Junk \subseteq 0..MaxWrites /\ Idle.dirty = "none"
  BY DEF Idle, Ops, Steps, NoWorker, Workers, Whole, Junk
<1>5. Typed
  <2>1. state \in Directory(StateImages) /\ state.now \in state.may
        /\ gate \in Directory(GateImages) /\ gate.now \in gate.may
    BY <1>1, <1>2, <1>3 DEF Init
  <2>2. Settled(FALSE) \in Directory(BOOLEAN) /\ Settled(FALSE).now \in Settled(FALSE).may
    BY <1>3
  <2>3. retired \in Directory(BOOLEAN) /\ retired.now \in retired.may
        /\ dropIn \in [Barriered -> Directory(BOOLEAN)]
        /\ \A u \in Barriered : dropIn[u].now \in dropIn[u].may
    BY <1>1, <2>2 DEF Init, Barriered
  <2>4. content \in [Sides -> SUBSET (0..MaxWrites)] /\ content["source"] \subseteq 1..MaxWrites
    BY <1>1, <1>4 DEF Init, Sides
  <2>5. backup \in [Runs -> Whole]
    BY <1>1, <1>4 DEF Init
  <2>6. receipt \in [run : Runs \cup {NoRun}, fresh : BOOLEAN]
    BY <1>1 DEF Init
  <2>7. /\ loaded = {} /\ up = {} /\ gen = "old" /\ installed = {"old"} /\ anchored = FALSE
        /\ acked = {} /\ op = Idle /\ worker = NoWorker /\ runs = 0 /\ gaveUp = FALSE /\ crashes = 0
        /\ left = {} /\ undone = FALSE
    BY <1>1 DEF Init
  <2>8. runs \in 0..MaxRuns /\ crashes \in 0..MaxCrashes
    BY <2>7
  <2> QED BY <1>4, <2>1, <2>3, <2>4, <2>5, <2>6, <2>7, <2>8 DEF Typed
<1>6. Phase = "none" /\ Journal.run = NoRun /\ state.now.identity = "source"
      /\ state.now.custody = "source" /\ state.may = {state.now} /\ op = Idle /\ worker = NoWorker
  BY <1>1 DEF Init, Settled, Phase, Journal, NoJournal
<1>7. Phased /\ Published /\ Working
  BY <1>4, <1>6 DEF Phased, Published, Working, Belongs, Installing, Capturing, Publishing,
     Releasing, Restoring, Returning
<1>8. Numbered
  BY <1>1, <1>6 DEF Init, Numbered, Phase, Journal
<1>9. Authorities
  BY <1>6 DEF Authorities, Authority, Phase, Journal
<1> QED BY <1>5, <1>7, <1>8, <1>9 DEF Commands

\* The commands and the journal, whatever is killed or lost.
LEMMA CommandsInductive == Spec => [](Typed /\ Commands)
<1>1. Typed /\ Commands /\ [Next]_vars => (Typed /\ Commands)'
  BY TypedNext, PhasedNext, PublishedNext, WorkingNext, NumberedNext, AuthoritiesNext DEF Commands
<1> QED BY <1>1, InitCommands, PTL DEF Spec

\* Every variable keeps its type, whatever is killed or lost, and when: a journal
\* with a phase has a run, and a write or a capture stays within its bound.
THEOREM TypeCorrect == Spec => []TypeOK
<1>1. Typed => TypeOK
  <2>1. SUFFICES ASSUME Typed PROVE TypeOK
    OBVIOUS
  <2>2. Whole \subseteq Contents /\ SUBSET (0..MaxWrites) = Contents
    BY TransitionAssumption DEF Whole, Contents, Junk
  <2>3. content \in [Sides -> Contents] /\ backup \in [Runs -> Contents]
    BY <2>1, <2>2 DEF Typed
  <2> QED BY <2>1, <2>3 DEF Typed, TypeOK, Barriered, Ops, Workers
<1> QED BY <1>1, CommandsInductive, PTL

\* Outside the two journaled publications, identity and custody name the backend
\* of the phase, now and after any power loss: under kills before a flush too
\* (application_transition.rs: publish, abort).
THEOREM AuthorityIsWhole == Spec => []AuthorityWhole
<1>1. Typed /\ Commands => AuthorityWhole
  BY DEF Typed, Commands, Authorities, Authority, AuthorityWhole, AlwaysOnDisk
<1> QED BY <1>1, CommandsInductive, PTL

-----------------------------------------------------------------------------
(* The images that may stand, until a power loss takes back what a killed   *)
(* command left.                                                            *)

\* The seen image alone of a directory that was left unflushed, else every one a
\* power loss may leave.
Standing(dir, unflushed) == IF unflushed THEN {dir.now} ELSE dir.may
States == Standing(state, "state" \in left)
Gates == Standing(gate, "gate" \in left)
DropIns(u) == Standing(dropIn[u], u \in left)

\* No image comes to stand but the one renamed into place.
LEMMA StandingOps ==
  ASSUME NEW dir, NEW new, NEW before, NEW after, dir.now \in dir.may
  PROVE  /\ dir.now \in Standing(dir, before)
         /\ new = dir /\ (before => after) => Standing(new, after) \subseteq Standing(dir, before)
         /\ new = Synced(dir) => Standing(new, after) = {dir.now}
         /\ new \in AfterLoss(dir) => Standing(new, after) = {new.now}
         /\ new \in AfterLoss(dir) /\ (before => new.now = dir.now) =>
              Standing(new, after) \subseteq Standing(dir, before)
         /\ new.may = dir.may \cup {new.now} /\ (before => after) =>
              Standing(new, after) \subseteq Standing(dir, before) \cup {new.now}
BY DEF Standing, Synced, AfterLoss, Settled

\* The seen images stand; `undone` stays; a directory is left until it is flushed.
LEMMA Stand ==
  ASSUME Typed, [Next]_vars
  PROVE  /\ state.now \in States /\ gate.now \in Gates
         /\ \A u \in Barriered : dropIn[u].now \in DropIns(u)
         /\ ~undone' => ~undone
         /\ ~Flush /\ ~PowerLoss => left \subseteq left'
<1>1. state.now \in state.may /\ gate.now \in gate.may
      /\ \A u \in Barriered : dropIn[u].now \in dropIn[u].may
  BY DEF Typed
<1>2. ~undone' => ~undone
  BY Frame DEF PowerLoss
<1>3. ~Flush /\ ~PowerLoss => left \subseteq left'
  BY Frame DEF Kill
<1> QED BY <1>1, <1>2, <1>3 DEF States, Gates, DropIns, Standing

\* A flush, a loss that takes nothing back and what leaves a directory alone add
\* no image.
LEMMA StandingShrinks ==
  ASSUME Typed, [Next]_vars, ~undone'
  PROVE  /\ state' = state \/ Flush \/ PowerLoss => States' \subseteq States
         /\ gate' = gate \/ Flush \/ PowerLoss => Gates' \subseteq Gates
         /\ \A u \in Barriered : dropIn'[u] = dropIn[u] \/ Flush \/ PowerLoss =>
              DropIns(u)' \subseteq DropIns(u)
<1>1. /\ state.now \in state.may /\ gate.now \in gate.may
      /\ \A u \in Barriered : dropIn[u].now \in dropIn[u].may
      /\ dropIn \in [Barriered -> Directory(BOOLEAN)]
  BY DEF Typed
<1>2. CASE PowerLoss
  <2>1. /\ state' \in AfterLoss(state) /\ gate' \in AfterLoss(gate)
        /\ \A u \in Barriered : dropIn'[u] \in AfterLoss(dropIn[u])
    BY <1>2 DEF PowerLoss, Barriered
  <2>2. ~TakenBack
    BY <1>2 DEF PowerLoss
  <2>3. /\ "state" \in left => state'.now = state.now
        /\ "gate" \in left => gate'.now = gate.now
        /\ \A u \in Barriered : u \in left => dropIn'[u].now = dropIn[u].now
    BY <2>2 DEF TakenBack
  <2> QED BY <1>1, <2>1, <2>3, StandingOps DEF States, Gates, DropIns
<1>3. CASE Flush
  <2>1. /\ state' = Synced(state) \/ (state' = state /\ ("state" \in left => "state" \in left'))
        /\ gate' = Synced(gate) \/ (gate' = gate /\ ("gate" \in left => "gate" \in left'))
        /\ \A u \in Barriered : \/ dropIn'[u] = Synced(dropIn[u])
                                \/ dropIn'[u] = dropIn[u] /\ (u \in left => u \in left')
    <3>1. DOMAIN dropIn = Barriered
      BY <1>1
    <3> QED BY <1>3, <3>1 DEF Flush
  <2>2. /\ state.now \in States /\ gate.now \in Gates
        /\ \A u \in Barriered : dropIn[u].now \in DropIns(u)
    BY Stand
  <2>3. States' \subseteq States
    <3>1. CASE state' = Synced(state)
      BY <1>1, <2>2, <3>1, StandingOps DEF States
    <3>2. CASE state' = state /\ ("state" \in left => "state" \in left')
      BY <1>1, <3>2, StandingOps DEF States
    <3> QED BY <2>1, <3>1, <3>2
  <2>4. Gates' \subseteq Gates
    <3>1. CASE gate' = Synced(gate)
      BY <1>1, <2>2, <3>1, StandingOps DEF Gates
    <3>2. CASE gate' = gate /\ ("gate" \in left => "gate" \in left')
      BY <1>1, <3>2, StandingOps DEF Gates
    <3> QED BY <2>1, <3>1, <3>2
  <2>5. ASSUME NEW u \in Barriered PROVE DropIns(u)' \subseteq DropIns(u)
    <3>1. CASE dropIn'[u] = Synced(dropIn[u])
      BY <1>1, <2>2, <3>1, StandingOps DEF DropIns
    <3>2. CASE dropIn'[u] = dropIn[u] /\ (u \in left => u \in left')
      BY <1>1, <3>2, StandingOps DEF DropIns
    <3> QED BY <2>1, <3>1, <3>2
  <2> QED BY <2>3, <2>4, <2>5
<1>4. CASE ~PowerLoss /\ ~Flush
  <2>1. left \subseteq left'
    BY <1>4, Stand
  <2>2. /\ "state" \in left => "state" \in left'
        /\ "gate" \in left => "gate" \in left'
        /\ \A u \in Barriered : u \in left => u \in left'
    BY <2>1
  <2> QED BY <1>1, <1>4, <2>2, StandingOps DEF States, Gates, DropIns
<1> QED BY <1>2, <1>3, <1>4

\* A rename adds the image it puts into place.
LEMMA StandingGrows ==
  ASSUME Typed, [Next]_vars, ~undone'
  PROVE  /\ state'.may = state.may \cup {state'.now} => States' \subseteq States \cup {state'.now}
         /\ gate'.may = gate.may \cup {gate'.now} => Gates' \subseteq Gates \cup {gate'.now}
         /\ \A u \in Barriered : dropIn'[u].may = dropIn[u].may \cup {dropIn'[u].now} =>
              DropIns(u)' \subseteq DropIns(u) \cup {dropIn'[u].now}
<1>1. /\ state.now \in state.may /\ gate.now \in gate.may
      /\ \A u \in Barriered : dropIn[u].now \in dropIn[u].may
  BY DEF Typed
<1>2. CASE PowerLoss \/ Flush
  BY <1>2, StandingShrinks
<1>3. CASE ~PowerLoss /\ ~Flush
  <2>1. left \subseteq left'
    BY <1>3, Stand
  <2>2. /\ "state" \in left => "state" \in left'
        /\ "gate" \in left => "gate" \in left'
        /\ \A u \in Barriered : u \in left => u \in left'
    BY <2>1
  <2> QED BY <1>1, <2>2, StandingOps DEF States, Gates, DropIns
<1> QED BY <1>2, <1>3

-----------------------------------------------------------------------------
(* The journal's course.                                                    *)

\* From the quiesced record to the release, and once writers were released.
HeldPhases == {"quiesced", "captured", "importing", "imported", "prepared",
               "committing", "committed", "aborting"}
Held(s) == s.journal.phase \in HeldPhases
Released(s) == \/ s.journal.phase \in {"write-enabled", "complete"}
               \/ s.journal.phase = "none" /\ s.identity = "target"
SomeHeld == \E s \in States : Held(s)
SomeReleased == \E s \in States : Released(s)
AllReleased == \A s \in States : Released(s)

\* One step of the journal, from phase p to phase q.
Advances(p, q) ==
  \/ /\ state'.now.journal.run = Journal.run
     /\ \/ p = q /\ p \in Preparable \cup {"committing", "aborting"}
        \/ p = "planned" /\ q = "quiescing"
        \/ p = "quiescing" /\ q = "quiesced" /\ Quiesce
        \/ p = "quiesced" /\ q = "captured" /\ op.pc = "captured"
        \/ p \in {"captured", "importing", "imported", "prepared"}
             /\ q \in {"importing", "imported", "prepared"}
        \/ p = "prepared" /\ q = "committing"
        \/ p = "committing" /\ q = "committed"
        \/ p = "committed" /\ q = "write-enabled" /\ EnableWrites
        \/ p \in {"write-enabled", "complete"} /\ q = "complete"
        \/ p \in {"committing", "committed"} /\ q = "aborting"
        \/ p \in Preparable \cup {"aborting"} /\ q = "aborted"
  \/ /\ p = "none" /\ q = "planned" /\ state.now.identity = "source"
     /\ state'.now.journal.run = runs + 1 /\ runs + 1 \in Runs
  \/ p = "complete" /\ q = "none" /\ state'.now.identity = "target"
  \/ p = "aborted" /\ q = "none" /\ state'.now.identity = "source"
Course == \/ States' \subseteq States
          \/ /\ States' \subseteq States \cup {state'.now}
             /\ Advances(Phase, state'.now.journal.phase)

\* The journal only takes these steps.
LEMMA JournalCourse == ~undone' /\ Typed /\ Commands /\ [Next]_vars => Course
<1>1. SUFFICES ASSUME ~undone', Typed, Commands, [Next]_vars PROVE Course
  OBVIOUS
<1>2. StateStep
  BY <1>1, StateMoves DEF Commands
<1>3. Belongs(op.pc, Phase)
  BY <1>1 DEF Commands, Phased
<1> DEFINE Grown == States' \subseteq States \cup {state'.now}
<1>14. \A phase, run, identity, custody : Moves(phase, run, identity, custody) => Grown
  <2>1. state'.may = state.may \cup {state'.now} => Grown
    BY <1>1, StandingGrows
  <2> QED BY <2>1 DEF Moves
<1>15. Grown /\ Advances(Phase, state'.now.journal.phase) => Course
  BY DEF Course
<1> HIDE DEF Grown
<1>4. CASE state' = state \/ Flush \/ PowerLoss
  BY <1>1, <1>4, StandingShrinks DEF Course
<1>5. CASE \E candidate \in BOOLEAN :
             Plan(candidate) /\ Moves("planned", runs + 1, state.now.identity, state.now.custody)
  <2>1. Phase = "none" /\ state.now.identity = "source" /\ runs < MaxRuns
    BY <1>5 DEF Plan, Check, Verified
  <2>2. runs + 1 \in Runs
    BY <1>1, <2>1, TransitionAssumption DEF Typed, Runs
  <2> QED BY <1>5, <2>1, <2>2, <1>14, <1>15 DEF Advances, Moves
<1>6. CASE /\ Prepare
           /\ Moves(IF Phase = "planned" THEN "quiescing" ELSE Phase, Journal.run,
                    state.now.identity, state.now.custody)
  BY <1>6, <1>14, <1>15 DEF Advances, Moves, Prepare
<1>7. CASE \/ Quiesce /\ Moves("quiesced", Journal.run, state.now.identity, state.now.custody)
           \/ SaveCaptured /\ Moves("captured", Journal.run, state.now.identity, state.now.custody)
  <2>1. Quiesce => state' = state \/ Phase \in {"quiescing", "quiesced"}
    BY DEF Quiesce
  <2>2. "quiesced" \in Preparable
    BY DEF Preparable
  <2>3. SaveCaptured => op.pc = "captured" /\ Phase = "quiesced"
    BY <1>3 DEF SaveCaptured, At, Belongs, Capturing
  <2> QED BY <1>4, <1>7, <2>1, <2>2, <2>3, <1>14, <1>15 DEF Advances, Moves
<1>8. CASE \/ PrepareTarget /\ Moves("importing", Journal.run, state.now.identity, state.now.custody)
           \/ VerifyTarget /\ Moves("imported", Journal.run, state.now.identity, state.now.custody)
           \/ SavePrepared /\ Moves("prepared", Journal.run, state.now.identity, state.now.custody)
  <2>1. PrepareTarget \/ VerifyTarget \/ SavePrepared
          => Phase \in {"captured", "importing", "imported", "prepared"}
    BY <1>3 DEF PrepareTarget, VerifyTarget, SavePrepared, At, Belongs
  <2> QED BY <1>8, <2>1, <1>14, <1>15 DEF Advances, Moves
<1>9. CASE \/ Bind /\ Moves(Phase, Journal.run, state.now.identity, state.now.custody)
           \/ Commit /\ Moves("committing", Journal.run, state.now.identity, state.now.custody)
           \/ SaveCommitted /\ Moves("committed", Journal.run, state.now.identity, state.now.custody)
  <2>1. SaveCommitted => Phase = "committing"
    BY <1>3 DEF SaveCommitted, At, Belongs, Publishing
  <2> QED BY <1>9, <2>1, <1>14, <1>15 DEF Advances, Moves, Bind, Commit, Preparable
<1>10. CASE \/ Publish("identity", "target", "custody")
                 /\ Moves(Phase, Journal.run, "target", state.now.custody)
            \/ PublishCustody("custody", "target", "committed")
                 /\ Moves(Phase, Journal.run, state.now.identity, "target")
            \/ Publish("abort_identity", "source", "abort_custody")
                 /\ Moves(Phase, Journal.run, "source", state.now.custody)
            \/ PublishCustody("abort_custody", "source", "aborted")
                 /\ Moves(Phase, Journal.run, state.now.identity, "source")
  <2>1. Phase \in {"committing", "aborting"}
    BY <1>3, <1>10 DEF Publish, PublishCustody, At, Belongs, Publishing, Restoring
  <2> QED BY <1>10, <2>1, <1>14, <1>15 DEF Advances, Moves
<1>11. CASE \/ /\ EnableWrites /\ Phase = "committed"
               /\ Moves("write-enabled", Journal.run, state.now.identity, state.now.custody)
            \/ Complete /\ Moves("complete", Journal.run, state.now.identity, state.now.custody)
  BY <1>11, <1>14, <1>15 DEF Advances, Moves, Complete
<1>12. CASE \/ Abort /\ Moves("aborting", Journal.run, state.now.identity, state.now.custody)
            \/ SaveAborted /\ Moves("aborted", Journal.run, state.now.identity, state.now.custody)
  <2>1. Abort => state' = state \/ Phase \in {"committing", "committed", "aborting"}
    BY DEF Abort
  <2>2. SaveAborted => Phase \in Preparable \cup {"aborting"}
    BY <1>3 DEF SaveAborted, At, Belongs
  <2> QED BY <1>4, <1>12, <2>1, <2>2, <1>14, <1>15 DEF Advances, Moves
<1>13. CASE Retire /\ Moves("none", NoRun, state.now.identity, state.now.custody)
  <2>1. \/ Phase = "complete" /\ state.now.identity = "target"
        \/ Phase = "aborted" /\ state.now.identity = "source"
    BY <1>13 DEF Retire, Verified
  <2> QED BY <1>13, <2>1, <1>14, <1>15 DEF Advances, Moves
<1> QED BY <1>2, <1>4, <1>5, <1>6, <1>7, <1>8, <1>9, <1>10, <1>11, <1>12, <1>13 DEF StateStep

\* A held image comes from a held one or with the quiesced record; a released
\* one from a released one or with the point of no return, which stands.
LEMMA CourseOfWriters ==
  ~undone' /\ Typed /\ Commands /\ [Next]_vars =>
    /\ SomeHeld' => SomeHeld \/ Quiesce
    /\ SomeReleased' => SomeReleased \/ (EnableWrites /\ Phase = "committed")
    /\ AllReleased => AllReleased'
<1>1. SUFFICES ASSUME ~undone', Typed, Commands, [Next]_vars
      PROVE /\ SomeHeld' => SomeHeld \/ Quiesce
            /\ SomeReleased' => SomeReleased \/ (EnableWrites /\ Phase = "committed")
            /\ AllReleased => AllReleased'
  OBVIOUS
<1>2. Course
  BY <1>1, JournalCourse
<1>3. state.now \in States
  BY <1>1, Stand
<1>4. CASE States' \subseteq States
  BY <1>4 DEF SomeHeld, SomeReleased, AllReleased, Held, Released
<1>5. CASE /\ States' \subseteq States \cup {state'.now}
           /\ Advances(Phase, state'.now.journal.phase)
  <2>1. Held(state'.now) => Held(state.now) \/ Quiesce
    BY <1>5 DEF Advances, Held, HeldPhases, Preparable, Phase, Journal
  <2>2. Released(state'.now) => Released(state.now) \/ (EnableWrites /\ Phase = "committed")
    BY <1>5 DEF Advances, Released, Preparable, Phase, Journal
  <2>3. Released(state.now) => Released(state'.now)
    BY <1>5 DEF Advances, Released, Preparable, Phase, Journal
  <2> QED BY <1>3, <1>5, <2>1, <2>2, <2>3 DEF SomeHeld, SomeReleased, AllReleased, Held, Released
<1> QED BY <1>2, <1>4, <1>5 DEF Course

-----------------------------------------------------------------------------
(* The barrier, while nothing that was left is taken back.                  *)

\* Beside what was left, only the directory that the running command has changed
\* last may differ on disk from what is seen.
Flushed ==
  /\ op.dirty # "state" => States = {state.now}
  /\ op.dirty # "gate" => Gates = {gate.now}
  /\ \A u \in Barriered : op.dirty # u => DropIns(u) = {dropIn[u].now}
AllFlushed ==
  /\ States = {state.now} /\ Gates = {gate.now}
  /\ \A u \in Barriered : DropIns(u) = {dropIn[u].now}

\* Unit u's drop-in is there, whatever a power loss leaves.
Dropped(u) == DropIns(u) = {TRUE}

\* Barred: no unit can start.  A command that has reached its reload sees the
\* marker and the drop-ins; one that has reached its stop has them in force; one
\* that asks for the exclusive lease has stopped every unit.  From the quiesced
\* record to the release the barrier stands and nothing runs.
Barred == /\ \A g \in Gates : g.marker
          /\ \A u \in Barriered : Dropped(u) /\ u \in loaded
Barrier ==
  /\ \A u \in loaded : Dropped(u)
  /\ op.pc \in {"inhibit_retired", "reload", "stop", "lock"} =>
       gate.now.marker /\ \A u \in Barriered : Dropped(u)
  /\ op.pc \in {"stop", "lock"} => loaded = Barriered
  /\ op.pc = "lock" => up = {}
  /\ SomeHeld => Barred /\ up = {}

\* No step but a kill leaves a directory unflushed behind it.
LEMMA FlushedNext ==
  Typed /\ Commands /\ Flushed /\ [Next]_vars => Flushed'
<1>1. SUFFICES ASSUME Typed, Commands, Flushed, [Next]_vars PROVE Flushed'
  OBVIOUS
<1> USE DEF States, Gates, DropIns, bounds
<1>2. /\ \A u \in Barriered : u \notin {"none", "state", "gate", "retired"}
      /\ dropIn \in [Barriered -> Directory(BOOLEAN)] /\ op \in Ops
  BY <1>1, TransitionAssumption DEF Typed, Barriered
<1>3. op.dirty = "none" => AllFlushed
  BY <1>1, <1>2 DEF Flushed, AllFlushed
<1>4. ASSUME op.dirty = "none", files' = files, left' = left PROVE Flushed'
  BY <1>3, <1>4 DEF AllFlushed, Flushed, files
<1>5. Idle.dirty = "none" /\ (Free => op.dirty = "none")
  BY DEF Idle, Free
<1>6. /\ \A step \in Steps, dirty \in {"none", "state", "gate", "retired"} \cup Barriered :
           /\ Go(step, dirty) => op'.dirty = dirty
           /\ \A lease \in {"none", "shared", "exclusive"} :
                Begin(step, dirty, lease) => op'.dirty = dirty
  BY <1>1, OpMoves
<1>7. CASE Beginning
  <2>1. op.dirty = "none" /\ UNCHANGED <<gate, dropIn, left>>
    BY <1>5, <1>7 DEF Beginning, Plan, Prepare, Bind, Commit, EnableWrites, EnableAgain, Complete,
       Abort, AbortAgain, Retire, files
  <2>2. state' = state \/ op'.dirty = "state"
    BY <1>6, <1>7 DEF Beginning, Plan, Prepare, Bind, Commit, EnableWrites, EnableAgain, Complete,
       Abort, AbortAgain, Retire, files, Steps
  <2> QED BY <1>3, <2>1, <2>2 DEF AllFlushed, Flushed
<1>8. CASE Journaling
  <2>1. op.dirty = "none" /\ UNCHANGED <<gate, dropIn, left>>
    BY <1>8 DEF Journaling, Quiesce, SaveCaptured, PrepareTarget, VerifyTarget, SavePrepared,
       Publications, Publish, PublishCustody, SaveCommitted, SaveAborted, At
  <2>2. state' = state \/ op'.dirty = "state"
    BY <1>6, <1>8
       DEF Journaling, Quiesce, SaveCaptured, PrepareTarget, VerifyTarget, SavePrepared,
       Publications, Publish, PublishCustody, SaveCommitted, SaveAborted, Steps
  <2> QED BY <1>3, <2>1, <2>2 DEF AllFlushed, Flushed
<1>9. CASE Gating
  <2>1. op.dirty = "none" /\ UNCHANGED <<state, dropIn, left>>
    BY <1>9 DEF Gating, InstallPolicy, Inhibit, ReleasePolicy, Lift, At
  <2>2. gate' = gate \/ op'.dirty = "gate"
    BY <1>6, <1>9 DEF Gating, InstallPolicy, Inhibit, ReleasePolicy, Lift, Steps
  <2> QED BY <1>3, <2>1, <2>2 DEF AllFlushed, Flushed
<1>10. ASSUME NEW u \in Barriered, InstallDropIn(u) PROVE Flushed'
  <2>1. /\ op.dirty = "none" /\ UNCHANGED <<state, gate, left>> /\ op'.dirty = u
        /\ dropIn' = [dropIn EXCEPT ![u] = Changed(@, TRUE)]
    BY <1>6, <1>10 DEF InstallDropIn, At, Steps
  <2>2. \A v \in Barriered : v # u => dropIn'[v] = dropIn[v]
    BY <1>2, <2>1
  <2> QED BY <1>3, <2>1, <2>2 DEF AllFlushed, Flushed
<1>11. CASE Flush
  <2>1. DOMAIN dropIn = Barriered
    BY <1>2
  <2>2. /\ dropIn' = [u \in Barriered |-> IF op.dirty = u THEN Synced(dropIn[u]) ELSE dropIn[u]]
        /\ state' = IF op.dirty = "state" THEN Synced(state) ELSE state
        /\ gate' = IF op.dirty = "gate" THEN Synced(gate) ELSE gate
        /\ left' = left \ {op.dirty}
    BY <1>11, <2>1 DEF Flush
  <2>3. States' = {state'.now} /\ Gates' = {gate'.now}
    BY <1>1, <2>2 DEF Flushed, Standing, Synced, Settled
  <2>4. ASSUME NEW u \in Barriered PROVE DropIns(u)' = {dropIn'[u].now}
    <3>1. dropIn'[u] = IF op.dirty = u THEN Synced(dropIn[u]) ELSE dropIn[u]
      BY <2>2
    <3> QED BY <1>1, <2>2, <3>1 DEF Flushed, Standing, Synced, Settled
  <2> QED BY <2>3, <2>4 DEF Flushed
<1>12. CASE PowerLoss
  <2>1. /\ state' \in AfterLoss(state) /\ gate' \in AfterLoss(gate)
        /\ \A u \in Barriered : dropIn'[u] \in {Settled(TRUE), Settled(FALSE)}
    BY <1>12 DEF PowerLoss, Barriered
  <2>2. \A b, l : Standing(Settled(b), l) = {Settled(b).now}
    BY DEF Settled, Standing
  <2>3. /\ States' = {state'.now} /\ Gates' = {gate'.now}
        /\ \A u \in Barriered : DropIns(u)' = {dropIn'[u].now}
    BY <2>1, <2>2 DEF AfterLoss
  <2> QED BY <2>3 DEF Flushed
<1>17. CASE Kill
  <2>1. /\ files' = files /\ left' = left \cup ({op.dirty} \ {"none"})
    BY <1>17 DEF Kill
  <2>2. /\ op.dirty = "state" => "state" \in left'
        /\ op.dirty = "gate" => "gate" \in left'
        /\ \A u \in Barriered : op.dirty = u => u \in left'
    BY <1>2, <2>1
  <2>3. /\ op.dirty # "state" => ("state" \in left' <=> "state" \in left)
        /\ op.dirty # "gate" => ("gate" \in left' <=> "gate" \in left)
        /\ \A u \in Barriered : op.dirty # u => (u \in left' <=> u \in left)
    BY <1>2, <2>1
  <2> QED BY <1>1, <2>1, <2>2, <2>3 DEF Flushed, Standing, files
<1>13. CASE InhibitRetired \/ LiftRetired
  <2>1. op.dirty = "none" /\ UNCHANGED <<state, gate, dropIn, left>>
    BY <1>13 DEF InhibitRetired, LiftRetired, At
  <2> QED BY <1>3, <2>1 DEF AllFlushed, Flushed
<1>14. CASE Refuse \/ DaemonReload \/ StopUnits \/ Capture \/ Import \/ PublishAnchors
            \/ RollBack \/ Activate
  BY <1>1, <1>4, <1>5, <1>14 DEF Refuse, DaemonReload, StopUnits, Capture, Import,
     PublishAnchors, RollBack, Activate, At
<1>15. CASE \E ok \in BOOLEAN : WorkerEnds(ok)
  BY <1>1, <1>4, <1>15 DEF WorkerEnds, Commands, Working
<1>16. CASE Beside \/ UNCHANGED vars
  <2>1. op' = op /\ files' = files /\ left' = left
    BY <1>16 DEF Beside, StartUnit, StopUnit, Write, Certify, Expire, GiveUp, vars, files
  <2> QED BY <1>1, <2>1 DEF Flushed, files
<1> QED BY <1>1, <1>7, <1>8, <1>9, <1>10, <1>11, <1>12, <1>13, <1>14, <1>15, <1>16, <1>17, Kinds

\* A drop-in is never removed.
LEMMA DropInStays ==
  ASSUME ~undone', Typed, Commands, [Next]_vars, NEW u \in Barriered, Dropped(u)
  PROVE  Dropped(u)' /\ dropIn'[u].now = TRUE
<1>1. /\ dropIn \in [Barriered -> Directory(BOOLEAN)] /\ dropIn[u].now = TRUE
      /\ DropIns(u) = {TRUE}
  BY Stand DEF Typed, Dropped
<1>2. dropIn'[u].now \in DropIns(u)'
  BY TypedNext DEF Typed, DropIns, Standing
<1>3. DropIns(u)' \subseteq {TRUE} => Dropped(u)' /\ dropIn'[u].now = TRUE
  BY <1>2 DEF Dropped
<1>4. CASE dropIn' = dropIn \/ Flush \/ PowerLoss
  BY <1>1, <1>3, <1>4, StandingShrinks
<1>5. ASSUME NEW v \in Barriered, InstallDropIn(v)
      PROVE  Dropped(u)' /\ dropIn'[u].now = TRUE
  <2>1. dropIn' = [dropIn EXCEPT ![v] = Changed(@, TRUE)]
    BY <1>5 DEF InstallDropIn
  <2>2. dropIn'[u] = dropIn[u] \/ dropIn'[u] = Changed(dropIn[u], TRUE)
    BY <1>1, <2>1
  <2>3. CASE dropIn'[u] = dropIn[u]
    BY <1>1, <1>3, <2>3, StandingShrinks
  <2>4. CASE dropIn'[u] = Changed(dropIn[u], TRUE)
    <3>1. dropIn'[u].now = TRUE /\ dropIn'[u].may = dropIn[u].may \cup {dropIn'[u].now}
      BY <2>4 DEF Changed
    <3> QED BY <1>1, <1>3, <3>1, StandingGrows
  <2> QED BY <2>2, <2>3, <2>4
<1> QED BY <1>4, <1>5, Frame

\* What systemd loads: the drop-ins it finds.
LEMMA LoadedMoves ==
  ~undone' /\ Typed /\ Commands /\ Flushed /\ Barrier /\ [Next]_vars =>
    /\ \A u \in loaded' : Dropped(u)'
    /\ \A u \in Barriered : Dropped(u) /\ u \in loaded => u \in loaded'
<1>1. SUFFICES ASSUME ~undone', Typed, Commands, Flushed, Barrier, [Next]_vars
      PROVE  /\ \A u \in loaded' : Dropped(u)'
             /\ \A u \in Barriered : Dropped(u) /\ u \in loaded => u \in loaded'
  OBVIOUS
<1>2. Flushed' /\ Typed'
  BY <1>1, FlushedNext, TypedNext
<1>3. /\ loaded \subseteq Barriered /\ dropIn' \in [Barriered -> Directory(BOOLEAN)]
      /\ \A u \in loaded : Dropped(u)
      /\ \A u \in Barriered : u \notin {"none", "state", "gate", "retired"}
      /\ \A u \in Barriered : dropIn'[u].now \in BOOLEAN
  BY <1>1, <1>2, TransitionAssumption DEF Typed, Barrier, Barriered, Directory
<1>4. \A u \in Barriered : Dropped(u) => Dropped(u)' /\ dropIn'[u].now = TRUE
  BY <1>1, DropInStays
<1>5. CASE loaded' = loaded
  BY <1>3, <1>4, <1>5
<1>6. ASSUME loaded' = {u \in Barriered : dropIn'[u].now}, op'.dirty = "none"
      PROVE  /\ \A u \in loaded' : Dropped(u)'
             /\ \A u \in Barriered : Dropped(u) /\ u \in loaded => u \in loaded'
  <2>1. \A u \in Barriered : DropIns(u)' = {dropIn'[u].now}
    BY <1>2, <1>3, <1>6 DEF Flushed
  <2> QED BY <1>3, <1>4, <1>6, <2>1 DEF Dropped
<1>7. Idle.dirty = "none"
  BY DEF Idle
<1>8. CASE DaemonReload
  <2>1. loaded' = {u \in Barriered : dropIn'[u].now} /\ Go("stop", "none")
    BY <1>8 DEF DaemonReload, Barriered, files
  <2>2. op'.dirty = "none"
    BY <1>1, <2>1, OpMoves DEF Steps
  <2> QED BY <1>6, <2>1, <2>2
<1>9. CASE RollBack \/ PowerLoss
  <2>1. loaded' = {u \in Barriered : dropIn'[u].now} /\ op' = Idle
    BY <1>9 DEF RollBack, PowerLoss, Boot, Barriered
  <2> QED BY <1>6, <1>7, <2>1
<1> QED BY <1>1, <1>5, <1>8, <1>9, Frame

\* The command stays where it is.
Stays == (Flush \/ Beside \/ UNCHANGED vars) /\ op'.pc = op.pc

\* How a command reaches a step that relies on what came before: the markers and
\* the drop-ins, the new start policy, the capture.
LEMMA Arrivals ==
  Typed /\ Commands /\ [Next]_vars =>
    /\ op'.pc \in {"inhibit_retired", "reload", "stop", "lock"} =>
         \/ Inhibit
         \/ InhibitRetired /\ op.pc = "inhibit_retired" /\ op'.pc = "reload"
         \/ DaemonReload /\ op.pc = "reload" /\ op'.pc = "stop"
         \/ StopUnits /\ op.pc = "stop" /\ op'.pc = "lock"
         \/ Stays
    /\ op'.pc = "lift" => ReleasePolicy("policy_new", "target", "lift") \/ Stays
    /\ op'.pc = "captured" => Capture \/ (\E ok \in BOOLEAN : WorkerEnds(ok)) \/ Stays
<1>1. SUFFICES ASSUME Typed, Commands, [Next]_vars,
                      op'.pc \in {"inhibit_retired", "reload", "stop", "lock", "lift", "captured"}
               PROVE  /\ op'.pc \in {"inhibit_retired", "reload", "stop", "lock"} =>
                           \/ Inhibit
                           \/ InhibitRetired /\ op.pc = "inhibit_retired" /\ op'.pc = "reload"
                           \/ DaemonReload /\ op.pc = "reload" /\ op'.pc = "stop"
                           \/ StopUnits /\ op.pc = "stop" /\ op'.pc = "lock"
                           \/ Stays
                      /\ op'.pc = "lift" => ReleasePolicy("policy_new", "target", "lift") \/ Stays
                      /\ op'.pc = "captured" =>
                           Capture \/ (\E ok \in BOOLEAN : WorkerEnds(ok)) \/ Stays
  OBVIOUS
<1>2. op \in Ops /\ Idle.pc = "idle"
  BY <1>1 DEF Typed, Idle
<1>3. /\ \A step \in Steps, dirty \in {"none", "state", "gate", "retired"} \cup Barriered :
           /\ Go(step, dirty) => op'.pc = step
           /\ \A lease \in {"none", "shared", "exclusive"} :
                Begin(step, dirty, lease) => op'.pc = step
  BY <1>1, OpMoves
<1>4. ~Beginning
  BY <1>1, <1>3 DEF Beginning, Plan, Prepare, Bind, Commit, EnableWrites, EnableAgain, Complete,
     Abort, AbortAgain, Retire, Steps
<1>5. ~Journaling
  BY <1>1, <1>3 DEF Journaling, Quiesce, SaveCaptured, PrepareTarget, VerifyTarget, SavePrepared,
     Publications, Publish, PublishCustody, SaveCommitted, SaveAborted, Steps
<1>6. \A step, next \in Steps : Lift(step, next) => op'.pc = next
  <2>1. ASSUME NEW step \in Steps, NEW next \in Steps, Lift(step, next) PROVE op'.pc = next
    <3>1. Go(next, "gate") \/ op' = IF next = "idle" THEN Idle ELSE [op EXCEPT !.pc = next]
      BY <2>1 DEF Lift
    <3> QED BY <1>2, <1>3, <3>1 DEF Ops
  <2> QED BY <2>1
<1>7. /\ Inhibit => op'.pc \in {"inhibit_retired", "reload"}
      /\ ReleasePolicy("policy_new", "target", "lift") => op'.pc = "lift"
  BY <1>3 DEF Inhibit, ReleasePolicy, Steps
<1>8. Gating => Inhibit \/ ReleasePolicy("policy_new", "target", "lift")
  BY <1>1, <1>3, <1>6 DEF Gating, InstallPolicy, ReleasePolicy, Steps
<1>9. /\ InhibitRetired => op.pc = "inhibit_retired" /\ op'.pc = "reload"
      /\ DaemonReload => op.pc = "reload" /\ op'.pc = "stop"
      /\ StopUnits => op.pc = "stop" /\ op'.pc = "lock"
      /\ Capture => op'.pc \in {"capturing", "captured"}
  BY <1>3 DEF InhibitRetired, DaemonReload, StopUnits, Capture, At, Steps
<1>10. /\ ~Import /\ ~PublishAnchors /\ ~Refuse /\ ~Kill /\ ~PowerLoss /\ ~RollBack
       /\ \A u \in Barriered : ~InstallDropIn(u)
  BY <1>1, <1>2, <1>3 DEF Import, PublishAnchors, Refuse, Kill, PowerLoss, RollBack, Boot,
     InstallDropIn, Steps
<1>11. ~Activate /\ ~LiftRetired
  <2>1. ~Activate
    BY <1>1, <1>2 DEF Activate, Free
  <2>2. LiftRetired => op'.pc = "idle"
    <3>1. LiftRetired => op' = Idle \/ Begin("idle", "retired", op.lease)
      BY DEF LiftRetired
    <3> QED BY <1>2, <3>1 DEF Begin
  <2> QED BY <1>1, <2>1, <2>2
<1>12. \A ok \in BOOLEAN : WorkerEnds(ok) => op'.pc = "captured"
  <2>1. ASSUME NEW ok \in BOOLEAN, WorkerEnds(ok) PROVE op'.pc = "captured"
    <3>1. op' = Idle \/ op' = [op EXCEPT !.pc = IF @ = "capturing" THEN "captured" ELSE "verify"]
      BY <2>1 DEF WorkerEnds
    <3> QED BY <1>1, <1>2, <3>1 DEF Ops
  <2> QED BY <2>1
<1>13. Flush \/ Beside \/ UNCHANGED vars => Stays
  <2>1. /\ Flush => op'.pc = op.pc
        /\ Beside \/ UNCHANGED vars => op' = op
    BY <1>2
       DEF Flush, Ops, Idle, Beside, StartUnit, StopUnit, Write, Certify, Expire, GiveUp, vars
  <2> QED BY <2>1 DEF Stays
<1> QED BY <1>1, <1>4, <1>5, <1>7, <1>8, <1>9, <1>10, <1>11, <1>12, <1>13, Kinds

\* The marker and a loaded drop-in keep a unit from starting.
LEMMA CannotStart ==
  ASSUME NEW u, u \in loaded, gate.now.marker PROVE ~StartUnit(u)
BY DEF StartUnit, StartupUnit

\* How the barrier's directory moves, and where each step of it stands.
LEMMA GateMoves ==
  ASSUME ~undone', Typed, Commands, Flushed, [Next]_vars
  PROVE  \/ Gates' \subseteq Gates
         \/ /\ Gates' \subseteq Gates \cup {gate'.now} /\ States = {state.now}
            /\ \/ /\ InstallPolicy /\ Phase \in Preparable \ {"planned"}
                  /\ gate'.now.policy = "source" /\ gate'.now.marker = gate.now.marker
               \/ /\ Inhibit /\ gate'.now.marker = TRUE /\ gate'.now.policy = gate.now.policy
               \/ /\ op'.pc = "lift" /\ Phase = "write-enabled"
                  /\ gate'.now.policy = "target" /\ gate'.now.marker = gate.now.marker
               \/ /\ Phase = "aborted" /\ gate'.now.policy = "source"
                  /\ gate'.now.marker = gate.now.marker
               \/ /\ op.pc = "lift" /\ Phase = "write-enabled"
                  /\ gate'.now.policy = gate.now.policy /\ gate'.now.marker = FALSE
               \/ /\ Phase = "aborted"
                  /\ gate'.now.policy = gate.now.policy /\ gate'.now.marker = FALSE
<1>1. gate.now \in GateImages
  BY DEF Typed, Directory
<1>2. Belongs(op.pc, Phase)
  BY DEF Commands, Phased
<1>3. CASE gate' = gate \/ Flush \/ PowerLoss
  <2>1. Gates' \subseteq Gates
    BY <1>3, StandingShrinks
  <2> QED BY <2>1
<1>4. ASSUME NEW g \in GateImages, gate' = Changed(gate, g)
      PROVE  Gates' \subseteq Gates \cup {gate'.now} /\ gate'.now = g
  <2>1. gate'.now = g /\ gate'.may = gate.may \cup {gate'.now}
    BY <1>4 DEF Changed
  <2> QED BY <2>1, StandingGrows
<1>5. ASSUME op.dirty = "none" PROVE States = {state.now}
  BY <1>5 DEF Flushed
<1>6. /\ \A p \in Sides : [gate.now EXCEPT !.policy = p] \in GateImages
      /\ \A p \in Sides : /\ [gate.now EXCEPT !.policy = p].policy = p
                          /\ [gate.now EXCEPT !.policy = p].marker = gate.now.marker
      /\ \A m \in BOOLEAN : [gate.now EXCEPT !.marker = m] \in GateImages
      /\ \A m \in BOOLEAN : /\ [gate.now EXCEPT !.marker = m].policy = gate.now.policy
                            /\ [gate.now EXCEPT !.marker = m].marker = m
      /\ Sides = {"source", "target"}
  BY <1>1 DEF GateImages, Policies, Sides
<1>7. CASE InstallPolicy
  <2>1. gate' = Changed(gate, [gate.now EXCEPT !.policy = "source"]) /\ At("policy")
    BY <1>7 DEF InstallPolicy
  <2>2. Phase \in Preparable \ {"planned"}
    BY <1>2, <2>1 DEF At, Belongs, Installing
  <2> QED BY <1>4, <1>5, <1>6, <1>7, <2>1, <2>2 DEF At
<1>8. CASE Inhibit
  <2>1. gate' = Changed(gate, [gate.now EXCEPT !.marker = TRUE]) /\ At("drop_ins")
    BY <1>8 DEF Inhibit
  <2> QED BY <1>4, <1>5, <1>6, <1>8, <2>1 DEF At
<1>9. CASE ReleasePolicy("policy_new", "target", "lift")
  <2>1. /\ gate' = Changed(gate, [gate.now EXCEPT !.policy = "target"]) /\ At("policy_new")
        /\ Go("lift", "gate")
    BY <1>9 DEF ReleasePolicy
  <2>2. Phase = "write-enabled" /\ op'.pc = "lift"
    BY <1>2, <2>1, OpMoves DEF At, Belongs, Releasing, Steps
  <2> QED BY <1>4, <1>5, <1>6, <2>1, <2>2 DEF At
<1>10. CASE ReleasePolicy("policy_old", "source", "lift_old")
  <2>1. gate' = Changed(gate, [gate.now EXCEPT !.policy = "source"]) /\ At("policy_old")
    BY <1>10 DEF ReleasePolicy
  <2>2. Phase = "aborted"
    BY <1>2, <2>1 DEF At, Belongs, Returning
  <2> QED BY <1>4, <1>5, <1>6, <2>1, <2>2 DEF At
<1>11. CASE Lift("lift", "idle")
  <2>1. gate' = gate \/ gate' = Changed(gate, [gate.now EXCEPT !.marker = FALSE])
    BY <1>11 DEF Lift
  <2>2. Phase = "write-enabled" /\ op.pc = "lift" /\ op.dirty = "none"
    BY <1>2, <1>11 DEF Lift, At, Belongs, Releasing
  <2> QED BY <1>3, <1>4, <1>5, <1>6, <2>1, <2>2
<1>12. CASE Lift("lift_old", "lift_retired") \/ Lift("lift_old", "idle")
  <2>1. gate' = gate \/ gate' = Changed(gate, [gate.now EXCEPT !.marker = FALSE])
    BY <1>12 DEF Lift
  <2>2. Phase = "aborted" /\ op.dirty = "none"
    BY <1>2, <1>12 DEF Lift, At, Belongs, Returning
  <2> QED BY <1>3, <1>4, <1>5, <1>6, <2>1, <2>2
<1> QED BY <1>3, <1>7, <1>8, <1>9, <1>10, <1>11, <1>12, Frame DEF Gating

\* The barrier stands as long as the journal is held.
LEMMA BarrierNext ==
  ~undone' /\ Typed /\ Commands /\ Flushed /\ Barrier /\ [Next]_vars => Barrier'
<1>1. SUFFICES ASSUME ~undone', Typed, Commands, Flushed, Barrier, [Next]_vars
               PROVE  Barrier'
  OBVIOUS
<1>2. /\ \A u \in loaded' : Dropped(u)'
      /\ \A u \in Barriered : Dropped(u) /\ u \in loaded => u \in loaded'
  BY <1>1, LoadedMoves
<1>3. \A u \in Barriered : Dropped(u) => Dropped(u)' /\ dropIn'[u].now = TRUE
  BY <1>1, DropInStays
<1>4. /\ loaded \subseteq Barriered /\ up \subseteq Barriered
      /\ gate.now \in GateImages /\ gate.now \in Gates
      /\ dropIn \in [Barriered -> Directory(BOOLEAN)]
      /\ \A u \in Barriered : u \notin {"none", "state", "gate", "retired"}
  BY <1>1, Stand, TransitionAssumption DEF Typed, Directory, Barriered
<1>5. \/ up' = up \/ up' = {} \/ (\E u \in Barriered : up' = up \ {u})
      \/ \E u \in Barriered : StartUnit(u)
  <2>1. StopUnits => up' = {}
    BY <1>4 DEF StopUnits
  <2>2. RollBack \/ PowerLoss => up' = {}
    BY DEF RollBack, PowerLoss, Boot
  <2>3. \A u \in Barriered : StopUnit(u) => up' = up \ {u}
    BY DEF StopUnit
  <2> QED BY <1>1, <2>1, <2>2, <2>3, Frame
<1>6. op'.pc \in {"inhibit_retired", "reload", "stop", "lock"} =>
        gate'.now.marker /\ \A u \in Barriered : Dropped(u)'
  <2>1. SUFFICES ASSUME op'.pc \in {"inhibit_retired", "reload", "stop", "lock"}
                 PROVE  gate'.now.marker /\ \A u \in Barriered : Dropped(u)'
    OBVIOUS
  <2>2. CASE Inhibit
    <3>1. /\ op.dirty = "none" /\ \A u \in Barriered : dropIn[u].now
          /\ gate' = Changed(gate, [gate.now EXCEPT !.marker = TRUE])
      BY <2>2 DEF Inhibit, At
    <3>2. gate'.now.marker
      BY <1>4, <3>1 DEF Changed, GateImages
    <3>3. \A u \in Barriered : dropIn[u].now = TRUE /\ DropIns(u) = {dropIn[u].now}
      BY <1>1, <1>4, <3>1 DEF Flushed, Directory
    <3>4. \A u \in Barriered : Dropped(u)
      BY <3>3 DEF Dropped
    <3> QED BY <1>3, <3>2, <3>4
  <2>3. CASE op.pc \in {"inhibit_retired", "reload", "stop", "lock"}
    <3>1. gate.now.marker /\ \A u \in Barriered : Dropped(u)
      BY <1>1, <2>3 DEF Barrier
    <3>2. CASE Inhibit
      BY <2>2, <3>2
    <3>3. CASE ~Inhibit
      <4>1. gate'.now = gate.now
        <5>1. InhibitRetired \/ DaemonReload \/ StopUnits \/ Beside \/ UNCHANGED vars => gate' = gate
          BY
             DEF InhibitRetired, DaemonReload, StopUnits, Beside, StartUnit, StopUnit, Write,
                 Certify,
             Expire, GiveUp, vars, files
        <5>2. Flush => gate'.now = gate.now
          BY DEF Flush, Synced, Settled
        <5> QED BY <1>1, <2>1, <3>3, <5>1, <5>2, Arrivals DEF Stays
      <4> QED BY <1>3, <3>1, <4>1
    <3> QED BY <3>2, <3>3
  <2> QED BY <1>1, <2>1, <2>2, <2>3, Arrivals DEF Stays
<1>7. op'.pc \in {"stop", "lock"} => loaded' = Barriered
  <2>1. SUFFICES ASSUME op'.pc \in {"stop", "lock"} PROVE loaded' = Barriered
    OBVIOUS
  <2>2. Inhibit => op'.pc \notin {"stop", "lock"}
    BY <1>1, OpMoves DEF Inhibit, Steps
  <2>3. CASE DaemonReload /\ op.pc = "reload"
    <3>1. \A u \in Barriered : dropIn'[u].now = TRUE
      BY <1>1, <1>3, <2>3 DEF Barrier
    <3>2. loaded' = {u \in Barriered : dropIn'[u].now}
      BY <2>3 DEF DaemonReload, Barriered, files
    <3> QED BY <3>1, <3>2
  <2>4. CASE /\ (StopUnits \/ Flush \/ Beside \/ UNCHANGED vars)
             /\ op.pc \in {"stop", "lock"}
    <3>1. loaded' = loaded
      BY <2>4 DEF StopUnits, Flush, Beside, StartUnit, StopUnit, Write, Certify, Expire, GiveUp,
         vars, host
    <3> QED BY <1>1, <2>4, <3>1 DEF Barrier
  <2> QED BY <1>1, <2>1, <2>2, <2>3, <2>4, Arrivals DEF Stays
<1>8. op'.pc = "lock" => up' = {}
  <2>1. SUFFICES ASSUME op'.pc = "lock" PROVE up' = {}
    OBVIOUS
  <2>2. Inhibit => op'.pc # "lock"
    BY <1>1, OpMoves DEF Inhibit, Steps
  <2>3. CASE StopUnits
    BY <1>4, <2>3 DEF StopUnits
  <2>4. CASE (Flush \/ Beside \/ UNCHANGED vars) /\ op.pc = "lock"
    <3>1. loaded = Barriered /\ up = {} /\ gate.now.marker
      BY <1>1, <2>4 DEF Barrier
    <3>2. \A u \in Barriered : ~StartUnit(u)
      BY <3>1, CannotStart
    <3> QED BY <1>5, <3>1, <3>2
  <2> QED BY <1>1, <2>1, <2>2, <2>3, <2>4, Arrivals DEF Stays
<1>9. ASSUME SomeHeld' PROVE Barred' /\ up' = {}
  <2>1. Barred /\ up = {}
    <3>1. CASE SomeHeld
      BY <1>1, <3>1 DEF Barrier
    <3>2. CASE Quiesce
      <4>1. op.pc = "lock" /\ op.dirty = "none"
        BY <3>2 DEF Quiesce, At
      <4>2. gate.now.marker /\ loaded = Barriered /\ up = {} /\ \A u \in Barriered : Dropped(u)
        BY <1>1, <4>1 DEF Barrier
      <4>3. Gates = {gate.now}
        BY <1>1, <4>1 DEF Flushed
      <4> QED BY <4>2, <4>3 DEF Barred
    <3> QED BY <1>1, <1>9, <3>1, <3>2, CourseOfWriters
  <2>2. \A u \in Barriered : Dropped(u)' /\ u \in loaded'
    BY <1>2, <1>3, <2>1 DEF Barred
  <2>3. up' = {}
    <3>1. \A u \in Barriered : ~StartUnit(u)
      BY <1>4, <2>1, CannotStart DEF Barred
    <3> QED BY <1>5, <2>1, <3>1
  <2>4. \A g \in Gates : g.marker
    BY <2>1 DEF Barred
  <2>5. ASSUME gate'.now.marker = FALSE, States = {state.now}, Phase \in {"write-enabled", "aborted"}
        PROVE  FALSE
    <3>1. ~SomeHeld /\ ~Quiesce
      <4>1. ~SomeHeld
        BY <2>5 DEF SomeHeld, Held, HeldPhases, Phase, Journal
      <4>2. Quiesce => Phase \in Preparable
        BY <1>1 DEF Quiesce, At, Commands, Phased, Belongs, Installing
      <4> QED BY <2>5, <4>1, <4>2 DEF Preparable
    <3> QED BY <1>1, <1>9, <3>1, CourseOfWriters
  <2>6. \A g \in Gates' : g.marker
    <3>1. CASE Gates' \subseteq Gates
      BY <2>4, <3>1
    <3>2. CASE Gates' \subseteq Gates \cup {gate'.now} /\ gate'.now.marker
      BY <2>4, <3>2
    <3> QED BY <1>1, <1>4, <2>4, <2>5, <3>1, <3>2, GateMoves
  <2> QED BY <2>2, <2>3, <2>6 DEF Barred
<1> QED BY <1>2, <1>6, <1>7, <1>8, <1>9 DEF Barrier

-----------------------------------------------------------------------------
(* The generations, and who runs in them.                                   *)

\* A bound generation was activated behind every drop-in; only a released one is
\* admitted by the start policy, and the source's policy never outlives the
\* point of no return without a marker.
Generations ==
  /\ "old" \in installed
  /\ gen = "new" => "new" \in installed
  /\ "new" \in installed => \A u \in Barriered : Dropped(u) /\ u \in loaded
  /\ SomeReleased => "new" \in installed
  /\ (\E g \in Gates : g.policy = "target") => AllReleased
  /\ SomeReleased => \A g \in Gates : g.marker \/ g.policy = "target"
  /\ op.pc = "lift" => gate.now.policy = "target"

\* Who runs in the new generation are its own units, released; none runs in the
\* old one once writers may have been released to the target.
Running ==
  /\ gen = "new" /\ up # {} => up \subseteq Units /\ AllReleased
  /\ gen = "old" /\ SomeReleased => up = {}

\* The start policy and the markers follow the point of no return.
LEMMA GenerationsNext ==
  ~undone' /\ Typed /\ Commands /\ Flushed /\ Barrier /\ Generations /\ [Next]_vars
    => Generations'
<1>1. SUFFICES ASSUME ~undone', Typed, Commands, Flushed, Barrier, Generations, [Next]_vars
               PROVE  Generations'
  OBVIOUS
<1>2. /\ state.now \in States /\ gate.now \in Gates /\ gate.now \in GateImages
      /\ op \in Ops
  BY <1>1, Stand DEF Typed, Directory
<1>3. /\ SomeReleased' => SomeReleased \/ (EnableWrites /\ Phase = "committed")
      /\ AllReleased => AllReleased'
  BY <1>1, CourseOfWriters
<1>4. /\ \A u \in Barriered : Dropped(u) /\ u \in loaded => u \in loaded'
      /\ \A u \in Barriered : Dropped(u) => Dropped(u)'
  BY <1>1, LoadedMoves, DropInStays
<1>5. installed' = installed \/ Activate
  BY <1>1, Frame
<1>6. "old" \in installed' /\ ("new" \in installed => "new" \in installed')
  BY <1>1, <1>5 DEF Activate, Generations
<1>7. gen' = "new" => "new" \in installed'
  <2>1. CASE gen' = gen
    BY <1>1, <1>6, <2>1 DEF Generations
  <2>2. CASE Activate
    BY <2>2 DEF Activate
  <2>3. CASE RollBack
    BY <2>3 DEF RollBack, Boot
  <2>4. CASE PowerLoss
    BY <1>6, <2>4 DEF PowerLoss, Boot
  <2> QED BY <1>1, <2>1, <2>2, <2>3, <2>4, Frame
<1>8. "new" \in installed' => \A u \in Barriered : Dropped(u)' /\ u \in loaded'
  <2>1. CASE "new" \in installed
    BY <1>1, <1>4, <2>1 DEF Generations
  <2>2. CASE Activate
    <3>1. \A u \in Barriered : u \in loaded
      BY <2>2 DEF Activate, VerifyPrepared, Barriers
    <3>2. \A u \in Barriered : Dropped(u)
      BY <1>1, <3>1 DEF Barrier
    <3> QED BY <1>4, <3>1, <3>2
  <2> QED BY <1>5, <2>1, <2>2
<1>9. SomeReleased' => "new" \in installed'
  BY <1>1, <1>3, <1>6 DEF Generations, EnableWrites, BoundGenerationRuns
<1>10. States = {state.now} /\ Released(state.now) => AllReleased
  BY DEF AllReleased
<1>11. States = {state.now} /\ SomeReleased => Released(state.now)
  BY DEF SomeReleased
<1>12. Released(state.now) => Phase \notin Preparable \cup {"aborted"}
  BY DEF Released, Phase, Journal, Preparable
<1>13. ASSUME NEW g \in Gates', g.policy = "target" PROVE AllReleased'
  <2>1. CASE g \in Gates
    BY <1>1, <1>3, <1>13, <2>1 DEF Generations
  <2>2. CASE g = gate'.now /\ gate'.now.policy = gate.now.policy
    BY <1>1, <1>2, <1>3, <1>13, <2>2 DEF Generations
  <2>3. CASE Phase = "write-enabled" /\ States = {state.now}
    BY <1>3, <1>10, <2>3 DEF Released, Phase, Journal
  <2> QED BY <1>1, <1>13, <2>1, <2>2, <2>3, GateMoves
<1>14. ASSUME SomeReleased', NEW g \in Gates' PROVE g.marker \/ g.policy = "target"
  <2>1. CASE EnableWrites /\ Phase = "committed"
    <3>1. SomeHeld
      BY <1>2, <2>1 DEF SomeHeld, Held, HeldPhases, Phase, Journal
    <3>2. gate' = gate /\ left' = left
      BY <2>1 DEF EnableWrites, bounds
    <3>3. Gates' = Gates
      BY <3>2 DEF Gates
    <3> QED BY <1>1, <1>14, <3>1, <3>3 DEF Barrier, Barred
  <2>2. CASE SomeReleased
    <3>1. \A i \in Gates : i.marker \/ i.policy = "target"
      BY <1>1, <2>2 DEF Generations
    <3>2. CASE g \in Gates
      BY <3>1, <3>2
    <3>3. ASSUME g = gate'.now, States = {state.now}
          PROVE  Phase \notin Preparable \cup {"aborted"}
      BY <1>11, <1>12, <2>2, <3>3
    <3>4. CASE g = gate'.now /\ op.pc = "lift" /\ gate'.now.policy = gate.now.policy
      BY <1>1, <3>4 DEF Generations
    <3>5. CASE gate'.now.marker = TRUE /\ g = gate'.now
      BY <3>5
    <3>6. CASE gate'.now.policy = "target" /\ g = gate'.now
      BY <3>6
    <3> QED BY <1>1, <1>14, <3>2, <3>3, <3>4, <3>5, <3>6, GateMoves
  <2> QED BY <1>3, <1>14, <2>1, <2>2
<1>15. op'.pc = "lift" => gate'.now.policy = "target"
  <2>1. SUFFICES ASSUME op'.pc = "lift" PROVE gate'.now.policy = "target"
    OBVIOUS
  <2>2. CASE ReleasePolicy("policy_new", "target", "lift")
    BY <1>2, <2>2 DEF ReleasePolicy, Changed, GateImages
  <2>3. CASE (Flush \/ Beside \/ UNCHANGED vars) /\ op.pc = "lift"
    <3>1. gate'.now = gate.now
      BY <2>3
         DEF Flush, Synced, Settled, Beside, StartUnit, StopUnit, Write, Certify, Expire, GiveUp,
         vars, files
    <3> QED BY <1>1, <2>3, <3>1 DEF Generations
  <2> QED BY <1>1, <2>1, <2>2, <2>3, Arrivals DEF Stays
<1> QED BY <1>6, <1>7, <1>8, <1>9, <1>13, <1>14, <1>15 DEF Generations

\* Who runs is admitted by the start policy.
LEMMA RunningNext ==
  ~undone' /\ Typed /\ Commands /\ Flushed /\ Barrier /\ Generations /\ Running /\ [Next]_vars
    => Running'
<1>1. SUFFICES ASSUME ~undone', Typed, Commands, Flushed, Barrier, Generations, Running,
                      [Next]_vars
               PROVE  Running'
  OBVIOUS
<1>2. state.now \in States /\ gate.now \in Gates /\ up \subseteq Barriered
      /\ gen \in {"old", "new"}
  BY <1>1, Stand DEF Typed
<1>3. /\ SomeReleased' => SomeReleased \/ (EnableWrites /\ Phase = "committed")
      /\ AllReleased => AllReleased'
  BY <1>1, CourseOfWriters
<1>4. CASE RollBack \/ PowerLoss
  BY <1>4 DEF RollBack, PowerLoss, Boot, Running
<1>5. CASE Activate
  <2>1. SomeHeld
    BY <1>2, <1>5 DEF Activate, Committable, SomeHeld, Held, HeldPhases, Phase, Journal
  <2>2. up' = {}
    BY <1>1, <1>5, <2>1 DEF Activate, Barrier
  <2> QED BY <2>2 DEF Running
<1>6. ASSUME gen' = gen, up' \subseteq up PROVE Running'
  <2>1. ~(gen = "old" /\ EnableWrites)
    BY DEF EnableWrites, BoundGenerationRuns
  <2> QED BY <1>1, <1>2, <1>3, <1>6, <2>1 DEF Running
<1>7. StopUnits => up' \subseteq up
  BY DEF StopUnits
<1>8. ASSUME NEW u \in Barriered, StopUnit(u) PROVE Running'
  BY <1>6, <1>8 DEF StopUnit
<1>9. ASSUME NEW u \in Barriered, StartUnit(u) PROVE Running'
  <2>1. /\ up' = up \cup {u} /\ gen' = gen /\ state' = state /\ left' = left
        /\ u \in loaded => StartupUnit(u)
    BY <1>9 DEF StartUnit, files, bounds
  <2>2. SomeReleased' = SomeReleased
    BY <2>1 DEF SomeReleased, States
  <2>3. ASSUME gen = "new" PROVE up \cup {u} \subseteq Units /\ AllReleased
    <3>1. u \in loaded
      BY <1>1, <2>3 DEF Generations
    <3>2. gate.now.policy = "target" /\ u \in Units
      BY <2>1, <2>3, <3>1 DEF StartupUnit
    <3>3. AllReleased
      BY <1>1, <1>2, <3>2 DEF Generations
    <3> QED BY <1>1, <2>3, <3>2, <3>3 DEF Running
  <2>4. ASSUME gen = "old", SomeReleased PROVE FALSE
    <3>1. u \in loaded
      BY <1>1, <2>4 DEF Generations
    <3>2. gate.now.policy = "source" /\ ~gate.now.marker
      BY <2>1, <2>4, <3>1 DEF StartupUnit
    <3> QED BY <1>1, <1>2, <2>4, <3>2 DEF Generations
  <2> QED BY <1>2, <1>3, <2>1, <2>2, <2>3, <2>4 DEF Running
<1>10. gen' = gen \/ Activate \/ RollBack \/ PowerLoss
  BY <1>1, Frame
<1> QED BY <1>1, <1>4, <1>5, <1>6, <1>7, <1>8, <1>9, <1>10, Frame

-----------------------------------------------------------------------------
(* What the backends hold.                                                  *)

\* Until the release the source holds every acknowledged write, and the capture
\* of a held run is the source; from then on the target holds every one.
Holds(s) ==
  /\ ~Released(s) => acked \subseteq content["source"]
  /\ Released(s) => content["target"] # Junk /\ acked \subseteq content["target"]
  /\ s.journal.phase \in {"planned", "quiescing"} => backup[s.journal.run] = Junk
  /\ s.journal.phase = "quiesced" => backup[s.journal.run] \in {Junk, content["source"]}
  /\ s.journal.phase \in HeldPhases \ {"quiesced"} => backup[s.journal.run] = content["source"]
Backends ==
  /\ \A s \in States : Holds(s)
  /\ op.pc = "captured" => Captured = content["source"]
  /\ content["target"] \in Whole

Safety == Flushed /\ Barrier /\ Generations /\ Running /\ Backends

\* Nothing changes the writes, the backends or the captures but a write, the end
\* of a worker and a restart that tears an import.
LEMMA JournalHolds ==
  ASSUME ~undone', Typed, Commands, Safety, [Next]_vars,
         UNCHANGED <<acked, content, backup>>
  PROVE  \A s \in States' : Holds(s)'
<1>1. Course
  BY JournalCourse
<1>2. state.now \in States /\ Holds(state.now)
  BY Stand DEF Safety, Backends
<1>3. \A s : Holds(s) => Holds(s)'
  BY DEF Holds, Released
<1>4. CASE States' \subseteq States
  BY <1>3, <1>4 DEF Safety, Backends
<1>5. ASSUME States' \subseteq States \cup {state'.now}, Holds(state'.now)
      PROVE  \A s \in States' : Holds(s)'
  BY <1>3, <1>5 DEF Safety, Backends
<1>6. CASE /\ States' \subseteq States \cup {state'.now}
           /\ Advances(Phase, state'.now.journal.phase)
  <2> DEFINE p == Phase
             q == state'.now.journal.phase
  <2>1. /\ p = state.now.journal.phase
        /\ Journal.run = state.now.journal.run
    BY DEF Phase, Journal
  <2>2. CASE p = "committed" /\ q = "write-enabled" /\ EnableWrites
    <3>1. content["target"] = content["source"]
      <4>1. content["target"] = Captured
        BY <2>2 DEF EnableWrites, VerifyPrepared, TargetEqualsCapture
      <4>2. Captured = content["source"]
        BY <1>2, <2>1, <2>2 DEF Holds, HeldPhases, Captured
      <4> QED BY <4>1, <4>2
    <3>2. content["source"] # Junk
      <4>1. \A c \in SUBSET (1..MaxWrites) : c # Junk
        BY TransitionAssumption DEF Junk
      <4> QED BY <4>1 DEF Typed
    <3>3. acked \subseteq content["source"]
      BY <1>2, <2>1, <2>2 DEF Holds, Released
    <3> QED BY <1>5, <1>6, <2>2, <3>1, <3>2, <3>3 DEF Holds, Released, HeldPhases
  <2>3. CASE p = "quiesced" /\ q = "captured" /\ op.pc = "captured"
             /\ state'.now.journal.run = Journal.run
    <3>1. backup[state'.now.journal.run] = content["source"]
      BY <2>3 DEF Safety, Backends, Captured
    <3>2. acked \subseteq content["source"]
      BY <1>2, <2>1, <2>3 DEF Holds, Released
    <3> QED BY <1>5, <1>6, <2>3, <3>1, <3>2 DEF Holds, Released, HeldPhases
  <2>4. CASE /\ p = "none" /\ q = "planned" /\ state.now.identity = "source"
             /\ state'.now.journal.run = runs + 1 /\ runs + 1 \in Runs
    <3>1. backup[state'.now.journal.run] = Junk
      BY <2>4 DEF Commands, Numbered, Typed
    <3>2. acked \subseteq content["source"]
      BY <1>2, <2>1, <2>4 DEF Holds, Released
    <3> QED BY <1>5, <1>6, <2>4, <3>1, <3>2 DEF Holds, Released, HeldPhases
  <2>5. CASE \/ p = "complete" /\ q = "none" /\ state'.now.identity = "target"
             \/ p = "aborted" /\ q = "none" /\ state'.now.identity = "source"
    BY <1>2, <1>5, <1>6, <2>1, <2>5 DEF Holds, Released, HeldPhases
  <2>6. CASE /\ state'.now.journal.run = Journal.run
             /\ \/ p = q /\ p \in Preparable \cup {"committing", "aborting"}
                \/ p = "planned" /\ q = "quiescing"
                \/ p = "quiescing" /\ q = "quiesced"
                \/ p \in {"captured", "importing", "imported", "prepared"}
                     /\ q \in {"importing", "imported", "prepared"}
                \/ p = "prepared" /\ q = "committing"
                \/ p = "committing" /\ q = "committed"
                \/ p \in {"write-enabled", "complete"} /\ q = "complete"
                \/ p \in {"committing", "committed"} /\ q = "aborting"
                \/ p \in Preparable \cup {"aborting"} /\ q = "aborted"
    <3>1. Holds(state'.now)
      BY <1>2, <2>1, <2>6 DEF Holds, Released, HeldPhases, Preparable
    <3> QED BY <1>5, <1>6, <3>1
  <2> HIDE DEF p, q
  <2>7. Advances(p, q)
    BY <1>6 DEF p, q
  <2> QED BY <2>2, <2>3, <2>4, <2>5, <2>6, <2>7 DEF Advances
<1> QED BY <1>1, <1>4, <1>6 DEF Course

\* Who writes where.
LEMMA WriteSide ==
  ASSUME Typed, Commands, Safety, NEW u \in Barriered, u \in up
  PROVE  /\ ~SomeHeld
         /\ gen = "new" => Side(u) = "target" /\ AllReleased
         /\ gen = "old" => Side(u) = "source" /\ ~SomeReleased
BY DEF Safety, Barrier, Running, Side

\* While a worker runs, its journal is the only image: quiesced for a capture,
\* importing for an import.
LEMMA WorkerImage ==
  ASSUME Typed, Commands, Safety, worker # NoWorker
  PROVE  /\ States = {state.now} /\ ~Released(state.now) /\ worker.run = Journal.run
         /\ \/ worker.task = "capture" /\ Phase = "quiesced"
            \/ worker.task = "import" /\ Phase = "importing"
BY DEF Commands, Working, Safety, Flushed, Released, Phase, Journal

\* The backends follow the journal.
LEMMA BackendsNext ==
  ~undone' /\ Typed /\ Commands /\ Safety /\ [Next]_vars => Backends'
<1>1. SUFFICES ASSUME ~undone', Typed, Commands, Safety, [Next]_vars PROVE Backends'
  OBVIOUS
<1>2. /\ \A s \in States : Holds(s)
      /\ op.pc = "captured" => Captured = content["source"]
      /\ content["target"] \in Whole
  BY <1>1 DEF Safety, Backends
<1>3. /\ content \in [Sides -> SUBSET (0..MaxWrites)] /\ content["source"] \subseteq 1..MaxWrites
      /\ Sides = {"source", "target"} /\ state.now \in States /\ op \in Ops
      /\ backup \in [Runs -> Whole]
      /\ \A c \in SUBSET (1..MaxWrites) : c \in Whole /\ c # Junk
  BY <1>1, Stand DEF Typed, Sides, Whole, Junk
<1>4. Belongs(op.pc, Phase)
  BY <1>1 DEF Commands, Phased
<1>5. ASSUME NEW u \in Barriered, Write(u) PROVE Backends'
  <2> DEFINE w == Cardinality(acked) + 1
  <2>1. /\ acked' = acked \cup {w} /\ u \in up /\ w \in 1..MaxWrites
        /\ content' = [content EXCEPT ![Side(u)] = @ \cup {w}]
        /\ UNCHANGED <<state, backup, op>> /\ States' = States
    BY <1>1, <1>5, NextWrite DEF Write, files, bounds, States
  <2> HIDE DEF w
  <2>2. ~SomeHeld /\ op.pc # "captured"
    <3>1. ~SomeHeld
      BY <1>1, <2>1, WriteSide
    <3>2. op.pc = "captured" => Held(state.now)
      BY <1>4 DEF Belongs, Capturing, Held, HeldPhases, Phase, Journal
    <3> QED BY <1>3, <3>1, <3>2 DEF SomeHeld
  <2>3. CASE gen = "new"
    <3>1. Side(u) = "target" /\ AllReleased
      BY <1>1, <2>1, <2>3, WriteSide
    <3>2. content'["target"] = content["target"] \cup {w}
      BY <1>3, <2>1, <3>1
    <3>3. content["target"] \in SUBSET (1..MaxWrites)
      BY <1>2, <1>3, <3>1 DEF AllReleased, Holds, Whole
    <3>4. content'["target"] \in Whole /\ content'["target"] # Junk
      BY <1>3, <2>1, <3>2, <3>3
    <3>5. \A s \in States : acked' \subseteq content'["target"]
      BY <1>2, <2>1, <3>1, <3>2 DEF AllReleased, Holds
    <3>6. \A s \in States' : Holds(s)'
      BY <2>1, <3>1, <3>4, <3>5 DEF AllReleased, Holds, Released, HeldPhases
    <3> QED BY <2>1, <2>2, <3>4, <3>6 DEF Backends
  <2>4. CASE gen = "old"
    <3>1. Side(u) = "source" /\ ~SomeReleased
      BY <1>1, <2>1, <2>4, WriteSide
    <3>2. content'["source"] = content["source"] \cup {w} /\ content'["target"] = content["target"]
      BY <1>3, <2>1, <3>1
    <3>3. \A s \in States' : Holds(s)'
      BY <1>2, <2>1, <2>2, <3>1, <3>2 DEF SomeReleased, SomeHeld, Held, HeldPhases,
         Holds, Released
    <3> QED BY <1>2, <2>1, <2>2, <3>2, <3>3 DEF Backends
  <2> QED BY <1>1, <2>3, <2>4 DEF Typed
<1>6. ASSUME NEW ok \in BOOLEAN, WorkerEnds(ok) PROVE Backends'
  <2>1. /\ States = {state.now} /\ ~Released(state.now) /\ worker.run = Journal.run
        /\ \/ worker.task = "capture" /\ Phase = "quiesced"
           \/ worker.task = "import" /\ Phase = "importing"
    BY <1>1, <1>6, WorkerImage DEF WorkerEnds
  <2>2. worker.run \in Runs
    BY <1>1, <2>1, RunKnown DEF Commands
  <2>3. state' = state /\ acked' = acked /\ States' = States
    BY <1>6 DEF WorkerEnds, files, bounds, States
  <2>4. acked \subseteq content["source"]
    BY <1>2, <1>3, <2>1 DEF Holds
  <2>5. op' = Idle \/ (op.pc = (IF worker.task = "capture" THEN "capturing" ELSE "importing")
                        /\ op' = [op EXCEPT !.pc = IF @ = "capturing" THEN "captured" ELSE "verify"]
                        /\ ok)
    BY <1>1, <1>6, Waiting DEF WorkerEnds
  <2>6. op'.pc = "captured" => worker.task = "capture" /\ ok
    BY <1>3, <2>5 DEF Ops, Idle
  <2>7. CASE worker.task = "capture"
    <3>1. content' = content /\ backup' = IF ok THEN [backup EXCEPT ![worker.run] = content["source"]]
                                                ELSE backup
      BY <1>6, <2>7 DEF WorkerEnds
    <3>2. ok => backup'[Journal.run] = content["source"]
      BY <1>3, <2>1, <2>2, <3>1
    <3>3. Holds(state.now)'
      BY <1>2, <1>3, <2>1, <2>3, <2>4, <2>7, <3>1, <3>2
         DEF Holds, Released, HeldPhases, Phase, Journal
    <3>4. op'.pc = "captured" => Captured' = content'["source"]
      BY <2>3, <2>6, <3>1, <3>2 DEF Captured, Journal
    <3> QED BY <1>2, <2>1, <2>3, <3>1, <3>3, <3>4 DEF Backends
  <2>8. CASE worker.task = "import"
    <3>1. /\ backup' = backup /\ content'["source"] = content["source"]
          /\ content'["target"] \in {backup[worker.run], Junk}
      BY <1>3, <1>6, <2>8 DEF WorkerEnds
    <3>2. content'["target"] \in Whole
      BY <1>3, <2>2, <3>1 DEF Whole
    <3>3. Holds(state.now)'
      BY <1>2, <1>3, <2>1, <2>3, <2>8, <3>1 DEF Holds, Released, HeldPhases, Phase, Journal
    <3> QED BY <2>1, <2>3, <2>6, <2>8, <3>2, <3>3 DEF Backends
  <2> QED BY <2>1, <2>7, <2>8
<1>7. CASE (RollBack \/ PowerLoss) /\ worker.task = "import"
  <2>1. /\ States = {state.now} /\ ~Released(state.now) /\ Phase = "importing"
    BY <1>1, <1>7, WorkerImage DEF NoWorker
  <2>2. /\ acked' = acked /\ backup' = backup /\ content'["source"] = content["source"]
        /\ content'["target"] = Junk /\ op'.pc = "idle"
    <3>1. PICK g : Boot(g)
      BY <1>7 DEF RollBack, PowerLoss
    <3>2. /\ acked' = acked /\ backup' = backup /\ op' = Idle
          /\ content' = [content EXCEPT !["target"] = Junk]
      BY <1>7, <3>1 DEF Boot
    <3> QED BY <1>3, <3>2 DEF Idle
  <2>3. States' \subseteq {state.now}
    <3>1. state' = state \/ PowerLoss
      BY <1>7 DEF RollBack, files
    <3> QED BY <1>1, <2>1, <3>1, StandingShrinks
  <2>4. ASSUME NEW s \in States' PROVE Holds(s)'
    <3>1. s = state.now /\ Holds(s)
      BY <1>2, <2>1, <2>3
    <3> QED BY <2>1, <2>2, <3>1 DEF Holds, Released, HeldPhases, Phase, Journal
  <2>5. Whole' = Whole /\ Junk \in Whole
    BY DEF Whole, Junk
  <2> QED BY <2>2, <2>4, <2>5 DEF Backends
<1>8. CASE UNCHANGED <<acked, content, backup>>
  <2>1. \A s \in States' : Holds(s)'
    BY <1>1, <1>8, JournalHolds
  <2>2. op'.pc = "captured" => Captured' = content'["source"]
    <3>1. SUFFICES ASSUME op'.pc = "captured" PROVE Captured' = content'["source"]
      OBVIOUS
    <3>2. CASE Capture
      <4>1. state' = state /\ Phase = "quiesced"
        BY <1>4, <3>2 DEF Capture, At, Belongs, Capturing, files
      <4>2. Captured # Junk
        <5>1. Captured = Junk => Go("capturing", "none")
          BY <3>2 DEF Capture
        <5> QED BY <1>1, <3>1, <5>1, OpMoves DEF Steps
      <4>3. Captured \in {Junk, content["source"]}
        BY <1>2, <1>3, <4>1 DEF Holds, Captured, Phase, Journal
      <4> QED BY <1>8, <4>1, <4>2, <4>3 DEF Captured, Journal
    <3>3. CASE Stays
      <4>1. Journal' = Journal /\ op.pc = "captured"
        BY <3>1, <3>3
           DEF Stays, Flush, Synced, Settled, Beside, StartUnit, StopUnit, Write, Certify,
           Expire, GiveUp, vars, files, Journal
      <4> QED BY <1>2, <1>8, <4>1 DEF Captured
    <3>4. ASSUME NEW ok \in BOOLEAN, WorkerEnds(ok) PROVE Captured' = content'["source"]
      BY <1>6, <3>1, <3>4 DEF Backends
    <3> QED BY <1>1, <3>1, <3>2, <3>3, <3>4, Arrivals
  <2> QED BY <1>2, <1>8, <2>1, <2>2 DEF Backends
<1>9. \/ UNCHANGED <<acked, content, backup>> \/ (\E u \in Barriered : Write(u))
      \/ (\E ok \in BOOLEAN : WorkerEnds(ok))
      \/ (RollBack \/ PowerLoss) /\ worker.task = "import"
  <2>1. RollBack \/ PowerLoss => worker.task = "import" \/ content' = content
    BY DEF RollBack, PowerLoss, Boot
  <2> QED BY <1>1, <2>1, Frame
<1> QED BY <1>5, <1>6, <1>7, <1>8, <1>9

-----------------------------------------------------------------------------
(* The theorems.                                                            *)

\* A fresh host has no transition.
LEMMA InitSafety == Init => Safety
<1>1. SUFFICES ASSUME Init PROVE Safety
  OBVIOUS
<1>2. \A b : Settled(b).may = {b} /\ Settled(b).now = b
  BY DEF Settled
<1>3. /\ States = {state.now} /\ Gates = {gate.now}
      /\ \A u \in Barriered : DropIns(u) = {dropIn[u].now}
  BY <1>1, <1>2 DEF Init, Barriered, States, Gates, DropIns, Standing
<1>4. /\ Phase = "none" /\ state.now.identity = "source" /\ op.pc = "idle"
      /\ gate.now.policy = "none" /\ loaded = {} /\ up = {} /\ gen = "old" /\ installed = {"old"}
      /\ acked = {} /\ content["target"] = Junk
  BY <1>1, <1>2 DEF Init, Phase, Journal, NoJournal, Idle, Sides
<1>5. ~SomeHeld /\ ~SomeReleased
  BY <1>3, <1>4 DEF SomeHeld, SomeReleased, Held, HeldPhases, Released, Phase, Journal
<1>6. Flushed
  BY <1>3 DEF Flushed
<1>7. Barrier
  BY <1>4, <1>5 DEF Barrier
<1>8. Generations /\ Running
  BY <1>3, <1>4, <1>5 DEF Generations, Running
<1>9. Backends
  BY <1>3, <1>4, <1>5 DEF Backends, Holds, Released, HeldPhases, Phase, Journal, Whole
<1> QED BY <1>6, <1>7, <1>8, <1>9 DEF Safety

\* The inductive invariant.
Inv == Typed /\ Commands /\ Flushed /\ (undone \/ Safety)

LEMMA SafetyInductive == Spec => []Inv
<1>1. Inv /\ [Next]_vars => Inv'
  <2>1. SUFFICES ASSUME Inv, [Next]_vars PROVE Inv'
    OBVIOUS
  <2>2. (Typed /\ Commands)'
    BY <2>1, TypedNext, PhasedNext, PublishedNext, WorkingNext, NumberedNext, AuthoritiesNext
       DEF Inv, Commands
  <2>3. Flushed'
    BY <2>1, FlushedNext DEF Inv
  <2>4. ASSUME ~undone' PROVE Safety'
    <3>1. Safety /\ Typed /\ Commands
      BY <2>1, <2>4, Stand DEF Inv
    <3> QED BY <2>1, <2>3, <2>4, <3>1, BarrierNext, GenerationsNext, RunningNext, BackendsNext
            DEF Safety
  <2> QED BY <2>2, <2>3, <2>4 DEF Inv
<1>2. Init => Inv
  BY InitCommands, InitSafety DEF Inv, Safety
<1> QED BY <1>1, <1>2, PTL DEF Spec

\* No acknowledged write is lost to the application: whatever was aborted, killed
\* or rebooted, a running unit opens a backend that holds every one.
THEOREM NothingAcknowledgedIsLost == Spec => []NoWriteLost
<1>1. Inv => NoWriteLost
  <2>1. SUFFICES ASSUME Typed, Safety, NEW u \in up PROVE acked \subseteq content[Side(u)]
    BY DEF Inv, NoWriteLost
  <2>2. Holds(state.now) /\ state.now \in States /\ gen \in {"old", "new"}
    BY <2>1 DEF Typed, Safety, Backends, States, Standing
  <2>3. CASE gen = "new"
    BY <2>1, <2>2, <2>3 DEF Safety, Running, AllReleased, Holds, Side
  <2>4. CASE gen = "old"
    BY <2>1, <2>2, <2>4 DEF Safety, Running, SomeReleased, Holds, Side
  <2> QED BY <2>2, <2>3, <2>4
<1> QED BY <1>1, SafetyInductive, PTL

\* Two units never run on different backends, and from the quiesced record to the
\* release nothing runs.
THEOREM OneSideRuns == Spec => []OneSide
<1>1. Inv => OneSide
  <2>1. SUFFICES ASSUME Typed, Safety PROVE OneSide
    BY DEF Inv, OneSide
  <2>2. \A u, v \in up : Side(u) = Side(v)
    BY <2>1 DEF Safety, Running, Side
  <2>3. Phase \in HeldPhases => up = {}
    BY <2>1 DEF Typed, Safety, Barrier, SomeHeld, Held, Phase, Journal, States, Standing
  <2> QED BY <2>2, <2>3 DEF OneSide, HeldPhases
<1> QED BY <1>1, SafetyInductive, PTL

\* enable-writes persists the point of no return before it removes the marker
\* that keeps clients out, in every release that does not find the phase a killed
\* one left; the one that does is not flushed (README, "Findings").
THEOREM ReleaseIsPersisted == Spec => ReleasePersists
<1>1. Inv /\ [Next]_vars =>
        [gate.now.marker /\ ~gate'.now.marker /\ crashes' = crashes /\ Phase # "aborted" =>
           "state" \in left
             \/ AlwaysOnDisk(state, LAMBDA s : s.journal.phase = "write-enabled")]_vars
  <2>1. SUFFICES ASSUME Typed, Commands, Flushed, [Next]_vars, gate.now.marker,
                        ~gate'.now.marker, crashes' = crashes, Phase # "aborted",
                        "state" \notin left
                 PROVE  \A s \in state.may \cup {state.now} : s.journal.phase = "write-enabled"
    BY DEF AlwaysOnDisk, Inv
  <2>2. ~PowerLoss
    <3>1. crashes \in Int /\ crashes + 1 # crashes
      BY <2>1, TransitionAssumption DEF Typed
    <3>2. PowerLoss => crashes' = crashes + 1
      BY DEF PowerLoss
    <3> QED BY <2>1, <3>1, <3>2
  <2>3. Flush => gate'.now = gate.now
    BY DEF Flush, Synced, Settled
  <2>4. Gating
    BY <2>1, <2>2, <2>3, Frame
  <2>5. /\ gate.now \in GateImages
        /\ op.dirty = "none" => state.may = {state.now}
        /\ Belongs(op.pc, Phase)
    BY <2>1 DEF Typed, Directory, Flushed, Commands, Phased, States, Standing
  <2>6. /\ InstallPolicy => gate'.now.marker = gate.now.marker
        /\ Inhibit => gate'.now.marker = TRUE
        /\ \A step, policy, next : ReleasePolicy(step, policy, next) =>
             gate'.now.marker = gate.now.marker
    BY <2>5 DEF InstallPolicy, Inhibit, ReleasePolicy, Changed, GateImages
  <2>7. \A next : ~Lift("lift_old", next)
    BY <2>1, <2>5 DEF Lift, At, Belongs, Returning
  <2>8. Lift("lift", "idle")
    BY <2>1, <2>4, <2>6, <2>7 DEF Gating
  <2>9. op.dirty = "none" /\ Phase = "write-enabled"
    BY <2>5, <2>8 DEF Lift, At, Belongs, Releasing
  <2> QED BY <2>5, <2>9 DEF Phase, Journal
<1> QED BY <1>1, SafetyInductive, PTL DEF Spec, ReleasePersists
=============================================================================
