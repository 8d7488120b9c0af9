--------------------------- MODULE RolloutProofs ---------------------------
(***************************************************************************)
(* Theorems about Rollout, for every declaration of units and every bound. *)
(*                                                                         *)
(* An invocation of the coordinator runs through some forty steps and may  *)
(* be killed between any two.  Three lemmas say once what every later      *)
(* proof needs of them: Arrivals, after which steps an invocation is at a  *)
(* place; Writings, which steps write a field of the journal; Changes,     *)
(* which steps change what is outside it.  A part of the invariant is then *)
(* only examined at the few steps that can disturb it.                     *)
(*                                                                         *)
(* The invariant says of every place of an invocation what the journal and *)
(* the machine are like there: Course and Phased, the verb and the phase;  *)
(* Undoing and Uninstalled, how far an unwinding is; Owned and Windowed,   *)
(* whose fence it is and which window the evidence is of; Shut and Known,  *)
(* when it is closed and which adoption it guards; Slotted, Opened and     *)
(* Inhibited, what is held and where it is recorded; Recorded, Returning   *)
(* and Skipping, which units are still to be started.                      *)
(***************************************************************************)
EXTENDS Rollout, TLAPS

-----------------------------------------------------------------------------
(* The invariant.                                                           *)

\* A journal of a finished rollout: its holdings are given back.
Finished == journal.phase \in {"thawed", "aborted"}

\* Receivers an earlier step left pending are returned before the check; the
\* unwinding begins after it.
Resuming == op.pc \in {"return", "started"} /\ op.list = "resume"
\* An unwinding in progress.
Reopening == Unwinding /\ op.pc # "check" /\ ~Resuming

\* Where an invocation returns what an earlier one left stopped.
Resume == {"check", "return", "started"}
\* The way to the fence, taken by `fence`, by a resumed one and by an unwinding.
Acquire == {"inhibit", "startup_token", "dependents", "primary_stop",
            "opening", "open", "fence_token", "release", "start"}
\* An unwinding until it saves that the primary is back.
Before == Acquire \cup {"intent", "boundary", "restart_only", "skipped", "close", "live", "reopened"}
\* An unwinding from there on.
After == {"return", "started", "lift", "lifted", "retire", "final"}
\* A preparation or an import between its check and its outcome.
Waiting == {"receivers", "receiver_stop", "launch", "await", "ready", "stopped"}
\* An import between its check and its wait.
Staging == {"aside", "receipt", "stage"}

\* The steps of each verb, in the order the code takes them.
Course ==
  /\ op.act = "none" <=> op.pc = "idle"
  /\ op.act = "fence" =>
       op.pc \in Resume \cup Acquire \cup {"intent", "pause", "publishers", "publisher_stop",
                                           "clients", "client_stop", "verify"}
  /\ op.act = "prepare" => op.pc \in Resume \cup Waiting \cup {"recover"}
  /\ op.act = "import" => op.pc \in Resume \cup Waiting \cup Staging \cup {"recover"}
  /\ op.act = "adopt" => op.pc \in Resume
  /\ op.act = "thaw" => op.pc \in {"check", "unwind"} \cup Before \cup After
  /\ op.act = "abort" => op.pc \in {"unwind"} \cup Before \cup After /\ ~Resuming
  /\ op.boundary = "closed" =>
       /\ Unwinding /\ ~Resuming
       /\ op.pc \in {"dependents", "primary_stop", "close", "release", "start", "live",
                     "reopened"} \cup After
  /\ op.pc = "close" => op.boundary = "closed"
  /\ op.act \in {"fence", "adopt"} /\ op.pc \in {"return", "started"} => Resuming
  /\ op.pc \in {"return", "started"} /\ op.list \in {"clients", "publishers"} => Unwinding

\* Without a phase there is no journal.
Blank == journal.phase = "none" => journal = NoJournal
\* The phase in which each step is taken: none, only before the intent is saved.
Phased ==
  /\ Blank
  /\ Coordinator /\ op.pc \notin {"check", "intent"} => journal.phase # "none"
  /\ op.act \in {"fence", "prepare", "import", "adopt"} => ~MidUnwind
  /\ op.act = "fence" =>
       /\ op.pc = "intent" => journal.phase \in {"none", "idle"}
       /\ op.pc \in Acquire \cup {"pause", "publishers", "publisher_stop"} => journal.phase = "idle"
       /\ op.pc \in {"clients", "client_stop", "verify"} => journal.phase \in {"idle", "fenced"}
  /\ op.pc \in Staging => journal.phase = "prepared"
  /\ op.pc \in Waiting \cup {"recover"} => journal.phase \in {"fenced", "prepared"}

\* An unwinding is of an unfinished journal, a thaw of an accepted one; until
\* `reopened` is saved the primary is not back, after it only units are.
Undoing ==
  /\ Finished => journal.reopened
  /\ Reopening => /\ Unfinished
                  /\ op.pc \in Before => ~journal.reopened
                  /\ op.pc \in After => journal.reopened
                  /\ op.act = "thaw" => journal.phase = "activated" /\ journal.accepted

\* What an abort of an adopted rollout found stays so while it runs.
Uninstalled ==
  op.act = "abort" /\ journal.phase \in {"adopted", "activated"} =>
    ~installed /\ ~profile /\ ~booted

\* Fences are numbered; the live one is the newest.
Owned ==
  /\ ours \subseteq 1..tokens /\ fence \subseteq {tokens}
  /\ journal.fence_token \subseteq ours
  /\ op.pc \in {"open", "fence_token"} => fence \subseteq ours
  /\ op.pc = "fence_token" => fence # {}

\* A journal past `idle` names its fence, one past `fenced` evidence bound to it;
\* the token is only ever written into a journal that has none or is idle.
Windowed ==
  /\ journal.phase \in {"fenced", "prepared", "imported", "adopted", "activated"} =>
       journal.fence_token # {}
  /\ journal.phase \in {"prepared", "imported", "adopted", "activated"} =>
       \E e \in evidence : journal.fence_token = {e.window}
  /\ op.pc \in Waiting => fence # {} /\ fence = journal.fence_token
  /\ op.pc = "ready" => \E e \in evidence : fence = {e.window}
  /\ Unwinding /\ op.boundary = "prepared"
       /\ op.pc \in {"dependents", "primary_stop", "opening", "open", "fence_token"} =>
       journal.fence_token = {}
  /\ op.pc = "release" => journal.fence_token # {}
  /\ (\/ op.boundary = "closed"
      \/ Unwinding /\ op.pc \in {"intent", "inhibit", "startup_token"}) =>
       journal.fence_token # {}

\* Past the closed boundary of an unwinding the journal's fence is not in force.
Shut ==
  /\ journal.fence_token # {}
  /\ \/ journal.reopened
     \/ Unwinding /\ op.pc \in {"start", "live", "reopened"}
     \/ op.pc = "release" /\ op.boundary = "closed"
  => fence # journal.fence_token

\* A fence in force that the candidate was adopted under is the journal's own,
\* past the adoption, unless that journal was lost.
Known ==
  /\ adopted \subseteq 1..tokens
  /\ \A t \in adopted \ forgotten :
       fence = {t} => journal.fence_token = {t} /\ journal.phase \in {"adopted", "activated"}

\* The import slot, as long as no journal was lost.
Slotted ==
  lost = 0 =>
    /\ slot = {} \/ slot = journal.receipt
    /\ op.pc = "receipt" => slot \subseteq op.receipt
    /\ op.pc = "stage" => journal.receipt = op.receipt
    /\ op.pc = "final" \/ Finished => slot = {}

\* From the saved startup token to the fence.
Acquiring ==
  \/ op.pc \in {"pause", "publishers", "publisher_stop", "opening", "open", "fence_token"}
  \/ op.pc \in {"clients", "client_stop"} /\ journal.phase = "idle"
  \/ op.pc \in {"dependents", "primary_stop"} /\ op.boundary = "prepared"

\* The fence and the intent to open it.
Opened ==
  /\ op.pc = "startup_token" => held # {}
  /\ op.pc \in {"inhibit", "startup_token"} => journal.inhibiting
  /\ Acquiring => held # {} /\ held = journal.startup_token
  /\ op.pc \in {"open", "fence_token"} => journal.fence_opening
  /\ op.pc = "skipped" /\ journal.fence_token = {} => journal.startup_token = {}
  /\ op.pc = "restart_only" => journal.fence_token = {} /\ held # journal.startup_token
  /\ lost = 0 /\ OurFence =>
       /\ Unfinished /\ ~journal.reopened
       /\ fence = journal.fence_token \/ journal.fence_opening
       /\ journal.fence_token = {} => held # {} /\ held = journal.startup_token
       /\ ~(Unwinding /\ op.pc \in {"restart_only", "start", "live", "reopened"})

\* The inhibition, while no other coordinator releases the shared one.
Inhibited ==
  lost = 0 /\ ~ForeignActs =>
    /\ fence \subseteq ours
    /\ held # {} => Unfinished /\ journal.inhibiting /\ ~journal.reopened
    /\ Unfinished /\ ~journal.reopened /\ journal.fence_token = {} /\ journal.startup_token # {} =>
         held = journal.startup_token
    /\ op.pc = "boundary" /\ journal.startup_token = {} => held = {} \/ journal.fence_token # {}
    /\ op.pc = "skipped" /\ journal.fence_token = {} => held = {}
    /\ Unwinding /\ op.pc \in {"restart_only", "start", "live", "reopened"} => held = {}

\* Units are recorded before they are stopped; a generation runs only what it loads.
Recorded ==
  /\ installed => running \cap Removed = {}
  /\ ~journal.reopened => journal.pending_clients = {}
  /\ op.pc = "publisher_stop" => op.unit \subseteq journal.stopped_publishers
  /\ op.pc = "client_stop" => op.todo \subseteq journal.clients
  /\ op.pc = "primary_stop" =>
       \A u \in (Dependents \cap running) \ Retired : u \in journal.clients \cup journal.pending_receivers
  /\ op.pc = "receiver_stop" => op.unit \subseteq journal.pending_receivers

\* A started unit is no longer owed when it leaves the journal; what the fence
\* and the pause made systemd skip is recorded before they are gone.
Skipping ==
  ~TimersRace =>
    /\ op.pc = "started" => op.unit \cap owed = {}
    /\ Unwinding /\ fence # {} /\ journal.fence_token # {}
         /\ op.pc \in {"intent", "inhibit", "startup_token", "dependents", "primary_stop", "close"} =>
         skipped \cap Clients \subseteq journal.clients
    /\ op.pc = "lifted" /\ paused => skipped \cap Publishers \subseteq journal.stopped_publishers

\* No unit is left to be returned.
Emptied ==
  /\ journal.pending_clients = {} /\ journal.pending_receivers = {}
  /\ journal.stopped_publishers = {}

\* What a list still holds is to be tried or was tried in vain; a rollout is
\* finished with empty lists.
Returning ==
  /\ op.pc \notin {"publisher_stop", "receiver_stop", "started"} => op.unit = {}
  /\ Reopening /\ op.pc \in {"return", "started"} /\ ~op.failed =>
       /\ op.list = "clients" => journal.pending_clients \subseteq op.todo \cup op.unit
       /\ op.list # "clients" => journal.pending_clients = {}
       /\ op.list = "receivers" => journal.pending_receivers \subseteq op.todo \cup op.unit
       /\ op.list = "publishers" => /\ journal.pending_receivers = {}
                                    /\ journal.stopped_publishers \subseteq op.todo \cup op.unit
  /\ op.pc \in {"lift", "lifted"} /\ ~op.failed =>
       journal.pending_clients = {} /\ journal.pending_receivers = {}
  /\ op.pc \in {"retire", "final"} => Emptied
  /\ Finished => op.pc = "idle" /\ Emptied

-----------------------------------------------------------------------------
(* What the longer steps write, field by field.                             *)

\* What an invocation remembers.
Ops == [act : Acts, pc : Steps, boundary : {"prepared", "closed"},
        list : {"clients", "receivers", "publishers", "resume"},
        todo : SUBSET Units, unit : Option(Units), failed : BOOLEAN,
        receipt : Option(Receipts)]

\* The invocation keeps what it was begun with.
Same == /\ op'.act = op.act /\ op'.boundary = op.boundary /\ op'.receipt = op.receipt

\* Saving the startup token leads to the pause, or, unwinding, to the
\* dependents with the boundary closed.
LEMMA StartupTokenWrites ==
  ASSUME op \in Ops, StartupToken
  PROVE  /\ op.pc = "startup_token"
         /\ op'.act = op.act /\ op'.receipt = op.receipt
         /\ op'.list = op.list /\ op'.todo = op.todo /\ op'.unit = op.unit
         /\ op'.failed = op.failed
         /\ IF Unwinding THEN op'.pc = "dependents" /\ op'.boundary = "closed"
                         ELSE op'.pc = "pause" /\ op'.boundary = op.boundary
BY DEF StartupToken, Ops, Go, At

\* A publisher taken in hand is a running one; with none left, the clients follow.
LEMMA PublisherWrites ==
  ASSUME op \in Ops, Publisher
  PROVE  /\ op.pc = "publishers" /\ Same /\ op'.list = op.list /\ op'.todo = op.todo /\ op'.failed = op.failed
         /\ \/ op'.pc = "clients" /\ op'.unit = op.unit
            \/ op'.pc = "publisher_stop" /\ \E u \in Publishers \cap running : op'.unit = {u}
BY DEF Publisher, Ops, Go, At, Same

\* A receiver taken in hand is a running one; with none left, the worker is launched.
LEMMA ReceiverWrites ==
  ASSUME op \in Ops, Receiver
  PROVE  /\ op.pc = "receivers" /\ Same /\ op'.list = op.list /\ op'.todo = op.todo /\ op'.failed = op.failed
         /\ \/ op'.pc = "launch" /\ op'.unit = op.unit
            \/ op'.pc = "receiver_stop" /\ \E u \in Receivers \cap running : op'.unit = {u}
BY DEF Receiver, Ops, Go, At, Same

\* An unwinding reads its boundary, or, when the primary is back already,
\* returns the clients.
LEMMA UnwindWrites ==
  ASSUME op \in Ops, Unwind
  PROVE  /\ op.pc = "unwind" /\ Same /\ op'.unit = op.unit /\ op'.failed = op.failed
         /\ IF journal.reopened
            THEN op'.pc = "return" /\ op'.list = "clients" /\ op'.todo = journal.pending_clients
            ELSE op'.pc = "boundary" /\ op'.list = op.list /\ op'.todo = op.todo
BY DEF Unwind, Ops, Go, At, Same

\* Returning takes one unit off the list to be tried.
LEMMA ReturnWrites ==
  ASSUME op \in Ops, Return
  PROVE  /\ op.pc = "return" /\ Same /\ op'.list = op.list
         /\ \/ op'.pc = op.pc /\ op'.unit = op.unit
            \/ op'.pc = "started" /\ op'.failed = op.failed
         /\ \E u \in op.todo : op'.todo = op.todo \ {u}
BY DEF Return, Ops, At, Same

\* A list that was tried through is followed by the next one, or, when a start
\* failed, by the end of the invocation.
LEMMA ReturnedWrites ==
  ASSUME op \in Ops, Returned
  PROVE  \/ op' = Idle /\ ~(op.list = "receivers" /\ Unwinding) /\ op.list # "clients"
         \/ /\ op.pc = "return" /\ op.todo = {}
            /\ Same /\ op'.unit = op.unit /\ op'.failed = op.failed
            /\ \/ /\ op.list = "clients" /\ op'.pc = op.pc
                  /\ op'.list = "receivers" /\ op'.todo = journal.pending_receivers
               \/ /\ op'.list = op.list /\ op'.todo = op.todo
                  /\ \/ op.list = "receivers" /\ Unwinding /\ op'.pc = "lift"
                     \/ op.list = "publishers" /\ ~op.failed /\ op'.pc = "retire"
                     \/ op.list = "resume" /\ ~op.failed /\ op'.pc = "check"
<1>1. CASE op.list = "clients"
  BY <1>1 DEF Returned, Ops, Go, At, Same
<1>2. CASE op.list = "receivers"
  BY <1>2 DEF Returned, Ops, Go, At, Same, Refuse
<1>3. CASE op.list = "publishers"
  BY <1>3 DEF Returned, Ops, Go, GoIf, At, Same, Refuse
<1>4. CASE op.list = "resume"
  BY <1>4 DEF Returned, Ops, Go, GoIf, At, Same, Refuse
<1> QED BY <1>1, <1>2, <1>3, <1>4 DEF Ops

\* A preparation that finds no outcome to adopt goes on to the receivers.
LEMMA RecoverWrites ==
  ASSUME op \in Ops, Recover
  PROVE  \/ op' = Idle
         \/ /\ op.pc = "recover" /\ op.act \in {"prepare", "import"}
            /\ Same /\ op'.list = op.list /\ op'.todo = op.todo /\ op'.unit = op.unit
            /\ op'.failed = op.failed /\ op'.pc = "receivers"
            /\ journal' = journal
BY DEF Recover, Ops, Go, At, Same, Refuse, Settle

\* An outcome leads to the return of the receivers.
LEMMA OutcomeWrites ==
  ASSUME op \in Ops, Outcome
  PROVE  /\ op.pc \in {"ready", "stopped"} /\ Same /\ op'.unit = op.unit /\ op'.failed = op.failed /\ op'.pc = "return"
         /\ op'.list = "receivers" /\ op'.todo = journal.pending_receivers
BY DEF Outcome, Ops, At, Same, Settle

\* An invocation begins with the receivers an earlier one left, when there
\* are any, and with its check.
LEMMA BeginWrites ==
  ASSUME NEW act, NEW receipt, Begin(act, receipt)
  PROVE  /\ op'.act = act /\ op'.boundary = "prepared" /\ op'.receipt = receipt
         /\ op'.unit = {} /\ op'.failed = FALSE /\ op'.list = "resume"
         /\ op'.todo = journal'.pending_receivers
         /\ op'.pc = IF op'.todo = {} THEN "check" ELSE "return"
BY DEF Begin, Idle, Save

-----------------------------------------------------------------------------
(* The commands, and the steps that return units.                           *)

\* The coordinator is invoked, other than to abort.
Begun == \E act \in {"fence", "prepare", "import", "adopt", "thaw"}, receipt \in Option(Receipts) :
            Begin(act, receipt)

\* A receipt brought to an import certifies this window's export, or another's.
LEMMA CertifiedReceipts == TypeOK => Certified \subseteq Receipts
<1> SUFFICES ASSUME TypeOK, NEW r \in Certified PROVE r \in Receipts
  OBVIOUS
<1>1. MaxFences \in Nat /\ MaxExports \in Nat
  BY RolloutAssumption
<1>2. journal.fence_token \in Option(Tokens) /\ journal.export \in Option(Exports)
  BY DEF TypeOK, Journals
<1>3. journal.fence_token \subseteq 0..MaxFences /\ journal.export \subseteq 0..MaxExports
  BY <1>1, <1>2 DEF Option, Tokens, Exports
<1>4. 0 \in 0..MaxFences /\ 0 \in 0..MaxExports
  BY <1>1
<1> QED BY <1>3, <1>4 DEF Certified, Receipts

\* The commands, one by one.
LEMMA Commands ==
  TypeOK /\ Command => Begun \/ Abort \/ AbortLost \/ Activated \/ Accept \/ Archive
<1> SUFFICES ASSUME TypeOK, Command
             PROVE Begun \/ Abort \/ AbortLost \/ Activated \/ Accept \/ Archive
  OBVIOUS
<1>1. {} \in Option(Receipts) /\ \A r \in Certified : {r} \in Option(Receipts)
  BY CertifiedReceipts DEF Option
<1> QED BY <1>1 DEF Command, Begun

\* With the primary back the clients are returned first.
LEMMA ReopenedWrites ==
  ASSUME op \in Ops, Reopened
  PROVE  /\ op.pc = "reopened" /\ Same /\ op'.unit = op.unit /\ op'.failed = op.failed
         /\ op'.pc = "return" /\ op'.list = "clients" /\ op'.todo = journal.clients \ Retired
BY DEF Reopened, Ops, At, Same

\* With the pause lifted the publishers are returned.
LEMMA LiftedWrites ==
  ASSUME op \in Ops, Lifted
  PROVE  /\ op.pc = "lifted" /\ Same /\ op'.unit = op.unit /\ op'.failed = op.failed
         /\ op'.pc = "return" /\ op'.list = "publishers" /\ op'.todo = journal.stopped_publishers
BY DEF Lifted, Ops, At, Same

\* A started unit leaves the hand; the list goes on.
LEMMA StartedWrites ==
  ASSUME op \in Ops, Started
  PROVE  /\ op.pc = "started" /\ Same /\ op'.list = op.list /\ op'.failed = op.failed
         /\ op'.pc = "return" /\ op'.todo = op.todo /\ op'.unit = {}
BY DEF Started, Ops, At, Same

\* The worker ends the wait of an invocation and touches nothing else of it.
LEMMA WorkerWrites ==
  ASSUME op \in Ops, Worker
  PROVE  /\ Same /\ op'.list = op.list /\ op'.failed = op.failed
         /\ op'.todo = op.todo /\ op'.unit = op.unit
         /\ op'.pc # op.pc => op.pc = "await" /\ op'.pc \in {"ready", "stopped"}
BY
DEF Worker, WorkerSnapshot, WorkerExport, WorkerImport, WorkerAdmit, WorkerEnds, At, Go, Ops, Same

-----------------------------------------------------------------------------
(* Types.                                                                   *)

\* What a step may write into the journal.
LEMMA JournalEdits ==
  ASSUME journal \in Journals
  PROVE  /\ NoJournal \in Journals /\ Fresh \in Journals
         /\ [journal EXCEPT !.fence_opening = TRUE] \in Journals
         /\ \A phase \in Phases :
              /\ [journal EXCEPT !.phase = phase] \in Journals
              /\ \A export \in Option(Exports) :
                   [journal EXCEPT !.phase = phase, !.export = export] \in Journals
         /\ \A S \in SUBSET Units :
              /\ [journal EXCEPT !.clients = S] \in Journals
              /\ [journal EXCEPT !.pending_clients = S] \in Journals
              /\ [journal EXCEPT !.pending_receivers = S] \in Journals
              /\ [journal EXCEPT !.stopped_publishers = S] \in Journals
              /\ \A T \in SUBSET Units :
                   [journal EXCEPT !.clients = S, !.pending_receivers = T] \in Journals
<1>1. NoJournal \in Journals /\ Fresh \in Journals
  BY DEF Journals, NoJournal, Fresh, Phases, Option
<1>2. [journal EXCEPT !.fence_opening = TRUE] \in Journals
  BY DEF Journals
<1>3. ASSUME NEW phase \in Phases, NEW export \in Option(Exports)
      PROVE  /\ [journal EXCEPT !.phase = phase] \in Journals
             /\ [journal EXCEPT !.phase = phase, !.export = export] \in Journals
  BY DEF Journals
<1>4. ASSUME NEW S \in SUBSET Units, NEW T \in SUBSET Units
      PROVE  /\ [journal EXCEPT !.clients = S] \in Journals
             /\ [journal EXCEPT !.pending_clients = S] \in Journals
             /\ [journal EXCEPT !.pending_receivers = S] \in Journals
             /\ [journal EXCEPT !.stopped_publishers = S] \in Journals
             /\ [journal EXCEPT !.clients = S, !.pending_receivers = T] \in Journals
  BY DEF Journals
<1>5. {} \in Option(Exports) /\ {} \in SUBSET Units
  BY DEF Option
<1> QED BY <1>1, <1>2, <1>3, <1>4, <1>5

\* Every step keeps the type of the journal.
LEMMA JournalTyped == TypeOK /\ [Next]_vars => journal' \in Journals
<1> SUFFICES ASSUME TypeOK, [Next]_vars PROVE journal' \in Journals
  OBVIOUS
<1>1. /\ journal \in Journals /\ op \in Ops
      /\ held \in Option(Inhibitions) /\ fence \in Option(Tokens) /\ evidence \in Option(Snapshots)
  BY DEF TypeOK, Ops
<1>2. /\ NoJournal \in Journals /\ Fresh \in Journals
      /\ journal.clients \subseteq Units /\ journal.pending_clients \subseteq Units
      /\ journal.pending_receivers \subseteq Units /\ journal.stopped_publishers \subseteq Units
      /\ op.unit \subseteq Units
  <2>1. op.unit \in Option(Units)
    BY <1>1 DEF Ops
  <2>2. op.unit \subseteq Units
    BY <2>1 DEF Option
  <2>3. /\ journal.clients \subseteq Units /\ journal.pending_clients \subseteq Units
        /\ journal.pending_receivers \subseteq Units /\ journal.stopped_publishers \subseteq Units
    BY <1>1 DEF Journals
  <2> QED BY <1>1, <2>2, <2>3, JournalEdits
<1>3. /\ Clients \subseteq Units /\ Retired \subseteq Units /\ Receivers \subseteq Units
      /\ Publishers \subseteq Units /\ Dependents \subseteq Units
  BY RolloutAssumption DEF Units
<1>4. \A e \in evidence : e.export # 0 => {e.export} \in Option(Exports)
  <2>1. \A e \in evidence : e.export \in 0..MaxExports
    BY <1>1 DEF Option, Snapshots
  <2> QED BY <2>1, RolloutAssumption DEF Option, Exports
<1> USE DEF At, Go, GoIf, Refuse, Idle, Save, authority, units, window, generation, record, bounds
<1>5. CASE Intent
  BY <1>5, <1>1, <1>2 DEF Intent, Bound, Journals, Phases
<1>6. CASE StartupToken
  BY <1>6, <1>1, <1>2 DEF StartupToken, Unwinding, Journals, Phases, Option
<1>7. CASE Publisher
  BY <1>7, <1>1, <1>2, <1>3, JournalEdits DEF Publisher, Loaded
<1>8. CASE RecordClients
  BY <1>8, <1>1, <1>2 DEF RecordClients, Journals, Phases, Units
<1>9. CASE Dependent
  BY <1>9, <1>1, <1>2, <1>3, JournalEdits DEF Dependent, Loaded
<1>10. CASE Opening
  BY <1>10, <1>1, <1>2, <1>3, JournalEdits DEF Opening
<1>11. CASE FenceToken
  BY <1>11, <1>1, <1>2 DEF FenceToken, Journals, Phases
<1>12. CASE Verify
  BY <1>12, <1>1, <1>2 DEF Verify, InspectFence, Journals, Phases
<1>13. CASE Unwind
  BY <1>13, <1>1, <1>2 DEF Unwind, Journals, Phases
<1>14. CASE Skipped
  BY <1>14, <1>1, <1>2, <1>3, JournalEdits DEF Skipped
<1>15. CASE Reopened
  BY <1>15, <1>1, <1>2 DEF Reopened, Journals, Phases, Units
<1>16. CASE Return
  BY <1>16, <1>1, <1>2 DEF Return, Left, Loaded, Journals, Phases, Units, Ops, Option
<1>17. CASE Started
  BY <1>17, <1>1, <1>2, <1>3, JournalEdits DEF Started, Left
<1>18. CASE Lift
  BY <1>18, <1>1, <1>2, <1>3, JournalEdits DEF Lift
<1>19. CASE Final
  BY <1>19, <1>1, <1>2 DEF Final, Journals, Phases
<1>20. CASE Receipt
  BY <1>20, <1>1, <1>2 DEF Receipt, Journals, Phases, Ops
<1>21. CASE Recover
  BY <1>21, <1>1, <1>4, JournalEdits DEF Recover, Settle, Imported, Prepared, Phases
<1>22. CASE Receiver
  BY <1>22, <1>1, <1>2, <1>3, JournalEdits DEF Receiver
<1>23. CASE Outcome
  <2>1. journal' = journal \/ journal' \in Imported(journal) \/ journal' \in Prepared(journal)
    BY <1>23 DEF Outcome, Settle
  <2>2. Imported(journal) \subseteq Journals
    BY <1>1, JournalEdits DEF Imported, Phases
  <2>3. Prepared(journal) \subseteq Journals
    BY <1>1, <1>4, JournalEdits DEF Prepared, Phases
  <2> QED BY <1>1, <2>1, <2>2, <2>3
<1>24. CASE Adopt
  BY <1>24, <1>1, <1>2 DEF Adopt, Admitted, Journals, Phases
<1>25. CASE ThawCheck
  BY <1>25, <1>1, <1>2 DEF ThawCheck, InspectFence, Admitted, Journals, Phases
<1>26. CASE AbortLost
  <2>1. [Fresh EXCEPT !.pending_receivers = Receivers, !.stopped_publishers = Publishers] \in Journals
    BY <1>2, <1>3 DEF Journals
  <2>2. \A j \in Journals : [j EXCEPT !.phase = "fenced", !.fence_token = fence, !.fence_opening = TRUE] \in Journals
    BY <1>1 DEF Journals, Phases
  <2>3. \A j \in Journals : [j EXCEPT !.inhibiting = TRUE, !.startup_token = held] \in Journals
    BY <1>1 DEF Journals
  <2> QED BY <1>26, <2>1, <2>2, <2>3 DEF AbortLost
<1>27. CASE Activated
  BY <1>27, <1>1, <1>2 DEF Activated, NoWorker, InspectFence, Ready, MidUnwind, Unfinished,
     Coordinator, Journals, Phases
<1>28. CASE UNCHANGED journal
  BY <1>1, <1>28
<1>29. CASE journal' = NoJournal
  BY <1>2, <1>29
<1> QED
  BY <1>5, <1>6, <1>7, <1>8, <1>9, <1>10, <1>11, <1>12, <1>13, <1>14, <1>15, <1>16, <1>17, <1>18,
     <1>19, <1>20, <1>21, <1>22, <1>23, <1>24, <1>25, <1>26, <1>27, <1>28, <1>29, Commands
  DEF Next, Step, Fence, Reopen, Prepare, Worker, Environment, vars, Begun, Begin, Abort, Accept,
      Archive,
      FenceCheck, Inhibit, PausePublishers, PublisherStop, ClientStop, PrimaryStop, Open, Release,
      Start, Boundary, Close, Live, Returned, Lifted, RetireSlot, PrepareCheck, ImportCheck,
      SetAside, Stage, ReceiverStop, Launch, WorkerSnapshot, WorkerExport, WorkerImport,
      WorkerAdmit,
      Activate, Kill, Reboot, Write, Age, MoveAside, ForeignOpen, ForeignClose, LoseJournal, GiveUp,
      Timer

-----------------------------------------------------------------------------

\* The lists of units an invocation works through.
Lists == {"clients", "receivers", "publishers", "resume"}

\* What a step may write into the invocation's memory.
LEMMA OpEdits ==
  ASSUME op \in Ops, NEW pc \in Steps
  PROVE  /\ Idle \in Ops
         /\ [op EXCEPT !.pc = pc] \in Ops
         /\ [op EXCEPT !.pc = pc, !.boundary = "closed"] \in Ops
         /\ \A todo \in SUBSET Units :
              /\ [op EXCEPT !.todo = todo] \in Ops
              /\ [op EXCEPT !.failed = TRUE, !.todo = todo] \in Ops
              /\ [op EXCEPT !.pc = pc, !.todo = todo] \in Ops
              /\ \A list \in Lists : [op EXCEPT !.pc = pc, !.list = list, !.todo = todo] \in Ops
              /\ \A list \in Lists : [op EXCEPT !.list = list, !.todo = todo] \in Ops
              /\ \A unit \in Option(Units) : [op EXCEPT !.pc = pc, !.unit = unit, !.todo = todo] \in Ops
         /\ \A unit \in Option(Units) : [op EXCEPT !.pc = pc, !.unit = unit] \in Ops
<1>1. Idle \in Ops
  BY DEF Idle, Ops, Acts, Steps, Option
<1>2. [op EXCEPT !.pc = pc] \in Ops
  BY DEF Ops
<1>3. [op EXCEPT !.pc = pc, !.boundary = "closed"] \in Ops
  BY DEF Ops
<1>4. ASSUME NEW todo \in SUBSET Units
      PROVE  /\ [op EXCEPT !.todo = todo] \in Ops
             /\ [op EXCEPT !.failed = TRUE, !.todo = todo] \in Ops
             /\ [op EXCEPT !.pc = pc, !.todo = todo] \in Ops
  BY DEF Ops
<1>5. ASSUME NEW todo \in SUBSET Units, NEW list \in Lists
      PROVE  /\ [op EXCEPT !.pc = pc, !.list = list, !.todo = todo] \in Ops
             /\ [op EXCEPT !.list = list, !.todo = todo] \in Ops
  BY DEF Ops, Lists
<1>6. ASSUME NEW todo \in SUBSET Units, NEW unit \in Option(Units)
      PROVE  [op EXCEPT !.pc = pc, !.unit = unit, !.todo = todo] \in Ops
  BY DEF Ops
<1>7. ASSUME NEW unit \in Option(Units)
      PROVE  [op EXCEPT !.pc = pc, !.unit = unit] \in Ops
  BY DEF Ops
<1> QED BY <1>1, <1>2, <1>3, <1>4, <1>5, <1>6, <1>7

\* Every step keeps the type of the invocation's memory.
LEMMA OpTyped == TypeOK /\ [Next]_vars => op' \in Ops
<1> SUFFICES ASSUME TypeOK, [Next]_vars PROVE op' \in Ops
  OBVIOUS
<1>1. op \in Ops /\ journal \in Journals
  BY DEF TypeOK, Ops
<1>2. /\ op.todo \subseteq Units /\ op.unit \in Option(Units)
      /\ {} \in Option(Units) /\ \A u \in Units : {u} \in Option(Units)
  BY <1>1 DEF Ops, Option
<1>3. /\ journal.clients \subseteq Units /\ journal.pending_clients \subseteq Units
      /\ journal.pending_receivers \subseteq Units /\ journal.stopped_publishers \subseteq Units
  BY <1>1 DEF Journals
<1>4. Clients \subseteq Units /\ Retired \subseteq Units /\ Receivers \subseteq Units /\ Publishers \subseteq Units
  BY DEF Units
<1>5. Idle \in Ops
  BY DEF Idle, Ops, Acts, Steps, Option
<1>6. CASE Begun
  <2>1. PICK act \in {"fence", "prepare", "import", "adopt", "thaw"}, receipt \in Option(Receipts) :
           Begin(act, receipt)
    BY <1>6 DEF Begun
  <2>2. PICK todo \in SUBSET Units, pc \in {"check", "return"} :
           op' = [act |-> act, pc |-> pc, boundary |-> "prepared", list |-> "resume", todo |-> todo,
                  unit |-> {}, failed |-> FALSE, receipt |-> receipt]
    <3>1. NoJournal.pending_receivers = {}
      BY DEF NoJournal
    <3> QED BY <2>1, <1>3, <3>1 DEF Begin, Idle, Save
  <2> QED BY <2>2 DEF Ops, Acts, Steps, Option
<1>7. CASE Abort
  <2>1. op' = [Idle EXCEPT !.act = "abort", !.pc = "unwind"]
    BY <1>7 DEF Abort
  <2> QED BY <2>1 DEF Ops, Idle, Acts, Steps, Option
<1>8. CASE AbortLost
  <2>1. op' = [Idle EXCEPT !.act = "abort", !.pc = "unwind"]
    BY <1>8 DEF AbortLost
  <2> QED BY <2>1 DEF Ops, Idle, Acts, Steps, Option
<1>9. CASE FenceCheck
  BY <1>1, <1>9, OpEdits DEF FenceCheck, At, Go, GoIf, Refuse, Steps
<1>10. CASE Intent
  BY <1>1, <1>10, OpEdits DEF Intent, At, Go, Steps
<1>11. CASE Inhibit
  BY <1>1, <1>11, OpEdits DEF Inhibit, At, Go, Steps
<1>12. CASE StartupToken
  BY <1>1, <1>12, OpEdits DEF StartupToken, At, Go, Steps
<1>13. CASE PausePublishers
  BY <1>1, <1>13, OpEdits DEF PausePublishers, At, Go, Steps
<1>14. CASE Publisher
  <2>1. CASE op' = [op EXCEPT !.pc = "clients"]
    BY <1>1, <2>1 DEF Ops, Steps
  <2>2. CASE \E unit \in Option(Units) : op' = [op EXCEPT !.pc = "publisher_stop", !.unit = unit]
    BY <1>1, <2>2 DEF Ops, Steps
  <2> QED BY <1>14, <1>2, <1>4, <2>1, <2>2 DEF Publisher, Go
<1>15. CASE PublisherStop
  BY <1>1, <1>15, OpEdits, <1>2 DEF PublisherStop, At, StopUnit, Steps, Lists
<1>16. CASE RecordClients
  BY <1>1, <1>16, OpEdits, <1>2, <1>3, <1>4 DEF RecordClients, At, Steps, Lists
<1>17. CASE ClientStop
  BY <1>1, <1>17, OpEdits, <1>2 DEF ClientStop, At, Go, StopUnit, Steps, Lists
<1>18. CASE Dependent
  BY <1>1, <1>18, OpEdits DEF Dependent, At, Go, Steps
<1>19. CASE PrimaryStop
  BY <1>1, <1>19, OpEdits DEF PrimaryStop, At, Go, Steps
<1>20. CASE Opening
  BY <1>1, <1>20, OpEdits DEF Opening, At, Go, Refuse, Steps
<1>21. CASE Open
  BY <1>1, <1>21, OpEdits DEF Open, At, Go, Steps
<1>22. CASE FenceToken
  BY <1>1, <1>22, OpEdits DEF FenceToken, At, Go, Steps
<1>23. CASE Release
  BY <1>1, <1>23, OpEdits DEF Release, At, Go, Refuse, Steps
<1>24. CASE Start
  BY <1>1, <1>24, OpEdits DEF Start, At, Go, Steps
<1>25. CASE Verify
  BY <1>1, <1>25, OpEdits DEF Verify, At, Refuse, Steps
<1>26. CASE Unwind
  <2>1. CASE op' = [op EXCEPT !.pc = "boundary"]
    BY <1>1, <2>1 DEF Ops, Steps
  <2>2. CASE op' = [op EXCEPT !.pc = "return", !.list = "clients", !.todo = journal.pending_clients]
    BY <1>1, <1>3, <2>2 DEF Ops, Steps
  <2> QED BY <1>26, <2>1, <2>2 DEF Unwind, Go
<1>27. CASE Boundary
  BY <1>1, <1>27, OpEdits DEF Boundary, At, Go, GoIf, Refuse, Steps
<1>28. CASE Skipped
  BY <1>1, <1>28, OpEdits DEF Skipped, At, Go, Steps
<1>29. CASE Close
  BY <1>1, <1>29, OpEdits DEF Close, At, Go, Refuse, Steps
<1>30. CASE Live
  BY <1>1, <1>30, OpEdits DEF Live, At, Go, GoIf, Refuse, Steps
<1>31. CASE Reopened
  BY <1>1, <1>31, OpEdits, <1>3 DEF Reopened, At, Steps, Lists
<1>32. CASE Return
  <2>1. CASE \E u \in op.todo : op' = [op EXCEPT !.todo = @ \ {u}]
    BY <1>1, <1>2, <2>1 DEF Ops, Steps
  <2>2. ASSUME NEW u \in op.todo, op' = [op EXCEPT !.pc = "started", !.unit = {u}, !.todo = @ \ {u}]
        PROVE  op' \in Ops
    <3>1. {u} \in Option(Units) /\ op.todo \ {u} \in SUBSET Units
      BY <1>2
    <3> QED BY <1>1, <2>2, <3>1 DEF Ops, Steps
  <2>3. ASSUME NEW u \in op.todo, op' = [op EXCEPT !.failed = TRUE, !.todo = @ \ {u}]
        PROVE  op' \in Ops
    <3>1. op.todo \ {u} \in SUBSET Units
      BY <1>2
    <3> QED BY <1>1, <2>3, <3>1 DEF Ops
  <2> QED BY <1>32, <2>1, <2>2, <2>3 DEF Return
<1>33. CASE Started
  BY <1>1, <1>33, OpEdits, <1>2 DEF Started, At, Steps, Lists
<1>34. CASE Returned
  BY <1>1, <1>34, OpEdits, <1>3 DEF Returned, At, Go, GoIf, Refuse, Steps, Lists
<1>35. CASE Lift
  BY <1>1, <1>35, OpEdits DEF Lift, At, Go, Steps
<1>36. CASE Lifted
  BY <1>1, <1>36, OpEdits, <1>3 DEF Lifted, At, Steps, Lists
<1>37. CASE RetireSlot
  BY <1>1, <1>37, OpEdits DEF RetireSlot, At, Go, Steps
<1>38. CASE Final
  BY <1>1, <1>38, OpEdits DEF Final, At, Refuse, Steps
<1>39. CASE PrepareCheck
  BY <1>1, <1>39, OpEdits DEF PrepareCheck, At, Go, GoIf, Refuse, Steps
<1>40. CASE ImportCheck
  BY <1>1, <1>40, OpEdits DEF ImportCheck, At, Go, Refuse, Steps
<1>41. CASE SetAside
  BY <1>1, <1>41, OpEdits DEF SetAside, At, Go, Steps
<1>42. CASE Receipt
  BY <1>1, <1>42, OpEdits DEF Receipt, At, Go, Steps
<1>43. CASE Stage
  BY <1>1, <1>43, OpEdits DEF Stage, At, Go, Steps
<1>44. CASE Recover
  BY <1>1, <1>44, OpEdits, <1>3 DEF Recover, At, Go, Refuse, Settle, Steps, Lists
<1>45. CASE Receiver
  <2>1. CASE op' = [op EXCEPT !.pc = "launch"]
    BY <1>1, <2>1 DEF Ops, Steps
  <2>2. CASE \E unit \in Option(Units) : op' = [op EXCEPT !.pc = "receiver_stop", !.unit = unit]
    BY <1>1, <2>2 DEF Ops, Steps
  <2> QED BY <1>45, <1>2, <1>4, <2>1, <2>2 DEF Receiver, Go
<1>46. CASE ReceiverStop
  BY <1>1, <1>46, OpEdits, <1>2 DEF ReceiverStop, At, StopUnit, Steps, Lists
<1>47. CASE Launch
  BY <1>1, <1>47, OpEdits DEF Launch, At, Go, Steps
<1>48. CASE Outcome
  <2>1. op' = [op EXCEPT !.pc = "return", !.list = "receivers", !.todo = journal.pending_receivers]
    BY <1>48 DEF Outcome, Settle
  <2> QED BY <1>1, <1>3, <2>1 DEF Ops, Steps
<1>49. CASE Adopt
  BY <1>1, <1>49, OpEdits DEF Adopt, At, Refuse, Steps
<1>50. CASE ThawCheck
  BY <1>1, <1>50, OpEdits DEF ThawCheck, At, Go, Refuse, Steps
<1>51. CASE UNCHANGED op
  BY <1>1, <1>51
<1>52. CASE op' = Idle
  BY <1>52, <1>5
<1>53. CASE Worker
  BY <1>1, <1>53, OpEdits
  DEF Worker, WorkerSnapshot, WorkerExport, WorkerImport, WorkerAdmit, WorkerEnds, Go, Steps
<1> QED
  BY <1>6, <1>7, <1>8, <1>9, <1>10, <1>11, <1>12, <1>13, <1>14, <1>15, <1>16, <1>17, <1>18, <1>19,
     <1>20, <1>21, <1>22, <1>23, <1>24, <1>25, <1>26, <1>27, <1>28, <1>29, <1>30, <1>31, <1>32,
     <1>33, <1>34, <1>35, <1>36, <1>37, <1>38, <1>39, <1>40, <1>41, <1>42, <1>43, <1>44, <1>45,
     <1>46, <1>47, <1>48, <1>49, <1>50, <1>51, <1>52, <1>53, Commands
  DEF Next, Step, Fence, Reopen, Prepare, Environment, vars, Activated, Accept, Archive,
      Activate, Kill, Reboot, Write, Age, MoveAside, ForeignOpen, ForeignClose, LoseJournal, GiveUp,
      Timer

\* Every step keeps the types of the inhibition and of the fences.
LEMMA AuthorityTyped == TypeOK /\ [Next]_vars =>
  /\ held' \in Option(Inhibitions) /\ fence' \in Option(Tokens) /\ closed' \in SUBSET Tokens
  /\ tokens' \in 0..MaxFences /\ ours' \in SUBSET Tokens
<1> SUFFICES ASSUME TypeOK, [Next]_vars
             PROVE  /\ held' \in Option(Inhibitions) /\ fence' \in Option(Tokens) /\ closed' \in SUBSET Tokens
                    /\ tokens' \in 0..MaxFences /\ ours' \in SUBSET Tokens
  OBVIOUS
<1>1. /\ held \in Option(Inhibitions) /\ fence \in Option(Tokens) /\ closed \in SUBSET Tokens
      /\ tokens \in 0..MaxFences /\ ours \in SUBSET Tokens /\ journal \in Journals
  BY DEF TypeOK
<1> USE DEF authority, units, window, generation, record, bounds
<1>2. CASE Inhibit
  <2>1. journal.startup_token \in Option(Inhibitions)
    BY <1>1 DEF Journals
  <2>2. \E i \in Inhibitions : i \notin journal.startup_token
    <3>1. 1 \in Inhibitions /\ 2 \in Inhibitions
      BY DEF Inhibitions
    <3> QED BY <2>1, <3>1 DEF Option
  <2>3. (CHOOSE i \in Inhibitions : i \notin journal.startup_token) \in Inhibitions
    BY <2>2
  <2>4. held' \in Option(Inhibitions)
    BY <1>1, <1>2, <2>3 DEF Inhibit, Option
  <2> QED BY <1>1, <1>2, <2>4 DEF Inhibit
<1>3. CASE Release
  BY <1>1, <1>3 DEF Release, Option
<1>4. CASE Open
  <2>1. CASE fence # {}
    BY <1>1, <1>4, <2>1 DEF Open
  <2>2. CASE fence = {}
    <3>1. tokens' \in Tokens /\ tokens' \in 0..MaxFences
      BY <1>1, <1>4, <2>2, RolloutAssumption DEF Open, Tokens
    <3>2. fence' = {tokens'} /\ ours' = ours \cup {tokens'} /\ UNCHANGED <<held, closed>>
      BY <1>4, <2>2 DEF Open
    <3> QED BY <1>1, <3>1, <3>2 DEF Option
  <2> QED BY <2>1, <2>2
<1>5. CASE Close
  BY <1>1, <1>5 DEF Close, Journals, Option
<1>6. CASE ForeignOpen
  BY <1>1, <1>6, RolloutAssumption DEF ForeignOpen, Option, Tokens
<1>7. CASE ForeignClose
  BY <1>1, <1>7 DEF ForeignClose, Option
<1>8. CASE Write
  BY <1>1, <1>8 DEF Write
<1>9. CASE UNCHANGED <<held, fence, closed, tokens, ours>>
  BY <1>1, <1>9
<1> QED
  BY <1>2, <1>3, <1>4, <1>5, <1>6, <1>7, <1>8, <1>9, Commands DEF Next, Step, Fence, Reopen,
     Prepare, Worker, Environment, vars, Begun, Begin, Abort, AbortLost, Activated, Accept, Archive,
     FenceCheck, Intent, StartupToken, PausePublishers, Publisher, PublisherStop, RecordClients,
     ClientStop, Dependent, PrimaryStop, Opening, FenceToken, Start, Verify, Unwind, Boundary,
     Skipped, Live, Reopened, Return, Started, Returned, Lift, Lifted, RetireSlot, Final,
     PrepareCheck, ImportCheck, SetAside, Receipt, Stage, Recover, Receiver, ReceiverStop, Launch,
     Outcome, Adopt, ThawCheck, WorkerSnapshot, WorkerExport, WorkerImport, WorkerAdmit, Activate,
     Kill, Reboot, Age, MoveAside, LoseJournal, GiveUp, Timer

\* Every step keeps the flags Boolean.
LEMMA FlagsTyped == TypeOK /\ [Next]_vars =>
  /\ primary' \in BOOLEAN /\ paused' \in BOOLEAN /\ installed' \in BOOLEAN
  /\ profile' \in BOOLEAN /\ booted' \in BOOLEAN /\ gaveUp' \in BOOLEAN
<1> SUFFICES ASSUME TypeOK, [Next]_vars
             PROVE  /\ primary' \in BOOLEAN /\ paused' \in BOOLEAN /\ installed' \in BOOLEAN
                    /\ profile' \in BOOLEAN /\ booted' \in BOOLEAN /\ gaveUp' \in BOOLEAN
  OBVIOUS
<1>1. /\ primary \in BOOLEAN /\ paused \in BOOLEAN /\ installed \in BOOLEAN
      /\ profile \in BOOLEAN /\ booted \in BOOLEAN /\ gaveUp \in BOOLEAN
  BY DEF TypeOK
<1> USE DEF authority, units, window, generation, record, bounds
<1>2. CASE PrimaryStop
  BY <1>1, <1>2 DEF PrimaryStop
<1>3. CASE Start
  BY <1>1, <1>3 DEF Start
<1>4. CASE PausePublishers
  BY <1>1, <1>4 DEF PausePublishers
<1>5. CASE Lifted
  BY <1>1, <1>5 DEF Lifted
<1>6. CASE \E candidate \in BOOLEAN : Activate(candidate)
  BY <1>1, <1>6 DEF Activate
<1>7. CASE Reboot
  BY <1>1, <1>7 DEF Reboot
<1>8. CASE ForeignOpen
  BY <1>1, <1>8 DEF ForeignOpen
<1>9. CASE ForeignClose
  BY <1>1, <1>9 DEF ForeignClose
<1>10. CASE GiveUp
  BY <1>1, <1>10 DEF GiveUp
<1>11. CASE UNCHANGED <<primary, paused, installed, profile, booted, gaveUp>>
  BY <1>1, <1>11
<1> QED
  BY <1>2, <1>3, <1>4, <1>5, <1>6, <1>7, <1>8, <1>9, <1>10, <1>11, Commands DEF Next, Step, Fence,
     Reopen, Prepare, Worker, Environment, vars, Begun, Begin, Abort, AbortLost, Activated, Accept,
     Archive, FenceCheck, Intent, Inhibit, StartupToken, Publisher, PublisherStop, RecordClients,
     ClientStop, Dependent, Opening, Open, FenceToken, Release, Verify, Unwind, Boundary, Skipped,
     Close, Live, Reopened, Return, Started, Returned, Lift, RetireSlot, Final, PrepareCheck,
     ImportCheck, SetAside, Receipt, Stage, Recover, Receiver, ReceiverStop, Launch, Outcome, Adopt,
     ThawCheck, WorkerSnapshot, WorkerExport, WorkerImport, WorkerAdmit, Kill, Write, Age,
     MoveAside, LoseJournal, Timer

\* Every step keeps the sets of units sets of units.
LEMMA UnitsTyped == TypeOK /\ [Next]_vars =>
  running' \subseteq Units /\ skipped' \subseteq Units /\ owed' \subseteq Units
<1> SUFFICES ASSUME TypeOK, [Next]_vars
             PROVE  running' \subseteq Units /\ skipped' \subseteq Units /\ owed' \subseteq Units
  OBVIOUS
<1>1. /\ running \subseteq Units /\ skipped \subseteq Units /\ owed \subseteq Units
      /\ op \in Ops /\ Clients \subseteq Units
  BY DEF TypeOK, Ops, Units
<1> USE DEF authority, units, window, generation, record, bounds
<1>2. CASE Begun
  BY <1>1, <1>2 DEF Begun, Begin
<1>3. CASE Archive
  BY <1>1, <1>3 DEF Archive
<1>4. CASE PublisherStop
  BY <1>1, <1>4 DEF PublisherStop, StopUnit
<1>5. CASE ClientStop
  BY <1>1, <1>5 DEF ClientStop, StopUnit
<1>6. CASE ReceiverStop
  BY <1>1, <1>6 DEF ReceiverStop, StopUnit
<1>7. CASE PrimaryStop
  BY <1>1, <1>7 DEF PrimaryStop
<1>8. CASE Return
  BY <1>1, <1>8 DEF Return, Ops
<1>9. CASE \E candidate \in BOOLEAN : Activate(candidate)
  BY <1>1, <1>9 DEF Activate
<1>10. CASE Reboot
  BY <1>1, <1>10 DEF Reboot
<1>11. CASE LoseJournal
  BY <1>1, <1>11 DEF LoseJournal
<1>12. CASE \E u \in Units : Timer(u)
  BY <1>1, <1>12 DEF Timer
<1>13. CASE UNCHANGED <<running, skipped, owed>>
  BY <1>1, <1>13
<1> QED
  BY <1>2, <1>3, <1>4, <1>5, <1>6, <1>7, <1>8, <1>9, <1>10, <1>11, <1>12, <1>13, Commands DEF Next,
     Step, Fence, Reopen, Prepare, Worker, Environment, vars, Begin, Abort, AbortLost, Activated,
     Accept, FenceCheck, Intent, Inhibit, StartupToken, PausePublishers, Publisher, RecordClients,
     Dependent, Opening, Open, FenceToken, Release, Start, Verify, Unwind, Boundary, Skipped, Close,
     Live, Reopened, Started, Returned, Lift, Lifted, RetireSlot, Final, PrepareCheck, ImportCheck,
     SetAside, Receipt, Stage, Recover, Receiver, Launch, Outcome, Adopt, ThawCheck, WorkerSnapshot,
     WorkerExport, WorkerImport, WorkerAdmit, Kill, Write, Age, MoveAside, ForeignOpen,
     ForeignClose, GiveUp

\* Every step keeps the types of what the worker and the import leave.
LEMMA WindowTyped == TypeOK /\ [Next]_vars =>
  /\ evidence' \in Option(Snapshots) /\ offHost' \in Option(Receipts) /\ slot' \in Option(Receipts)
  /\ worker' \in [pc : {"idle", "start", "export", "import", "admit"}, import : BOOLEAN]
  /\ acceptance' \in Option(Tokens)
<1> SUFFICES ASSUME TypeOK, [Next]_vars
             PROVE  /\ evidence' \in Option(Snapshots) /\ offHost' \in Option(Receipts) /\ slot' \in Option(Receipts)
                    /\ worker' \in [pc : {"idle", "start", "export", "import", "admit"}, import : BOOLEAN]
                    /\ acceptance' \in Option(Tokens)
  OBVIOUS
<1>1. /\ evidence \in Option(Snapshots) /\ offHost \in Option(Receipts)
      /\ slot \in Option(Receipts) /\ acceptance \in Option(Tokens)
      /\ worker \in [pc : {"idle", "start", "export", "import", "admit"}, import : BOOLEAN]
      /\ journal.fence_token \in Option(Tokens) /\ op.receipt \in Option(Receipts)
      /\ fence \in Option(Tokens) /\ data \in 0..MaxWrites
  BY DEF TypeOK, Journals, Ops
<1> USE DEF authority, units, window, generation, record, bounds
<1>2. CASE Accept
  BY <1>1, <1>2 DEF Accept
<1>3. CASE SetAside
  BY <1>1, <1>3 DEF SetAside, Option
<1>4. CASE Stage
  BY <1>1, <1>4 DEF Stage
<1>5. CASE RetireSlot
  BY <1>1, <1>5 DEF RetireSlot, Option
<1>6. CASE Launch
  BY <1>1, <1>6 DEF Launch, NoWorker
<1>7. CASE WorkerSnapshot
  <2>1. evidence' \in Option(Snapshots)
    <3>1. \A t \in fence : [window |-> t, data |-> data, export |-> 0, fresh |-> TRUE] \in Snapshots
      <4>1. 0 \in 0..MaxExports /\ \A t \in fence : t \in Tokens
        BY <1>1, RolloutAssumption DEF Option
      <4> QED BY <1>1, <4>1 DEF Snapshots
    <3> DEFINE new == {[window |-> t, data |-> data, export |-> 0, fresh |-> TRUE] : t \in fence}
    <3>2. new \in Option(Snapshots)
      <4>1. CASE fence = {}
        <5>1. new = {}
          BY <4>1
        <5> QED BY <5>1 DEF Option
      <4>2. ASSUME NEW t \in Tokens, fence = {t} PROVE new \in Option(Snapshots)
        <5>1. new = {[window |-> t, data |-> data, export |-> 0, fresh |-> TRUE]}
          BY <4>2
        <5> QED BY <3>1, <4>2, <5>1 DEF Option
      <4> QED BY <1>1, <4>1, <4>2 DEF Option
    <3>3. evidence' = evidence \/ evidence' = new
      BY <1>7 DEF WorkerSnapshot
    <3> QED BY <1>1, <3>2, <3>3
  <2>2. worker' \in [pc : {"idle", "start", "export", "import", "admit"}, import : BOOLEAN]
    <3>1. CASE worker' = [worker EXCEPT !.pc = "export"]
      BY <1>1, <3>1
    <3>2. CASE worker' = NoWorker
      BY <3>2 DEF NoWorker
    <3>3. worker' = [worker EXCEPT !.pc = "export"] \/ worker' = NoWorker
      BY <1>7 DEF WorkerSnapshot, WorkerEnds, WorkerGo
    <3> QED BY <3>1, <3>2, <3>3
  <2> QED BY <1>1, <1>7, <2>1, <2>2 DEF WorkerSnapshot
<1>8. CASE WorkerExport
  BY <1>1, <1>8, RolloutAssumption DEF WorkerExport, WorkerGo, Option, Snapshots, Exports
<1>9. CASE WorkerImport
  <2>1. worker' \in [pc : {"idle", "start", "export", "import", "admit"}, import : BOOLEAN]
    <3>1. CASE worker' = [worker EXCEPT !.pc = "admit"]
      BY <1>1, <3>1
    <3>2. CASE worker' = NoWorker
      BY <3>2 DEF NoWorker
    <3>3. worker' = [worker EXCEPT !.pc = "admit"] \/ worker' = NoWorker
      BY <1>9 DEF WorkerImport, WorkerEnds, WorkerGo
    <3> QED BY <3>1, <3>2, <3>3
  <2>2. offHost' \in Option(Receipts) /\ UNCHANGED <<evidence, slot, acceptance>>
    BY <1>1, <1>9 DEF WorkerImport
  <2> QED BY <1>1, <2>1, <2>2
<1>10. CASE WorkerAdmit
  BY <1>1, <1>10 DEF WorkerAdmit, WorkerEnds, NoWorker
<1>11. CASE Reboot
  BY <1>1, <1>11 DEF Reboot, NoWorker
<1>12. CASE Age
  BY <1>1, <1>12 DEF Age, Option, Snapshots
<1>13. CASE MoveAside
  BY <1>1, <1>13 DEF MoveAside, Option
<1>14. CASE UNCHANGED window
  BY <1>1, <1>14
<1> QED
  BY <1>2, <1>3, <1>4, <1>5, <1>6, <1>7, <1>8, <1>9, <1>10, <1>11, <1>12, <1>13, <1>14, Commands DEF
     Next, Step, Fence, Reopen, Prepare, Worker, Environment, vars, Begun, Begin, Abort, AbortLost,
     Activated, Archive, FenceCheck, Intent, Inhibit, StartupToken, PausePublishers, Publisher,
     PublisherStop, RecordClients, ClientStop, Dependent, PrimaryStop, Opening, Open, FenceToken,
     Release, Start, Verify, Unwind, Boundary, Skipped, Close, Live, Reopened, Return, Started,
     Returned, Lift, Lifted, Final, PrepareCheck, ImportCheck, Receipt, Recover, Receiver,
     ReceiverStop, Outcome, Adopt, ThawCheck, Activate, Kill, Write, ForeignOpen, ForeignClose,
     LoseJournal, GiveUp, Timer

\* Every step keeps the counters within their bounds.
LEMMA BoundsTyped == TypeOK /\ [Next]_vars =>
  /\ data' \in 0..MaxWrites /\ kills' \in 0..MaxKills /\ failures' \in 0..MaxFailures
  /\ lost' \in 0..MaxLost
<1> SUFFICES ASSUME TypeOK, [Next]_vars
             PROVE  /\ data' \in 0..MaxWrites /\ kills' \in 0..MaxKills /\ failures' \in 0..MaxFailures
                    /\ lost' \in 0..MaxLost
  OBVIOUS
<1>1. /\ data \in 0..MaxWrites /\ kills \in 0..MaxKills /\ failures \in 0..MaxFailures
      /\ lost \in 0..MaxLost
  BY DEF TypeOK
<1> USE DEF authority, units, window, generation, record, bounds
<1>2. CASE Return
  BY <1>1, <1>2, RolloutAssumption DEF Return
<1>3. CASE Kill
  BY <1>1, <1>3, RolloutAssumption DEF Kill
<1>4. CASE Reboot
  BY <1>1, <1>4, RolloutAssumption DEF Reboot
<1>5. CASE Write
  BY <1>1, <1>5, RolloutAssumption DEF Write
<1>6. CASE LoseJournal
  BY <1>1, <1>6, RolloutAssumption DEF LoseJournal
<1>7. CASE UNCHANGED <<data, kills, failures, lost>>
  BY <1>1, <1>7
<1> QED
  BY <1>2, <1>3, <1>4, <1>5, <1>6, <1>7, Commands DEF Next, Step, Fence, Reopen, Prepare, Worker,
     Environment, vars, Begun, Begin, Abort, AbortLost, Activated, Accept, Archive, FenceCheck,
     Intent, Inhibit, StartupToken, PausePublishers, Publisher, PublisherStop, RecordClients,
     ClientStop, Dependent, PrimaryStop, Opening, Open, FenceToken, Release, Start, Verify, Unwind,
     Boundary, Skipped, Close, Live, Reopened, Started, Returned, Lift, Lifted, RetireSlot, Final,
     PrepareCheck, ImportCheck, SetAside, Receipt, Stage, Recover, Receiver, ReceiverStop, Launch,
     Outcome, Adopt, ThawCheck, WorkerSnapshot, WorkerExport, WorkerImport, WorkerAdmit, Activate,
     Age, MoveAside, ForeignOpen, ForeignClose, GiveUp, Timer

\* Every step keeps the adoptions sets of fences.
LEMMA HistoryTyped ==
  TypeOK /\ [Next]_vars => adopted' \in SUBSET Tokens /\ forgotten' \in SUBSET Tokens
<1> SUFFICES ASSUME TypeOK, [Next]_vars
             PROVE  adopted' \in SUBSET Tokens /\ forgotten' \in SUBSET Tokens
  OBVIOUS
<1>1. /\ adopted \in SUBSET Tokens /\ forgotten \in SUBSET Tokens
      /\ fence \in SUBSET Tokens
  BY DEF TypeOK, Option
<1> USE DEF authority, units, window, generation, record, bounds
<1>2. CASE Adopt
  BY <1>1, <1>2 DEF Adopt
<1>3. CASE LoseJournal
  BY <1>1, <1>3 DEF LoseJournal
<1>4. CASE UNCHANGED <<adopted, forgotten>>
  BY <1>1, <1>4
<1> QED
  BY <1>2, <1>3, <1>4, Commands DEF Next, Step, Fence, Reopen, Prepare, Worker, Environment, vars,
     Begun, Begin, Abort, AbortLost, Activated, Accept, Archive, FenceCheck, Intent, Inhibit,
     StartupToken, PausePublishers, Publisher, PublisherStop, RecordClients, ClientStop, Dependent,
     PrimaryStop, Opening, Open, FenceToken, Release, Start, Verify, Unwind, Boundary, Skipped,
     Close, Live, Reopened, Return, Started, Returned, Lift, Lifted, RetireSlot, Final,
     PrepareCheck, ImportCheck, SetAside, Receipt, Stage, Recover, Receiver, ReceiverStop, Launch,
     Outcome, ThawCheck, WorkerSnapshot, WorkerExport, WorkerImport, WorkerAdmit, Activate, Kill,
     Reboot, Write, Age, MoveAside, ForeignOpen, ForeignClose, GiveUp, Timer

\* The initial state is typed.
LEMMA InitTyped == Init => TypeOK
<1> SUFFICES ASSUME Init PROVE TypeOK
  OBVIOUS
<1>1. journal \in Journals
  BY DEF Init, NoJournal, Journals, Phases, Option
<1>2. op \in Ops
  BY DEF Init, Idle, Ops, Acts, Steps, Option
<1>3. /\ held = {} /\ fence = {} /\ closed = {} /\ running \subseteq Units /\ skipped = {} /\ owed = {}
      /\ evidence = {} /\ offHost = {} /\ slot = {} /\ acceptance = {} /\ ours = {}
      /\ adopted = {} /\ forgotten = {}
      /\ primary \in BOOLEAN /\ paused \in BOOLEAN /\ installed \in BOOLEAN
      /\ profile \in BOOLEAN /\ booted \in BOOLEAN /\ gaveUp \in BOOLEAN
  BY DEF Init
<1>4. \A S : {} \in Option(S)
  BY DEF Option
<1>5. data \in 0..MaxWrites /\ tokens \in 0..MaxFences /\ kills \in 0..MaxKills
      /\ failures \in 0..MaxFailures /\ lost \in 0..MaxLost
  BY RolloutAssumption DEF Init
<1>6. worker \in [pc : {"idle", "start", "export", "import", "admit"}, import : BOOLEAN]
  BY DEF Init, NoWorker
<1> QED BY <1>1, <1>2, <1>3, <1>4, <1>5, <1>6 DEF TypeOK, Ops

\* Every step keeps the types.
LEMMA TypedNext == TypeOK /\ [Next]_vars => TypeOK'
BY JournalTyped, OpTyped, AuthorityTyped, FlagsTyped, UnitsTyped, WindowTyped, BoundsTyped, HistoryTyped
   DEF TypeOK, Ops

\* Every step keeps the course: an invocation only reaches the places of its
\* verb (the order of calls in fence, prepare, import, adopt, thaw and abort).
LEMMA CourseNext == TypeOK /\ Course /\ [Next]_vars => Course'
<1> SUFFICES ASSUME TypeOK, Course, [Next]_vars PROVE Course'
  OBVIOUS
<1>1. op \in Ops /\ op.act \in Acts
  BY DEF TypeOK, Ops
<1> USE DEF At, Go, GoIf, Refuse, Idle, Save, authority, units, window, generation, record, bounds
<1>2. CASE Begun
  BY <1>1, <1>2, BeginWrites DEF Same, Begun, Course, Unwinding, Resuming, Resume, Acquire, Before,
     After, Waiting, Staging, Acts
<1>3. CASE Abort
  BY <1>3, <1>1 DEF Abort, NoWorker, Ready, Unfinished, Coordinator, Ops, Course, Unwinding,
     Resuming, Resume, Acquire, Before, After, Waiting, Staging, Acts
<1>4. CASE AbortLost
  BY <1>4, <1>1 DEF AbortLost, Fresh, NoJournal, NoWorker, Ready, Coordinator, Ops, Course,
     Unwinding, Resuming, Resume, Acquire, Before, After, Waiting, Staging, Acts
<1>5. CASE FenceCheck
  BY <1>5, <1>1 DEF FenceCheck, Bound, Fresh, NoJournal, OwnFence, Preflight, NoStaleEvidence, Ops,
     Course, Unwinding, Resuming, Resume, Acquire, Before, After, Waiting, Staging, Acts
<1>6. CASE Intent
  BY <1>6, <1>1 DEF Intent, Bound, Fresh, NoJournal, Ops, Course, Unwinding, Resuming, Resume,
     Acquire, Before, After, Waiting, Staging, Acts
<1>7. CASE Inhibit
  BY <1>7, <1>1 DEF Inhibit, Ops, Course, Unwinding, Resuming, Resume, Acquire, Before, After,
     Waiting, Staging, Acts
<1>8. CASE StartupToken
  BY <1>1, <1>8, StartupTokenWrites DEF Same, Course, Unwinding, Resuming, Resume, Acquire, Before,
     After, Waiting, Staging, Acts
<1>9. CASE PausePublishers
  BY <1>9, <1>1 DEF PausePublishers, Ops, Course, Unwinding, Resuming, Resume, Acquire, Before,
     After, Waiting, Staging, Acts
<1>10. CASE Publisher
  BY <1>1, <1>10, PublisherWrites DEF Same, Course, Unwinding, Resuming, Resume, Acquire, Before,
     After, Waiting, Staging, Acts
<1>11. CASE PublisherStop
  BY <1>11, <1>1 DEF PublisherStop, StopUnit, Ops, Course, Unwinding, Resuming, Resume, Acquire,
     Before, After, Waiting, Staging, Acts
<1>12. CASE RecordClients
  BY <1>12, <1>1 DEF RecordClients, Ops, Course, Unwinding, Resuming, Resume, Acquire, Before,
     After, Waiting, Staging, Acts
<1>13. CASE ClientStop
  BY <1>13, <1>1 DEF ClientStop, StopUnit, Ops, Course, Unwinding, Resuming, Resume, Acquire,
     Before, After, Waiting, Staging, Acts
<1>14. CASE Dependent
  BY <1>14, <1>1 DEF Dependent, Loaded, Ops, Course, Unwinding, Resuming, Resume, Acquire, Before,
     After, Waiting, Staging, Acts
<1>15. CASE PrimaryStop
  BY <1>15, <1>1 DEF PrimaryStop, Ops, Course, Unwinding, Resuming, Resume, Acquire, Before, After,
     Waiting, Staging, Acts
<1>16. CASE Opening
  BY <1>16, <1>1 DEF Opening, OwnFence, Ops, Course, Unwinding, Resuming, Resume, Acquire, Before,
     After, Waiting, Staging, Acts
<1>17. CASE Open
  BY <1>17, <1>1 DEF Open, Ops, Course, Unwinding, Resuming, Resume, Acquire, Before, After,
     Waiting, Staging, Acts
<1>18. CASE FenceToken
  BY <1>18, <1>1 DEF FenceToken, Ops, Course, Unwinding, Resuming, Resume, Acquire, Before, After,
     Waiting, Staging, Acts
<1>19. CASE Release
  BY <1>19, <1>1 DEF Release, Unwinding, Ops, Course, Resuming, Resume, Acquire, Before, After,
     Waiting, Staging, Acts
<1>20. CASE Start
  BY <1>20, <1>1 DEF Start, Unwinding, Ops, Course, Resuming, Resume, Acquire, Before, After,
     Waiting, Staging, Acts
<1>21. CASE Verify
  BY <1>21, <1>1 DEF Verify, InspectFence, Ops, Course, Unwinding, Resuming, Resume, Acquire,
     Before, After, Waiting, Staging, Acts
<1>22. CASE Unwind
  BY <1>1, <1>22, UnwindWrites DEF Same, Course, Unwinding, Resuming, Resume, Acquire, Before,
     After, Waiting, Staging, Acts
<1>23. CASE Boundary
  BY <1>23, <1>1 DEF Boundary, OwnFence, Ops, Course, Unwinding, Resuming, Resume, Acquire, Before,
     After, Waiting, Staging, Acts
<1>24. CASE Skipped
  BY <1>24, <1>1 DEF Skipped, Ops, Course, Unwinding, Resuming, Resume, Acquire, Before, After,
     Waiting, Staging, Acts
<1>25. CASE Close
  BY <1>25, <1>1 DEF Close, Ops, Course, Unwinding, Resuming, Resume, Acquire, Before, After,
     Waiting, Staging, Acts
<1>26. CASE Live
  BY <1>26, <1>1 DEF Live, Ops, Course, Unwinding, Resuming, Resume, Acquire, Before, After,
     Waiting, Staging, Acts
<1>27. CASE Reopened
  BY <1>1, <1>27, ReopenedWrites DEF Same, Course, Unwinding, Resuming, Resume, Acquire, Before,
     After, Waiting, Staging, Acts
<1>28. CASE Return
  BY <1>1, <1>28, ReturnWrites DEF Same, Course, Unwinding, Resuming, Resume, Acquire, Before,
     After, Waiting, Staging, Acts
<1>29. CASE Started
  BY <1>1, <1>29, StartedWrites DEF Same, Course, Unwinding, Resuming, Resume, Acquire, Before,
     After, Waiting, Staging, Acts
<1>30. CASE Returned
  <2>1. CASE op' = Idle
    BY <2>1 DEF Course, Unwinding, Resuming, Resume, Acquire, Before, After, Waiting, Staging, Acts
  <2>2. CASE op' # Idle
    <3>1. op.pc = "return" /\ Same
      BY <1>1, <1>30, <2>2, ReturnedWrites
    <3>2. CASE op.list = "clients"
      BY <1>1, <1>30, <2>2, <3>1, <3>2, ReturnedWrites
      DEF Same, Course, Unwinding, Resuming, Resume, Acquire, Before, After, Waiting, Staging, Acts
    <3>3. CASE op.list # "clients"
      BY <1>1, <1>30, <2>2, <3>1, <3>3, ReturnedWrites
      DEF Same, Course, Unwinding, Resuming, Resume, Acquire, Before, After, Waiting, Staging, Acts
    <3> QED BY <3>2, <3>3
  <2> QED BY <2>1, <2>2
<1>31. CASE Lift
  BY <1>31, <1>1 DEF Lift, Ops, Course, Unwinding, Resuming, Resume, Acquire, Before, After,
     Waiting, Staging, Acts
<1>32. CASE Lifted
  BY <1>1, <1>32, LiftedWrites DEF Same, Course, Unwinding, Resuming, Resume, Acquire, Before,
     After, Waiting, Staging, Acts
<1>33. CASE RetireSlot
  BY <1>33, <1>1 DEF RetireSlot, Ops, Course, Unwinding, Resuming, Resume, Acquire, Before, After,
     Waiting, Staging, Acts
<1>34. CASE Final
  BY <1>34, <1>1 DEF Final, Ops, Course, Unwinding, Resuming, Resume, Acquire, Before, After,
     Waiting, Staging, Acts
<1>35. CASE PrepareCheck
  BY <1>35, <1>1 DEF PrepareCheck, Ops, Course, Unwinding, Resuming, Resume, Acquire, Before, After,
     Waiting, Staging, Acts
<1>36. CASE ImportCheck
  BY <1>36, <1>1 DEF ImportCheck, Ops, Course, Unwinding, Resuming, Resume, Acquire, Before, After,
     Waiting, Staging, Acts
<1>37. CASE SetAside
  BY <1>37, <1>1 DEF SetAside, Ops, Course, Unwinding, Resuming, Resume, Acquire, Before, After,
     Waiting, Staging, Acts
<1>38. CASE Receipt
  BY <1>38, <1>1 DEF Receipt, Ops, Course, Unwinding, Resuming, Resume, Acquire, Before, After,
     Waiting, Staging, Acts
<1>39. CASE Stage
  BY <1>39, <1>1 DEF Stage, Ops, Course, Unwinding, Resuming, Resume, Acquire, Before, After,
     Waiting, Staging, Acts
<1>40. CASE Recover
  BY <1>1, <1>40, RecoverWrites DEF Same, Course, Unwinding, Resuming, Resume, Acquire, Before,
     After, Waiting, Staging, Acts
<1>41. CASE Receiver
  BY <1>1, <1>41, ReceiverWrites DEF Same, Course, Unwinding, Resuming, Resume, Acquire, Before,
     After, Waiting, Staging, Acts
<1>42. CASE ReceiverStop
  BY <1>42, <1>1 DEF ReceiverStop, StopUnit, Ops, Course, Unwinding, Resuming, Resume, Acquire,
     Before, After, Waiting, Staging, Acts
<1>43. CASE Launch
  BY <1>43, <1>1 DEF Launch, NoWorker, Ops, Course, Unwinding, Resuming, Resume, Acquire, Before,
     After, Waiting, Staging, Acts
<1>44. CASE Outcome
  BY <1>1, <1>44, OutcomeWrites DEF Same, Course, Unwinding, Resuming, Resume, Acquire, Before,
     After, Waiting, Staging, Acts
<1>45. CASE Adopt
  BY <1>45, <1>1 DEF Adopt, Admitted, Ops, Course, Unwinding, Resuming, Resume, Acquire, Before,
     After, Waiting, Staging, Acts
<1>46. CASE ThawCheck
  BY <1>46, <1>1 DEF ThawCheck, InspectFence, Admitted, Ops, Course, Unwinding, Resuming, Resume,
     Acquire, Before, After, Waiting, Staging, Acts
<1>47. CASE UNCHANGED op
  BY <1>47 DEF Course, Unwinding, Resuming, Resume, Acquire, Before, After, Waiting, Staging, Acts
<1>48. CASE op' = Idle
  BY <1>48 DEF Course, Unwinding, Resuming, Resume, Acquire, Before, After, Waiting, Staging, Acts
<1>49. CASE Worker
  BY <1>1, <1>49, WorkerWrites
  DEF Same, Course, Unwinding, Resuming, Resume, Acquire, Before, After, Waiting, Staging, Acts
<1> QED
  BY <1>2, <1>3, <1>4, <1>5, <1>6, <1>7, <1>8, <1>9, <1>10, <1>11, <1>12, <1>13, <1>14, <1>15,
     <1>16, <1>17, <1>18, <1>19, <1>20, <1>21, <1>22, <1>23, <1>24, <1>25, <1>26, <1>27, <1>28,
     <1>29, <1>30, <1>31, <1>32, <1>33, <1>34, <1>35, <1>36, <1>37, <1>38, <1>39, <1>40, <1>41,
     <1>42, <1>43, <1>44, <1>45, <1>46, <1>47, <1>48, <1>49, Commands
  DEF Next, Step, Fence, Reopen, Prepare, Environment, vars, Activated, Accept, Archive,
      Activate, Kill, Reboot, Write, Age, MoveAside, ForeignOpen, ForeignClose, LoseJournal, GiveUp,
      Timer

-----------------------------------------------------------------------------
(* Which step leads where, and what each one writes.                        *)

\* The only steps after which an invocation is at a place.
Arrived ==
  /\ op'.pc = "check" => Begun \/ Returned
  /\ op'.pc = "intent" => FenceCheck \/ Skipped
  /\ op'.pc = "inhibit" => Intent
  /\ op'.pc = "startup_token" => Inhibit
  /\ op'.pc = "pause" => StartupToken
  /\ op'.pc = "publishers" => PausePublishers \/ PublisherStop
  /\ op'.pc = "publisher_stop" => Publisher
  /\ op'.pc = "clients" => FenceCheck \/ Publisher
  /\ op'.pc = "client_stop" => RecordClients
  /\ op'.pc = "dependents" => StartupToken \/ ClientStop \/ Boundary
  /\ op'.pc = "primary_stop" => Dependent
  /\ op'.pc = "opening" => PrimaryStop
  /\ op'.pc = "close" => PrimaryStop
  /\ op'.pc = "open" => Opening
  /\ op'.pc = "fence_token" => Open
  /\ op'.pc = "release" => FenceToken \/ Close
  /\ op'.pc = "start" => Release
  /\ op'.pc = "verify" => Start \/ ClientStop
  /\ op'.pc = "unwind" => Abort \/ AbortLost \/ ThawCheck
  /\ op'.pc = "boundary" => Unwind
  /\ op'.pc = "restart_only" => Boundary
  /\ op'.pc = "live" => Start
  /\ op'.pc = "skipped" => Boundary \/ Release
  /\ op'.pc = "reopened" => Skipped \/ Live
  /\ op'.pc = "return" => Begun \/ Unwind \/ Reopened \/ Started \/ Lifted \/ Outcome
  /\ op'.pc = "started" => Return
  /\ op'.pc = "lift" => Returned
  /\ op'.pc = "lifted" => Lift
  /\ op'.pc = "retire" => Returned
  /\ op'.pc = "final" => RetireSlot
  /\ op'.pc = "aside" => ImportCheck
  /\ op'.pc = "receipt" => SetAside
  /\ op'.pc = "stage" => Receipt
  /\ op'.pc = "recover" => PrepareCheck \/ Stage
  /\ op'.pc = "receivers" => Recover \/ ReceiverStop
  /\ op'.pc = "receiver_stop" => Receiver
  /\ op'.pc = "launch" => Receiver
  /\ op'.pc = "await" => Launch
  /\ op'.pc = "ready" => Worker
  /\ op'.pc = "stopped" => Worker

\* The only steps that change the rest of its memory.
\* The steps with which an invocation begins.
Invoked == Begun \/ Abort \/ AbortLost
\* The only steps that change the rest of its memory.
Kept ==
  /\ op'.act # op.act => Invoked
  /\ op'.receipt # op.receipt => Invoked
  /\ op'.boundary # op.boundary => Invoked \/ StartupToken
  /\ op'.failed # op.failed => Invoked \/ Return
  /\ op'.list # op.list => Invoked \/ Unwind \/ Reopened \/ Returned \/ Lifted \/ Outcome
  /\ op'.unit # op.unit =>
       \/ Invoked \/ Publisher \/ PublisherStop \/ Receiver \/ ReceiverStop \/ Return \/ Started
  /\ op'.todo # op.todo =>
       \/ Invoked \/ RecordClients \/ ClientStop \/ Unwind \/ Reopened \/ Return \/ Returned
       \/ Lifted \/ Outcome

\* Every step ends the invocation, leaves it where it is, or is one that
\* Arrived names for the place it leads to.
LEMMA Arrivals == TypeOK /\ [Next]_vars => op' = Idle \/ (Kept /\ (op'.pc = op.pc \/ Arrived))
<1> SUFFICES ASSUME TypeOK, [Next]_vars PROVE op' = Idle \/ (Kept /\ (op'.pc = op.pc \/ Arrived))
  OBVIOUS
<1>1. op \in Ops
  BY DEF TypeOK, Ops
<1>2. CASE Begun
  <2>1. op'.pc \in {"check", "return"}
    BY <1>2, BeginWrites DEF Begun
  <2> QED BY <1>2, <2>1 DEF Arrived, Kept, Invoked
<1>3. CASE Abort
  BY <1>1, <1>3 DEF Abort, Idle, Ops, Arrived, Kept, Invoked
<1>4. CASE AbortLost
  BY <1>1, <1>4 DEF AbortLost, Idle, Ops, Arrived, Kept, Invoked
<1>5. CASE FenceCheck
  BY <1>1, <1>5 DEF FenceCheck, At, Go, GoIf, Refuse, Idle, Ops, Arrived, Kept
<1>6. CASE Intent
  BY <1>1, <1>6 DEF Intent, At, Go, Ops, Arrived, Kept
<1>7. CASE Inhibit
  BY <1>1, <1>7 DEF Inhibit, At, Go, Ops, Arrived, Kept
<1>8. CASE StartupToken
  BY <1>1, <1>8, StartupTokenWrites DEF Arrived, Kept, Same
<1>9. CASE PausePublishers
  BY <1>1, <1>9 DEF PausePublishers, At, Go, Ops, Arrived, Kept
<1>10. CASE Publisher
  BY <1>1, <1>10, PublisherWrites DEF Arrived, Kept, Same
<1>11. CASE PublisherStop
  BY <1>1, <1>11 DEF PublisherStop, At, Ops, Arrived, Kept
<1>12. CASE RecordClients
  BY <1>1, <1>12 DEF RecordClients, At, Ops, Arrived, Kept
<1>13. CASE ClientStop
  BY <1>1, <1>13 DEF ClientStop, At, Go, Ops, Arrived, Kept
<1>14. CASE Dependent
  BY <1>1, <1>14 DEF Dependent, At, Go, Ops, Arrived, Kept
<1>15. CASE PrimaryStop
  BY <1>1, <1>15 DEF PrimaryStop, At, Go, Ops, Arrived, Kept
<1>16. CASE Opening
  BY <1>1, <1>16 DEF Opening, At, Go, Refuse, Idle, Ops, Arrived, Kept
<1>17. CASE Open
  BY <1>1, <1>17 DEF Open, At, Go, Ops, Arrived, Kept
<1>18. CASE FenceToken
  BY <1>1, <1>18 DEF FenceToken, At, Go, Ops, Arrived, Kept
<1>19. CASE Release
  BY <1>1, <1>19 DEF Release, At, Go, Refuse, Idle, Unwinding, Ops, Arrived, Kept
<1>20. CASE Start
  BY <1>1, <1>20 DEF Start, At, Go, Unwinding, Ops, Arrived, Kept
<1>21. CASE Verify
  BY <1>1, <1>21 DEF Verify, At, Refuse, Idle, Ops, Arrived, Kept
<1>22. CASE Unwind
  BY <1>1, <1>22, UnwindWrites DEF Arrived, Kept, Same
<1>23. CASE Boundary
  BY <1>1, <1>23 DEF Boundary, At, Go, GoIf, Refuse, Idle, Ops, Arrived, Kept
<1>24. CASE Skipped
  BY <1>1, <1>24 DEF Skipped, At, Go, Ops, Arrived, Kept
<1>25. CASE Close
  BY <1>1, <1>25 DEF Close, At, Go, Refuse, Idle, Ops, Arrived, Kept
<1>26. CASE Live
  BY <1>1, <1>26 DEF Live, At, Go, GoIf, Refuse, Idle, Ops, Arrived, Kept
<1>27. CASE Reopened
  BY <1>1, <1>27, ReopenedWrites DEF Arrived, Kept, Same
<1>28. CASE Return
  BY <1>1, <1>28, ReturnWrites DEF Arrived, Kept, Same
<1>29. CASE Started
  BY <1>1, <1>29, StartedWrites DEF Arrived, Kept, Same
<1>30. CASE Returned
  BY <1>1, <1>30, ReturnedWrites DEF Arrived, Kept, Same
<1>31. CASE Lift
  BY <1>1, <1>31 DEF Lift, At, Go, Ops, Arrived, Kept
<1>32. CASE Lifted
  BY <1>1, <1>32, LiftedWrites DEF Arrived, Kept, Same
<1>33. CASE RetireSlot
  BY <1>1, <1>33 DEF RetireSlot, At, Go, Ops, Arrived, Kept
<1>34. CASE Final
  BY <1>1, <1>34 DEF Final, At, Refuse, Idle, Ops, Arrived, Kept
<1>35. CASE PrepareCheck
  BY <1>1, <1>35 DEF PrepareCheck, At, Go, GoIf, Refuse, Idle, Ops, Arrived, Kept
<1>36. CASE ImportCheck
  BY <1>1, <1>36 DEF ImportCheck, At, Go, Refuse, Idle, Ops, Arrived, Kept
<1>37. CASE SetAside
  BY <1>1, <1>37 DEF SetAside, At, Go, Ops, Arrived, Kept
<1>38. CASE Receipt
  BY <1>1, <1>38 DEF Receipt, At, Go, Ops, Arrived, Kept
<1>39. CASE Stage
  BY <1>1, <1>39 DEF Stage, At, Go, Ops, Arrived, Kept
<1>40. CASE Recover
  BY <1>1, <1>40, RecoverWrites DEF Arrived, Kept, Same
<1>41. CASE Receiver
  BY <1>1, <1>41, ReceiverWrites DEF Arrived, Kept, Same
<1>42. CASE ReceiverStop
  BY <1>1, <1>42 DEF ReceiverStop, At, Ops, Arrived, Kept
<1>43. CASE Launch
  BY <1>1, <1>43 DEF Launch, At, Go, Ops, Arrived, Kept
<1>44. CASE Outcome
  BY <1>1, <1>44, OutcomeWrites DEF Arrived, Kept, Same
<1>45. CASE Adopt
  BY <1>1, <1>45 DEF Adopt, At, Refuse, Idle, Ops, Arrived, Kept
<1>46. CASE ThawCheck
  BY <1>1, <1>46 DEF ThawCheck, At, Go, Refuse, Idle, Ops, Arrived, Kept
<1>47. CASE UNCHANGED op
  BY <1>47 DEF Kept
<1>48. CASE Worker
  BY <1>1, <1>48, WorkerWrites DEF Arrived, Kept, Same
<1> QED
  BY <1>2, <1>3, <1>4, <1>5, <1>6, <1>7, <1>8, <1>9, <1>10, <1>11, <1>12, <1>13, <1>14, <1>15,
     <1>16, <1>17, <1>18, <1>19, <1>20, <1>21, <1>22, <1>23, <1>24, <1>25, <1>26, <1>27, <1>28,
     <1>29, <1>30, <1>31, <1>32, <1>33, <1>34, <1>35, <1>36, <1>37, <1>38, <1>39, <1>40, <1>41,
     <1>42, <1>43, <1>44, <1>45, <1>46, <1>47, <1>48, Commands
  DEF Next, Step, Fence, Reopen, Prepare, Environment, vars, Activated, Accept, Archive,
      Activate, Kill, Reboot, Write, Age, MoveAside, ForeignOpen, ForeignClose, LoseJournal, GiveUp,
      Timer

\* A journal is taken away between invocations: archived, or lost.
Erased == /\ op.pc = "idle" /\ journal' = NoJournal
          /\ LoseJournal \/ (Archivable /\ owed' = owed \ journal.unloaded)

\* What the outcome of a preparation changes in the journal: its phase and export.
LEMMA SettleWrites ==
  ASSUME journal \in Journals, Recover \/ Outcome
  PROVE  \/ journal' = journal
         \/ /\ journal'.phase = "imported" /\ journal'.export = journal.export
            /\ journal'.clients = journal.clients /\ journal'.startup_token = journal.startup_token
            /\ journal'.fence_token = journal.fence_token /\ journal'.receipt = journal.receipt
            /\ journal'.accepted = journal.accepted
            /\ journal'.pending_receivers = journal.pending_receivers
            /\ journal'.stopped_publishers = journal.stopped_publishers
            /\ journal'.pending_clients = journal.pending_clients
            /\ journal'.unloaded = journal.unloaded /\ journal'.inhibiting = journal.inhibiting
            /\ journal'.fence_opening = journal.fence_opening /\ journal'.reopened = journal.reopened
            /\ (Recover /\ InspectFence /\ Admitted) \/ (Outcome /\ op.pc = "ready")
         \/ /\ journal'.phase = "prepared"
            /\ journal'.clients = journal.clients /\ journal'.startup_token = journal.startup_token
            /\ journal'.fence_token = journal.fence_token /\ journal'.receipt = journal.receipt
            /\ journal'.accepted = journal.accepted
            /\ journal'.pending_receivers = journal.pending_receivers
            /\ journal'.stopped_publishers = journal.stopped_publishers
            /\ journal'.pending_clients = journal.pending_clients
            /\ journal'.unloaded = journal.unloaded /\ journal'.inhibiting = journal.inhibiting
            /\ journal'.fence_opening = journal.fence_opening /\ journal'.reopened = journal.reopened
            /\ (Recover /\ InspectFence) \/ Outcome
            /\ \E e \in evidence : journal.fence_token = {e.window}
<1>1. \/ journal' = journal
      \/ /\ journal' \in Imported(journal)
         /\ (Recover /\ InspectFence /\ Admitted) \/ (Outcome /\ op.pc = "ready")
      \/ /\ journal' \in Prepared(journal)
         /\ (Recover /\ InspectFence) \/ Outcome
  <2>1. CASE Recover
    <3>1. CASE ~InspectFence \/ (slot # {} /\ slot # journal.receipt)
      BY <2>1, <3>1 DEF Recover
    <3>2. CASE InspectFence /\ ~(slot # {} /\ slot # journal.receipt) /\ slot # {} /\ Admitted
      <4>1. Settle(Imported(journal), "idle")
        BY <2>1, <3>2 DEF Recover
      <4>2. journal' = journal \/ journal' \in Imported(journal)
        BY <4>1 DEF Settle
      <4> QED BY <2>1, <3>2, <4>2
    <3>3. CASE InspectFence /\ slot = {} /\ Prepared(journal) # {}
      BY <2>1, <3>3 DEF Recover, Settle
    <3>4. CASE /\ InspectFence /\ ~(slot # {} /\ slot # journal.receipt) /\ ~(slot # {} /\ Admitted)
               /\ ~(slot = {} /\ Prepared(journal) # {})
      BY <2>1, <3>4 DEF Recover
    <3> QED BY <3>1, <3>2, <3>3, <3>4
  <2>2. CASE Outcome
    BY <2>2 DEF Outcome, Settle, At
  <2> QED BY <2>1, <2>2
<1>2. CASE /\ journal' \in Imported(journal)
           /\ (Recover /\ InspectFence /\ Admitted) \/ (Outcome /\ op.pc = "ready")
  <2>1. journal' = [journal EXCEPT !.phase = "imported"]
    BY <1>2 DEF Imported
  <2> QED BY <1>2, <2>1 DEF Journals
<1>3. CASE /\ journal' \in Prepared(journal)
           /\ (Recover /\ InspectFence) \/ Outcome
  <2>1. PICK e \in evidence : /\ journal.fence_token = {e.window}
                              /\ journal' = [journal EXCEPT !.phase = "prepared", !.export = {e.export}]
    BY <1>3 DEF Prepared
  <2> QED BY <1>3, <2>1 DEF Journals
<1> QED BY <1>1, <1>2, <1>3

\* The only steps that write a field.
Written ==
  /\ journal' # journal =>
       Intent \/ StartupToken \/ Publisher \/ RecordClients \/ Dependent \/ Opening \/ FenceToken \/ Verify \/
       Unwind \/ Skipped \/ Reopened \/ Return \/ Started \/ Lift \/ Final \/ Receipt \/ Recover \/ Receiver \/ Outcome \/
       Adopt \/ ThawCheck \/ AbortLost \/ Activated
  /\ journal'.phase # journal.phase =>
       Intent \/ Verify \/ Recover \/ Outcome \/ Adopt \/ Activated \/ Final \/ AbortLost
  /\ journal'.clients # journal.clients => RecordClients \/ Dependent \/ Skipped
  /\ journal'.startup_token # journal.startup_token => StartupToken \/ Unwind \/ AbortLost
  /\ journal'.fence_token # journal.fence_token => FenceToken \/ AbortLost
  /\ journal'.receipt # journal.receipt => Receipt
  /\ journal'.accepted # journal.accepted => ThawCheck
  /\ journal'.pending_receivers # journal.pending_receivers =>
       Dependent \/ Receiver \/ Return \/ Started \/ AbortLost
  /\ journal'.stopped_publishers # journal.stopped_publishers =>
       Publisher \/ Lift \/ Return \/ Started \/ AbortLost
  /\ journal'.pending_clients # journal.pending_clients => Reopened \/ Return \/ Started
  /\ journal'.unloaded # journal.unloaded => Return
  /\ journal'.inhibiting # journal.inhibiting => Intent \/ AbortLost
  /\ journal'.fence_opening # journal.fence_opening => Opening \/ AbortLost
  /\ journal'.reopened # journal.reopened => Reopened

\* Every step takes a journal away between invocations or writes only the
\* fields Written grants it.
LEMMA Writings == TypeOK /\ Blank /\ [Next]_vars => Erased \/ Written
<1> SUFFICES ASSUME TypeOK, Blank, [Next]_vars PROVE Erased \/ Written
  OBVIOUS
<1>1. journal \in Journals
  BY DEF TypeOK
<1>2. CASE Intent
  BY <1>1, <1>2 DEF Intent, Save, Bound, Fresh, NoJournal, Blank, Journals, Written
<1>3. CASE StartupToken
  BY <1>1, <1>3 DEF StartupToken, Save, Journals, Written
<1>4. CASE Publisher
  BY <1>1, <1>4 DEF Publisher, Save, Journals, Written
<1>5. CASE RecordClients
  BY <1>1, <1>5 DEF RecordClients, Save, Journals, Written
<1>6. CASE Dependent
  BY <1>1, <1>6 DEF Dependent, Save, Journals, Written
<1>7. CASE Opening
  BY <1>1, <1>7 DEF Opening, Save, Journals, Written
<1>8. CASE FenceToken
  BY <1>1, <1>8 DEF FenceToken, Save, Journals, Written
<1>9. CASE Verify
  BY <1>1, <1>9 DEF Verify, Save, Journals, Written
<1>10. CASE Unwind
  BY <1>1, <1>10 DEF Unwind, Save, Journals, Written
<1>11. CASE Skipped
  BY <1>1, <1>11 DEF Skipped, Save, Journals, Written
<1>12. CASE Reopened
  BY <1>1, <1>12 DEF Reopened, Save, Journals, Written
<1>13. CASE Return
  <2>1. CASE op.list = "clients"
    BY <1>1, <1>13, <2>1 DEF Return, Save, Left, Journals, Written
  <2>2. CASE op.list = "publishers"
    <3>1. \/ journal' = journal
          \/ \E u \in op.todo : journal' = [[journal EXCEPT !.stopped_publishers = @ \ {u}]
                                             EXCEPT !.unloaded = @ \cup {u}]
      BY <1>13, <2>2 DEF Return, Save, Left
    <3> QED BY <1>1, <1>13, <3>1 DEF Journals, Written
  <2>3. CASE op.list # "clients" /\ op.list # "publishers"
    BY <1>1, <1>13, <2>3 DEF Return, Save, Left, Journals, Written
  <2> QED BY <2>1, <2>2, <2>3
<1>14. CASE Started
  BY <1>1, <1>14 DEF Started, Save, Left, Journals, Written
<1>15. CASE Lift
  BY <1>1, <1>15 DEF Lift, Save, Journals, Written
<1>16. CASE Final
  BY <1>1, <1>16 DEF Final, Save, Journals, Written
<1>17. CASE Receipt
  BY <1>1, <1>17 DEF Receipt, Save, Journals, Written
<1>18. CASE Recover
  BY <1>1, <1>18, SettleWrites DEF Written
<1>19. CASE Receiver
  BY <1>1, <1>19 DEF Receiver, Save, Journals, Written
<1>20. CASE Outcome
  BY <1>1, <1>20, SettleWrites DEF Written
<1>21. CASE Adopt
  BY <1>1, <1>21 DEF Adopt, Save, Journals, Written
<1>22. CASE ThawCheck
  BY <1>1, <1>22 DEF ThawCheck, Save, Journals, Written
<1>23. CASE AbortLost
  <2>1. journal = NoJournal
    BY <1>23 DEF AbortLost, Blank
  <2>2. CASE fence # {}
    BY <1>23, <2>1, <2>2 DEF AbortLost, Save, Fresh, NoJournal, Written
  <2>3. CASE fence = {}
    BY <1>23, <2>1, <2>3 DEF AbortLost, Save, Fresh, NoJournal, Written
  <2> QED BY <2>2, <2>3
<1>24. CASE Activated
  BY <1>1, <1>24 DEF Activated, Save, Journals, Written
<1>25. CASE UNCHANGED journal
  BY <1>25 DEF Written
<1>26. CASE Begun
  BY <1>25, <1>26 DEF Begun, Begin, Erased, Ready, Coordinator, Save
<1>27. CASE Archive \/ LoseJournal
  BY <1>27 DEF Archive, LoseJournal, Ready, Coordinator, Erased
<1> QED
  BY <1>2, <1>3, <1>4, <1>5, <1>6, <1>7, <1>8, <1>9, <1>10, <1>11, <1>12, <1>13, <1>14, <1>15,
     <1>16, <1>17, <1>18, <1>19, <1>20, <1>21, <1>22, <1>23, <1>24, <1>25, <1>26, <1>27, Commands
     DEF
     Next, Step, Fence, Reopen, Prepare, Worker, Environment, vars, Abort, Accept, FenceCheck,
     Inhibit, PausePublishers, PublisherStop, ClientStop, PrimaryStop, Open, Release, Start,
     Boundary, Close, Live, Returned, Lifted, RetireSlot, PrepareCheck, ImportCheck, SetAside,
     Stage, ReceiverStop, Launch, WorkerSnapshot, WorkerExport, WorkerImport, WorkerAdmit, Activate,
     Kill, Reboot, Write, Age, MoveAside, ForeignOpen, ForeignClose, GiveUp, Timer

\* Where an invocation starts.
LEMMA Invocations ==
  ASSUME Invoked
  PROVE  op.pc = "idle" /\ op'.pc \in {"check", "return", "unwind"} /\ op'.boundary = "prepared"
<1>1. CASE Begun
  BY <1>1, BeginWrites DEF Begun, Begin, Ready, Coordinator
<1>2. CASE Abort \/ AbortLost
  BY <1>2 DEF Abort, AbortLost, Idle, Ready, Coordinator
<1> QED BY <1>1, <1>2 DEF Invoked

\* Nothing but a new invocation moves an idle coordinator.
LEMMA Quiet ==
  ASSUME TypeOK, [Next]_vars, op.pc = "idle", ~Invoked
  PROVE  op'.pc = "idle"
<1>1. op \in Ops
  BY DEF TypeOK, Ops
<1>2. ~Step
  BY
  DEF Step, Fence, Reopen, Prepare, FenceCheck, Intent, Inhibit, StartupToken, PausePublishers,
      Publisher,
     PublisherStop, RecordClients, ClientStop, Dependent, PrimaryStop, Opening, Open, FenceToken,
     Release, Start,
     Verify, Unwind, Boundary, Skipped, Close, Live, Reopened, Return, Started, Returned, Lift,
     Lifted,
     RetireSlot, Final, PrepareCheck, ImportCheck, SetAside, Receipt, Stage, Recover, Receiver,
     ReceiverStop,
     Launch, Outcome, Adopt, ThawCheck, At
<1>3. CASE Worker
  BY <1>1, <1>3, WorkerWrites
<1>4. CASE UNCHANGED op
  BY <1>4
<1> QED BY <1>2, <1>3, <1>4, Commands
        DEF Next, Environment, Invoked, Activated, Accept, Archive, Activate, Kill, Reboot, Write,
   Age, MoveAside, ForeignOpen, ForeignClose, LoseJournal, GiveUp, Timer, Idle, Coordinator, vars

\* The only steps that change what is outside the journal.
Changed ==
  /\ held' # held => Inhibit \/ Release \/ ForeignOpen \/ ForeignClose
  /\ fence' # fence => Open \/ Close \/ ForeignOpen \/ ForeignClose
  /\ tokens' # tokens => Open \/ ForeignOpen
  /\ ours' # ours => Open
  /\ adopted' # adopted => Adopt
  /\ forgotten' # forgotten => Adopt \/ LoseJournal
  /\ slot' # slot => SetAside \/ Stage \/ RetireSlot
  /\ evidence' # evidence => WorkerSnapshot \/ WorkerExport \/ Age \/ MoveAside
  /\ running' # running => PublisherStop \/ ClientStop \/ ReceiverStop \/ PrimaryStop \/
                           Return \/ (\E candidate \in BOOLEAN : Activate(candidate)) \/ Reboot
  /\ skipped' # skipped => Return \/ Reboot \/ (\E u \in Units : Timer(u))
  /\ owed' # owed => Begun \/ Archive \/ PublisherStop \/ ClientStop \/ ReceiverStop \/
                     PrimaryStop \/ Return \/ Reboot \/ LoseJournal \/
                     (\E u \in Units : Timer(u))
  /\ paused' # paused => PausePublishers \/ Lifted
  /\ installed' # installed => (\E candidate \in BOOLEAN : Activate(candidate)) \/ Reboot
  /\ profile' # profile => (\E candidate \in BOOLEAN : Activate(candidate))
  /\ booted' # booted => Reboot
  /\ lost' # lost => LoseJournal

\* Every step changes only what Changed grants it.
LEMMA Changes == TypeOK /\ [Next]_vars => Changed
<1> SUFFICES ASSUME TypeOK, [Next]_vars PROVE Changed
  OBVIOUS
<1> USE DEF authority, units, window, generation, record, bounds
<1>1. held' # held => Inhibit \/ Release \/ ForeignOpen \/ ForeignClose
  BY Commands DEF Next, Step, Fence, Reopen, Prepare, Worker, Environment, vars, Begun, Begin,
     Abort, AbortLost, Activated, Accept, Archive, FenceCheck, Intent, StartupToken,
     PausePublishers, Publisher, PublisherStop, RecordClients, ClientStop, Dependent, PrimaryStop,
     Opening, Open, FenceToken, Start, Verify, Unwind, Boundary, Skipped, Close, Live, Reopened,
     Return, Started, Returned, Lift, Lifted, RetireSlot, Final, PrepareCheck, ImportCheck,
     SetAside, Receipt, Stage, Recover, Receiver, ReceiverStop, Launch, Outcome, Adopt, ThawCheck,
     WorkerSnapshot, WorkerExport, WorkerImport, WorkerAdmit, Activate, Kill, Reboot, Write, Age,
     MoveAside, LoseJournal, GiveUp, Timer
<1>2. fence' # fence => Open \/ Close \/ ForeignOpen \/ ForeignClose
  BY Commands DEF Next, Step, Fence, Reopen, Prepare, Worker, Environment, vars, Begun, Begin,
     Abort, AbortLost, Activated, Accept, Archive, FenceCheck, Intent, Inhibit, StartupToken,
     PausePublishers, Publisher, PublisherStop, RecordClients, ClientStop, Dependent, PrimaryStop,
     Opening, FenceToken, Release, Start, Verify, Unwind, Boundary, Skipped, Live, Reopened, Return,
     Started, Returned, Lift, Lifted, RetireSlot, Final, PrepareCheck, ImportCheck, SetAside,
     Receipt, Stage, Recover, Receiver, ReceiverStop, Launch, Outcome, Adopt, ThawCheck,
     WorkerSnapshot, WorkerExport, WorkerImport, WorkerAdmit, Activate, Kill, Reboot, Write, Age,
     MoveAside, LoseJournal, GiveUp, Timer
<1>3. tokens' # tokens => Open \/ ForeignOpen
  BY Commands DEF Next, Step, Fence, Reopen, Prepare, Worker, Environment, vars, Begun, Begin,
     Abort, AbortLost, Activated, Accept, Archive, FenceCheck, Intent, Inhibit, StartupToken,
     PausePublishers, Publisher, PublisherStop, RecordClients, ClientStop, Dependent, PrimaryStop,
     Opening, FenceToken, Release, Start, Verify, Unwind, Boundary, Skipped, Close, Live, Reopened,
     Return, Started, Returned, Lift, Lifted, RetireSlot, Final, PrepareCheck, ImportCheck,
     SetAside, Receipt, Stage, Recover, Receiver, ReceiverStop, Launch, Outcome, Adopt, ThawCheck,
     WorkerSnapshot, WorkerExport, WorkerImport, WorkerAdmit, Activate, Kill, Reboot, Write, Age,
     MoveAside, ForeignClose, LoseJournal, GiveUp, Timer
<1>4. ours' # ours => Open
  BY Commands DEF Next, Step, Fence, Reopen, Prepare, Worker, Environment, vars, Begun, Begin,
     Abort, AbortLost, Activated, Accept, Archive, FenceCheck, Intent, Inhibit, StartupToken,
     PausePublishers, Publisher, PublisherStop, RecordClients, ClientStop, Dependent, PrimaryStop,
     Opening, FenceToken, Release, Start, Verify, Unwind, Boundary, Skipped, Close, Live, Reopened,
     Return, Started, Returned, Lift, Lifted, RetireSlot, Final, PrepareCheck, ImportCheck,
     SetAside, Receipt, Stage, Recover, Receiver, ReceiverStop, Launch, Outcome, Adopt, ThawCheck,
     WorkerSnapshot, WorkerExport, WorkerImport, WorkerAdmit, Activate, Kill, Reboot, Write, Age,
     MoveAside, ForeignOpen, ForeignClose, LoseJournal, GiveUp, Timer
<1>5. slot' # slot => SetAside \/ Stage \/ RetireSlot
  BY Commands DEF Next, Step, Fence, Reopen, Prepare, Worker, Environment, vars, Begun, Begin,
     Abort, AbortLost, Activated, Accept, Archive, FenceCheck, Intent, Inhibit, StartupToken,
     PausePublishers, Publisher, PublisherStop, RecordClients, ClientStop, Dependent, PrimaryStop,
     Opening, Open, FenceToken, Release, Start, Verify, Unwind, Boundary, Skipped, Close, Live,
     Reopened, Return, Started, Returned, Lift, Lifted, Final, PrepareCheck, ImportCheck, Receipt,
     Recover, Receiver, ReceiverStop, Launch, Outcome, Adopt, ThawCheck, WorkerSnapshot,
     WorkerExport, WorkerImport, WorkerAdmit, Activate, Kill, Reboot, Write, Age, MoveAside,
     ForeignOpen, ForeignClose, LoseJournal, GiveUp, Timer
<1>6. evidence' # evidence => WorkerSnapshot \/ WorkerExport \/ Age \/ MoveAside
  BY Commands DEF Next, Step, Fence, Reopen, Prepare, Worker, Environment, vars, Begun, Begin,
     Abort, AbortLost, Activated, Accept, Archive, FenceCheck, Intent, Inhibit, StartupToken,
     PausePublishers, Publisher, PublisherStop, RecordClients, ClientStop, Dependent, PrimaryStop,
     Opening, Open, FenceToken, Release, Start, Verify, Unwind, Boundary, Skipped, Close, Live,
     Reopened, Return, Started, Returned, Lift, Lifted, RetireSlot, Final, PrepareCheck,
     ImportCheck, SetAside, Receipt, Stage, Recover, Receiver, ReceiverStop, Launch, Outcome, Adopt,
     ThawCheck, WorkerImport, WorkerAdmit, Activate, Kill, Reboot, Write, ForeignOpen, ForeignClose,
     LoseJournal, GiveUp, Timer
<1>7. running' # running =>
        PublisherStop \/ ClientStop \/ ReceiverStop \/ PrimaryStop \/ Return \/ (\E candidate \in
        BOOLEAN : Activate(candidate)) \/ Reboot
  BY Commands DEF Next, Step, Fence, Reopen, Prepare, Worker, Environment, vars, Begun, Begin,
     Abort, AbortLost, Activated, Accept, Archive, FenceCheck, Intent, Inhibit, StartupToken,
     PausePublishers, Publisher, RecordClients, Dependent, Opening, Open, FenceToken, Release,
     Start, Verify, Unwind, Boundary, Skipped, Close, Live, Reopened, Started, Returned, Lift,
     Lifted, RetireSlot, Final, PrepareCheck, ImportCheck, SetAside, Receipt, Stage, Recover,
     Receiver, Launch, Outcome, Adopt, ThawCheck, WorkerSnapshot, WorkerExport, WorkerImport,
     WorkerAdmit, Kill, Write, Age, MoveAside, ForeignOpen, ForeignClose, LoseJournal, GiveUp, Timer
<1>8. skipped' # skipped => Return \/ Reboot \/ (\E u \in Units : Timer(u))
  BY Commands DEF Next, Step, Fence, Reopen, Prepare, Worker, Environment, vars, Begun, Begin,
     Abort, AbortLost, Activated, Accept, Archive, FenceCheck, Intent, Inhibit, StartupToken,
     PausePublishers, Publisher, PublisherStop, RecordClients, ClientStop, Dependent, PrimaryStop,
     Opening, Open, FenceToken, Release, Start, Verify, Unwind, Boundary, Skipped, Close, Live,
     Reopened, Started, Returned, Lift, Lifted, RetireSlot, Final, PrepareCheck, ImportCheck,
     SetAside, Receipt, Stage, Recover, Receiver, ReceiverStop, Launch, Outcome, Adopt, ThawCheck,
     WorkerSnapshot, WorkerExport, WorkerImport, WorkerAdmit, Activate, Kill, Write, Age, MoveAside,
     ForeignOpen, ForeignClose, LoseJournal, GiveUp
<1>9. owed' # owed =>
        Begun \/ Archive \/ PublisherStop \/ ClientStop \/ ReceiverStop \/ PrimaryStop \/ Return \/
        Reboot \/ LoseJournal \/ (\E u \in Units : Timer(u))
  BY Commands DEF Next, Step, Fence, Reopen, Prepare, Worker, Environment, vars, Abort, AbortLost,
     Activated, Accept, FenceCheck, Intent, Inhibit, StartupToken, PausePublishers, Publisher,
     RecordClients, Dependent, Opening, Open, FenceToken, Release, Start, Verify, Unwind, Boundary,
     Skipped, Close, Live, Reopened, Started, Returned, Lift, Lifted, RetireSlot, Final,
     PrepareCheck, ImportCheck, SetAside, Receipt, Stage, Recover, Receiver, Launch, Outcome, Adopt,
     ThawCheck, WorkerSnapshot, WorkerExport, WorkerImport, WorkerAdmit, Activate, Kill, Write, Age,
     MoveAside, ForeignOpen, ForeignClose, GiveUp
<1>10. paused' # paused => PausePublishers \/ Lifted
  BY Commands DEF Next, Step, Fence, Reopen, Prepare, Worker, Environment, vars, Begun, Begin,
     Abort, AbortLost, Activated, Accept, Archive, FenceCheck, Intent, Inhibit, StartupToken,
     Publisher, PublisherStop, RecordClients, ClientStop, Dependent, PrimaryStop, Opening, Open,
     FenceToken, Release, Start, Verify, Unwind, Boundary, Skipped, Close, Live, Reopened, Return,
     Started, Returned, Lift, RetireSlot, Final, PrepareCheck, ImportCheck, SetAside, Receipt,
     Stage, Recover, Receiver, ReceiverStop, Launch, Outcome, Adopt, ThawCheck, WorkerSnapshot,
     WorkerExport, WorkerImport, WorkerAdmit, Activate, Kill, Reboot, Write, Age, MoveAside,
     ForeignOpen, ForeignClose, LoseJournal, GiveUp, Timer
<1>11. installed' # installed => (\E candidate \in BOOLEAN : Activate(candidate)) \/ Reboot
  BY Commands DEF Next, Step, Fence, Reopen, Prepare, Worker, Environment, vars, Begun, Begin,
     Abort, AbortLost, Activated, Accept, Archive, FenceCheck, Intent, Inhibit, StartupToken,
     PausePublishers, Publisher, PublisherStop, RecordClients, ClientStop, Dependent, PrimaryStop,
     Opening, Open, FenceToken, Release, Start, Verify, Unwind, Boundary, Skipped, Close, Live,
     Reopened, Return, Started, Returned, Lift, Lifted, RetireSlot, Final, PrepareCheck,
     ImportCheck, SetAside, Receipt, Stage, Recover, Receiver, ReceiverStop, Launch, Outcome, Adopt,
     ThawCheck, WorkerSnapshot, WorkerExport, WorkerImport, WorkerAdmit, Kill, Write, Age,
     MoveAside, ForeignOpen, ForeignClose, LoseJournal, GiveUp, Timer
<1>12. profile' # profile => (\E candidate \in BOOLEAN : Activate(candidate))
  BY Commands DEF Next, Step, Fence, Reopen, Prepare, Worker, Environment, vars, Begun, Begin,
     Abort, AbortLost, Activated, Accept, Archive, FenceCheck, Intent, Inhibit, StartupToken,
     PausePublishers, Publisher, PublisherStop, RecordClients, ClientStop, Dependent, PrimaryStop,
     Opening, Open, FenceToken, Release, Start, Verify, Unwind, Boundary, Skipped, Close, Live,
     Reopened, Return, Started, Returned, Lift, Lifted, RetireSlot, Final, PrepareCheck,
     ImportCheck, SetAside, Receipt, Stage, Recover, Receiver, ReceiverStop, Launch, Outcome, Adopt,
     ThawCheck, WorkerSnapshot, WorkerExport, WorkerImport, WorkerAdmit, Kill, Reboot, Write, Age,
     MoveAside, ForeignOpen, ForeignClose, LoseJournal, GiveUp, Timer
<1>13. booted' # booted => Reboot
  BY Commands DEF Next, Step, Fence, Reopen, Prepare, Worker, Environment, vars, Begun, Begin,
     Abort, AbortLost, Activated, Accept, Archive, FenceCheck, Intent, Inhibit, StartupToken,
     PausePublishers, Publisher, PublisherStop, RecordClients, ClientStop, Dependent, PrimaryStop,
     Opening, Open, FenceToken, Release, Start, Verify, Unwind, Boundary, Skipped, Close, Live,
     Reopened, Return, Started, Returned, Lift, Lifted, RetireSlot, Final, PrepareCheck,
     ImportCheck, SetAside, Receipt, Stage, Recover, Receiver, ReceiverStop, Launch, Outcome, Adopt,
     ThawCheck, WorkerSnapshot, WorkerExport, WorkerImport, WorkerAdmit, Activate, Kill, Write, Age,
     MoveAside, ForeignOpen, ForeignClose, LoseJournal, GiveUp, Timer
<1>14. lost' # lost => LoseJournal
  BY Commands DEF Next, Step, Fence, Reopen, Prepare, Worker, Environment, vars, Begun, Begin,
     Abort, AbortLost, Activated, Accept, Archive, FenceCheck, Intent, Inhibit, StartupToken,
     PausePublishers, Publisher, PublisherStop, RecordClients, ClientStop, Dependent, PrimaryStop,
     Opening, Open, FenceToken, Release, Start, Verify, Unwind, Boundary, Skipped, Close, Live,
     Reopened, Return, Started, Returned, Lift, Lifted, RetireSlot, Final, PrepareCheck,
     ImportCheck, SetAside, Receipt, Stage, Recover, Receiver, ReceiverStop, Launch, Outcome, Adopt,
     ThawCheck, WorkerSnapshot, WorkerExport, WorkerImport, WorkerAdmit, Activate, Kill, Reboot,
     Write, Age, MoveAside, ForeignOpen, ForeignClose, GiveUp, Timer
<1>15. adopted' # adopted => Adopt
  BY Commands DEF Next, Step, Fence, Reopen, Prepare, Worker, Environment, vars, Begun, Begin,
     Abort, AbortLost, Activated, Accept, Archive, FenceCheck, Intent, Inhibit, StartupToken,
     PausePublishers, Publisher, PublisherStop, RecordClients, ClientStop, Dependent, PrimaryStop,
     Opening, Open, FenceToken, Release, Start, Verify, Unwind, Boundary, Skipped, Close, Live, Reopened,
     Return, Started, Returned, Lift, Lifted, RetireSlot, Final, PrepareCheck, ImportCheck,
     SetAside, Receipt, Stage, Recover, Receiver, ReceiverStop, Launch, Outcome, ThawCheck,
     WorkerSnapshot, WorkerExport, WorkerImport, WorkerAdmit, Activate, Kill, Reboot, Write, Age,
     MoveAside, ForeignOpen, ForeignClose, LoseJournal, GiveUp, Timer
<1>16. forgotten' # forgotten => Adopt \/ LoseJournal
  BY Commands DEF Next, Step, Fence, Reopen, Prepare, Worker, Environment, vars, Begun, Begin,
     Abort, AbortLost, Activated, Accept, Archive, FenceCheck, Intent, Inhibit, StartupToken,
     PausePublishers, Publisher, PublisherStop, RecordClients, ClientStop, Dependent, PrimaryStop,
     Opening, Open, FenceToken, Release, Start, Verify, Unwind, Boundary, Skipped, Close, Live, Reopened,
     Return, Started, Returned, Lift, Lifted, RetireSlot, Final, PrepareCheck, ImportCheck,
     SetAside, Receipt, Stage, Recover, Receiver, ReceiverStop, Launch, Outcome, ThawCheck,
     WorkerSnapshot, WorkerExport, WorkerImport, WorkerAdmit, Activate, Kill, Reboot, Write, Age,
     MoveAside, ForeignOpen, ForeignClose, GiveUp, Timer
<1> QED BY <1>1, <1>2, <1>3, <1>4, <1>5, <1>6, <1>7, <1>8, <1>9, <1>10, <1>11, <1>12, <1>13, <1>14,
          <1>15, <1>16
        DEF Changed

\* Beside an invocation only the worker, timers and clocks move; a kill ends it.
LEMMA Beside ==
  ASSUME TypeOK, [Next]_vars, Coordinator
  PROVE  \/ Step \/ Worker
         \/ Kill \/ Reboot \/ Write \/ Age \/ \E u \in Units : Timer(u)
         \/ UNCHANGED vars
BY Commands
DEF Next, Environment, Begun, Begin, Abort, AbortLost, Activated, Accept, Archive, Ready,
   Activate, MoveAside, ForeignOpen, ForeignClose, LoseJournal, GiveUp

\* Keeping the inventory does not move the rollout.
LEMMA PhaseStays ==
  ASSUME journal \in Journals, Publisher \/ Receiver \/ Unwind \/ Return \/ Started
  PROVE  /\ journal'.phase = journal.phase /\ journal'.reopened = journal.reopened
         /\ journal'.accepted = journal.accepted
<1>1. CASE Publisher
  BY <1>1 DEF Publisher, Save, Journals
<1>2. CASE Receiver
  BY <1>2 DEF Receiver, Save, Journals
<1>3. CASE Unwind
  BY <1>3 DEF Unwind, Save, Journals
<1>4. ASSUME NEW u PROVE /\ Left(u).phase = journal.phase /\ Left(u).reopened = journal.reopened
                         /\ Left(u).accepted = journal.accepted
                         /\ [Left(u) EXCEPT !.unloaded = @ \cup {u}].phase = journal.phase
                         /\ [Left(u) EXCEPT !.unloaded = @ \cup {u}].reopened = journal.reopened
                         /\ [Left(u) EXCEPT !.unloaded = @ \cup {u}].accepted = journal.accepted
  <2>1. CASE op.list = "clients"
    BY <2>1 DEF Left, Journals
  <2>2. CASE op.list = "publishers"
    BY <2>2 DEF Left, Journals
  <2>3. CASE op.list # "clients" /\ op.list # "publishers"
    BY <2>3 DEF Left, Journals
  <2> QED BY <2>1, <2>2, <2>3
<1>5. CASE Return
  BY <1>4, <1>5 DEF Return, Save
<1>6. CASE Started
  BY <1>4, <1>6 DEF Started, Save
<1> QED BY <1>1, <1>2, <1>3, <1>5, <1>6

-----------------------------------------------------------------------------
(* Whose fence.                                                             *)

\* Every step keeps the fences in order: a resumed fence is recorded only when
\* it is the coordinator's own (refuse_foreign_fence).
LEMMA OwnedNext == TypeOK /\ Phased /\ Owned /\ [Next]_vars => Owned'
<1>1. SUFFICES ASSUME TypeOK, Phased, Owned, [Next]_vars PROVE Owned'
  OBVIOUS
<1>2. /\ op \in Ops /\ journal \in Journals /\ tokens \in Nat
      /\ Changed /\ (Erased \/ Written)
      /\ op' = Idle \/ (Kept /\ (op'.pc = op.pc \/ Arrived))
  BY <1>1, Changes, Writings, Arrivals, RolloutAssumption DEF TypeOK, Ops, Phased
<1>3. /\ ours \subseteq 1..tokens /\ fence \subseteq {tokens} /\ journal.fence_token \subseteq ours
      /\ op.pc \in {"open", "fence_token"} => fence \subseteq ours
      /\ op.pc = "fence_token" => fence # {}
  BY <1>1 DEF Owned
<1>4. ours' \subseteq 1..tokens' /\ fence' \subseteq {tokens'} /\ ours \subseteq ours'
  <2>1. CASE Open
    <3>1. CASE fence # {}
      BY <1>3, <2>1, <3>1 DEF Open
    <3>2. CASE fence = {}
      <4>1. tokens' = tokens + 1 /\ fence' = {tokens'} /\ ours' = ours \cup {tokens'}
        BY <2>1, <3>2 DEF Open
      <4>2. 1..tokens \subseteq 1..tokens' /\ tokens' \in 1..tokens'
        BY <1>2, <4>1
      <4> QED BY <1>3, <4>1, <4>2
    <3> QED BY <3>1, <3>2
  <2>2. CASE ForeignOpen
    BY <1>2, <1>3, <2>2 DEF ForeignOpen
  <2>3. CASE Close \/ ForeignClose
    BY <1>2, <1>3, <2>3 DEF Close, ForeignClose, record
  <2>4. CASE UNCHANGED <<fence, tokens, ours>>
    BY <1>3, <2>4
  <2> QED BY <1>2, <2>1, <2>2, <2>3, <2>4 DEF Changed
<1>5. journal'.fence_token \subseteq ours'
  <2>1. CASE FenceToken
    <3>1. journal'.fence_token = fence
      BY <1>2, <2>1 DEF FenceToken, Save, Journals
    <3> QED BY <1>3, <1>4, <2>1, <3>1 DEF FenceToken, At
  <2>2. CASE AbortLost
    <3>1. CASE fence # {}
      <4>1. journal'.fence_token = fence
        BY <2>2, <3>1 DEF AbortLost, Save, Fresh, NoJournal
      <4> QED BY <1>4, <2>2, <3>1, <4>1 DEF AbortLost
    <3>2. CASE fence = {}
      <4>1. journal'.fence_token = {}
        BY <2>2, <3>2 DEF AbortLost, Save, Fresh, NoJournal
      <4> QED BY <4>1
    <3> QED BY <3>1, <3>2
  <2>3. CASE Erased
    BY <2>3 DEF Erased, NoJournal
  <2>4. CASE journal'.fence_token = journal.fence_token
    BY <1>3, <1>4, <2>4
  <2> QED BY <1>2, <2>1, <2>2, <2>3, <2>4 DEF Written
<1>6. op'.pc = "open" => fence' \subseteq ours'
  <2>1. SUFFICES ASSUME op'.pc = "open" PROVE fence' \subseteq ours'
    OBVIOUS
  <2>2. CASE op.pc = "open"
    <3>1. UNCHANGED fence
      BY <1>2, <2>1, <2>2
      DEF Changed, Open, Close, ForeignOpen, ForeignClose, Coordinator, At, Go, Ops
    <3> QED BY <1>3, <1>4, <2>2, <3>1
  <2>3. CASE Opening
    <3>1. UNCHANGED fence
      BY <2>3 DEF Opening, authority
    <3>2. OwnFence(journal)
      BY <2>1, <2>3 DEF Opening, Refuse, Idle
    <3> QED BY <1>3, <1>4, <3>1, <3>2 DEF OwnFence
  <2> QED BY <1>2, <2>1, <2>2, <2>3 DEF Arrived, Idle
<1>7. op'.pc = "fence_token" => fence' \subseteq ours' /\ fence' # {}
  <2>1. SUFFICES ASSUME op'.pc = "fence_token" PROVE fence' \subseteq ours' /\ fence' # {}
    OBVIOUS
  <2>2. CASE op.pc = "fence_token"
    <3>1. UNCHANGED fence
      BY <1>2, <2>1, <2>2
      DEF Changed, Open, Close, ForeignOpen, ForeignClose, Coordinator, At, Go, Ops
    <3> QED BY <1>3, <1>4, <2>2, <3>1
  <2>3. CASE Open
    BY <1>3, <1>4, <2>3 DEF Open, At
  <2> QED BY <1>2, <2>1, <2>2, <2>3 DEF Arrived, Idle
<1> QED BY <1>4, <1>5, <1>6, <1>7 DEF Owned

\* Every step is taken in its phase, and leads to a place of its phase.
LEMMA PhasedNext == TypeOK /\ Course /\ Phased /\ [Next]_vars => Phased'
<1> SUFFICES ASSUME TypeOK, Course, Phased, [Next]_vars PROVE Phased'
  OBVIOUS
<1>1. op \in Ops /\ journal \in Journals /\ (Erased \/ Written)
  BY Writings DEF TypeOK, Ops, Phased
<1>2. CASE Begun
  <2>1. /\ op'.act \in {"fence", "prepare", "import", "adopt", "thaw"} /\ op'.pc \in {"check", "return"}
        /\ op'.pc = "return" => journal'.pending_receivers # {}
    BY <1>2, BeginWrites DEF Begun
  <2>2. journal' = NoJournal \/ (journal' = journal /\ (MidUnwind => op'.act = "thaw"))
    BY <1>2, BeginWrites DEF Begun, Begin, Save
  <2>3. NoJournal.pending_receivers = {} /\ NoJournal.reopened = FALSE
    BY DEF NoJournal
  <2> QED BY <2>1, <2>2, <2>3
          DEF Phased, Blank, Course, Resume, Acquire, Before, After, Waiting, Staging, Coordinator,
              MidUnwind, Unfinished, Finished, Unwinding, Resuming
<1>3. CASE Abort
  BY <1>1, <1>3 DEF Abort, Idle, NoWorker, Ready, Unfinished, Coordinator, Ops, Phased, Blank,
     Course, Resume, Acquire, Before, After, Waiting, Staging, MidUnwind, Finished, Unwinding,
     Resuming
<1>4. CASE AbortLost
  <2>1. journal'.phase \in {"idle", "fenced"} /\ journal'.reopened = FALSE
    BY <1>4 DEF AbortLost, Save, Fresh, NoJournal
  <2>2. op'.act = "abort" /\ op'.pc = "unwind"
    BY <1>4 DEF AbortLost, Idle
  <2> QED BY <2>1, <2>2
          DEF Phased, Blank, Course, Resume, Acquire, Before, After, Waiting, Staging, Coordinator,
              MidUnwind, Unfinished, Finished, Unwinding, Resuming
<1>5. CASE Activated
  BY <1>1, <1>5 DEF Activated, Save, NoWorker, Ready, MidUnwind, Unfinished, Coordinator, Ops,
     Journals, Phased, Blank, Course, Resume, Acquire, Before, After, Waiting, Staging, Finished,
     Unwinding, Resuming
<1>6. CASE FenceCheck
  BY <1>1, <1>6 DEF FenceCheck, At, Go, GoIf, Refuse, Idle, Bound, Fresh, NoJournal, Ops, Phased,
     Blank, Course, Resume, Acquire, Before, After, Waiting, Staging, Coordinator, MidUnwind,
     Unfinished, Finished, Unwinding, Resuming
<1>7. CASE Intent
  BY <1>1, <1>7 DEF Intent, At, Go, Save, Bound, Fresh, NoJournal, Ops, Journals, Phased, Blank,
     Course, Resume, Acquire, Before, After, Waiting, Staging, Coordinator, MidUnwind, Unfinished,
     Finished, Unwinding, Resuming
<1>8. CASE Inhibit
  BY <1>1, <1>8 DEF Inhibit, At, Go, Ops, Phased, Blank, Course, Resume, Acquire, Before, After,
     Waiting, Staging, Coordinator, MidUnwind, Unfinished, Finished, Unwinding, Resuming
<1>9. CASE StartupToken
  BY <1>1, <1>9, StartupTokenWrites DEF Same, StartupToken, Save, Written, Idle, Phased, Blank,
     Course, Resume, Acquire, Before, After, Waiting, Staging, Coordinator, MidUnwind, Unfinished,
     Finished, Unwinding, Resuming
<1>10. CASE PausePublishers
  BY <1>1, <1>10 DEF PausePublishers, At, Go, Ops, Phased, Blank, Course, Resume, Acquire, Before,
     After, Waiting, Staging, Coordinator, MidUnwind, Unfinished, Finished, Unwinding, Resuming
<1>11. CASE Publisher
  BY <1>1, <1>11, PublisherWrites, PhaseStays DEF Same, Written, Idle, Phased, Blank, Course,
     Resume, Acquire, Before, After, Waiting, Staging, Coordinator, MidUnwind, Unfinished, Finished,
     Unwinding, Resuming
<1>12. CASE PublisherStop
  BY <1>1, <1>12 DEF PublisherStop, At, StopUnit, Ops, Phased, Blank, Course, Resume, Acquire,
     Before, After, Waiting, Staging, Coordinator, MidUnwind, Unfinished, Finished, Unwinding,
     Resuming
<1>13. CASE RecordClients
  BY <1>1, <1>13 DEF RecordClients, At, Save, Ops, Journals, Phased, Blank, Course, Resume, Acquire,
     Before, After, Waiting, Staging, Coordinator, MidUnwind, Unfinished, Finished, Unwinding,
     Resuming
<1>14. CASE ClientStop
  BY <1>1, <1>14 DEF ClientStop, At, Go, StopUnit, Ops, Phased, Blank, Course, Resume, Acquire,
     Before, After, Waiting, Staging, Coordinator, MidUnwind, Unfinished, Finished, Unwinding,
     Resuming
<1>15. CASE Dependent
  BY <1>1, <1>15 DEF Dependent, At, Go, Save, Ops, Journals, Phased, Blank, Course, Resume, Acquire,
     Before, After, Waiting, Staging, Coordinator, MidUnwind, Unfinished, Finished, Unwinding,
     Resuming
<1>16. CASE PrimaryStop
  BY <1>1, <1>16 DEF PrimaryStop, At, Go, Ops, Phased, Blank, Course, Resume, Acquire, Before,
     After, Waiting, Staging, Coordinator, MidUnwind, Unfinished, Finished, Unwinding, Resuming
<1>17. CASE Opening
  BY <1>1, <1>17 DEF Opening, At, Go, Refuse, Idle, Save, Ops, Journals, Phased, Blank, Course,
     Resume, Acquire, Before, After, Waiting, Staging, Coordinator, MidUnwind, Unfinished, Finished,
     Unwinding, Resuming
<1>18. CASE Open
  BY <1>1, <1>18 DEF Open, At, Go, Ops, Phased, Blank, Course, Resume, Acquire, Before, After,
     Waiting, Staging, Coordinator, MidUnwind, Unfinished, Finished, Unwinding, Resuming
<1>19. CASE FenceToken
  BY <1>1, <1>19 DEF FenceToken, At, Go, Save, Ops, Journals, Phased, Blank, Course, Resume,
     Acquire, Before, After, Waiting, Staging, Coordinator, MidUnwind, Unfinished, Finished,
     Unwinding, Resuming
<1>20. CASE Release
  BY <1>1, <1>20 DEF Release, At, Go, Refuse, Idle, Unwinding, Ops, Phased, Blank, Course, Resume,
     Acquire, Before, After, Waiting, Staging, Coordinator, MidUnwind, Unfinished, Finished,
     Resuming
<1>21. CASE Start
  BY <1>1, <1>21 DEF Start, At, Go, Unwinding, Ops, Phased, Blank, Course, Resume, Acquire, Before,
     After, Waiting, Staging, Coordinator, MidUnwind, Unfinished, Finished, Resuming
<1>22. CASE Verify
  BY <1>1, <1>22 DEF Verify, At, Refuse, Idle, Save, Ops, Journals, Phased, Blank, Course, Resume,
     Acquire, Before, After, Waiting, Staging, Coordinator, MidUnwind, Unfinished, Finished,
     Unwinding, Resuming
<1>23. CASE Unwind
  BY <1>1, <1>23, UnwindWrites, PhaseStays DEF Same, Written, Idle, Phased, Blank, Course, Resume,
     Acquire, Before, After, Waiting, Staging, Coordinator, MidUnwind, Unfinished, Finished,
     Unwinding, Resuming
<1>24. CASE Boundary
  BY <1>1, <1>24 DEF Boundary, At, Go, GoIf, Refuse, Idle, Ops, Phased, Blank, Course, Resume,
     Acquire, Before, After, Waiting, Staging, Coordinator, MidUnwind, Unfinished, Finished,
     Unwinding, Resuming
<1>25. CASE Skipped
  BY <1>1, <1>25 DEF Skipped, At, Go, Save, Ops, Journals, Phased, Blank, Course, Resume, Acquire,
     Before, After, Waiting, Staging, Coordinator, MidUnwind, Unfinished, Finished, Unwinding,
     Resuming
<1>26. CASE Close
  BY <1>1, <1>26 DEF Close, At, Go, Refuse, Idle, Ops, Phased, Blank, Course, Resume, Acquire,
     Before, After, Waiting, Staging, Coordinator, MidUnwind, Unfinished, Finished, Unwinding,
     Resuming
<1>27. CASE Live
  BY <1>1, <1>27 DEF Live, At, Go, GoIf, Refuse, Idle, Ops, Phased, Blank, Course, Resume, Acquire,
     Before, After, Waiting, Staging, Coordinator, MidUnwind, Unfinished, Finished, Unwinding,
     Resuming
<1>28. CASE Reopened
  BY <1>1, <1>28, ReopenedWrites DEF Same, Reopened, Save, Written, Idle, Phased, Blank, Course,
     Resume, Acquire, Before, After, Waiting, Staging, Coordinator, MidUnwind, Unfinished, Finished,
     Unwinding, Resuming
<1>29. CASE Return
  BY <1>1, <1>29, ReturnWrites, PhaseStays DEF Same, Written, Idle, Phased, Blank, Course, Resume,
     Acquire, Before, After, Waiting, Staging, Coordinator, MidUnwind, Unfinished, Finished,
     Unwinding, Resuming
<1>30. CASE Started
  BY <1>1, <1>30, StartedWrites, PhaseStays DEF Same, Written, Idle, Phased, Blank, Course, Resume,
     Acquire, Before, After, Waiting, Staging, Coordinator, MidUnwind, Unfinished, Finished,
     Unwinding, Resuming
<1>31. CASE Returned
  BY <1>1, <1>31, ReturnedWrites DEF Same, Returned, Written, Idle, Phased, Blank, Course, Resume,
     Acquire, Before, After, Waiting, Staging, Coordinator, MidUnwind, Unfinished, Finished,
     Unwinding, Resuming
<1>32. CASE Lift
  BY <1>1, <1>32 DEF Lift, At, Go, Save, Ops, Journals, Phased, Blank, Course, Resume, Acquire,
     Before, After, Waiting, Staging, Coordinator, MidUnwind, Unfinished, Finished, Unwinding,
     Resuming
<1>33. CASE Lifted
  BY <1>1, <1>33, LiftedWrites DEF Same, Lifted, Written, Idle, Phased, Blank, Course, Resume,
     Acquire, Before, After, Waiting, Staging, Coordinator, MidUnwind, Unfinished, Finished,
     Unwinding, Resuming
<1>34. CASE RetireSlot
  BY <1>1, <1>34 DEF RetireSlot, At, Go, Ops, Phased, Blank, Course, Resume, Acquire, Before, After,
     Waiting, Staging, Coordinator, MidUnwind, Unfinished, Finished, Unwinding, Resuming
<1>35. CASE Final
  BY <1>1, <1>35 DEF Final, At, Refuse, Idle, Save, Ops, Journals, Phased, Blank, Course, Resume,
     Acquire, Before, After, Waiting, Staging, Coordinator, MidUnwind, Unfinished, Finished,
     Unwinding, Resuming
<1>36. CASE PrepareCheck
  BY <1>1, <1>36 DEF PrepareCheck, At, Go, GoIf, Refuse, Idle, Ops, Phased, Blank, Course, Resume,
     Acquire, Before, After, Waiting, Staging, Coordinator, MidUnwind, Unfinished, Finished,
     Unwinding, Resuming
<1>37. CASE ImportCheck
  BY <1>1, <1>37 DEF ImportCheck, At, Go, Refuse, Idle, Ops, Phased, Blank, Course, Resume, Acquire,
     Before, After, Waiting, Staging, Coordinator, MidUnwind, Unfinished, Finished, Unwinding,
     Resuming
<1>38. CASE SetAside
  BY <1>1, <1>38 DEF SetAside, At, Go, Ops, Phased, Blank, Course, Resume, Acquire, Before, After,
     Waiting, Staging, Coordinator, MidUnwind, Unfinished, Finished, Unwinding, Resuming
<1>39. CASE Receipt
  BY <1>1, <1>39 DEF Receipt, At, Go, Save, Ops, Journals, Phased, Blank, Course, Resume, Acquire,
     Before, After, Waiting, Staging, Coordinator, MidUnwind, Unfinished, Finished, Unwinding,
     Resuming
<1>40. CASE Stage
  BY <1>1, <1>40 DEF Stage, At, Go, Ops, Phased, Blank, Course, Resume, Acquire, Before, After,
     Waiting, Staging, Coordinator, MidUnwind, Unfinished, Finished, Unwinding, Resuming
<1>41. CASE Recover
  BY <1>1, <1>41, RecoverWrites, SettleWrites DEF Same, Written, Idle, Phased, Blank, Course,
     Resume, Acquire, Before, After, Waiting, Staging, Coordinator, MidUnwind, Unfinished, Finished,
     Unwinding, Resuming
<1>42. CASE Receiver
  BY <1>1, <1>42, ReceiverWrites, PhaseStays DEF Same, Written, Idle, Phased, Blank, Course, Resume,
     Acquire, Before, After, Waiting, Staging, Coordinator, MidUnwind, Unfinished, Finished,
     Unwinding, Resuming
<1>43. CASE ReceiverStop
  BY <1>1, <1>43 DEF ReceiverStop, At, StopUnit, Ops, Phased, Blank, Course, Resume, Acquire,
     Before, After, Waiting, Staging, Coordinator, MidUnwind, Unfinished, Finished, Unwinding,
     Resuming
<1>44. CASE Launch
  BY <1>1, <1>44 DEF Launch, At, Go, NoWorker, Ops, Phased, Blank, Course, Resume, Acquire, Before,
     After, Waiting, Staging, Coordinator, MidUnwind, Unfinished, Finished, Unwinding, Resuming
<1>45. CASE Outcome
  BY <1>1, <1>45, OutcomeWrites, SettleWrites DEF Same, Written, Idle, Phased, Blank, Course,
     Resume, Acquire, Before, After, Waiting, Staging, Coordinator, MidUnwind, Unfinished, Finished,
     Unwinding, Resuming
<1>46. CASE Adopt
  BY <1>1, <1>46 DEF Adopt, At, Refuse, Idle, Save, Ops, Journals, Phased, Blank, Course, Resume,
     Acquire, Before, After, Waiting, Staging, Coordinator, MidUnwind, Unfinished, Finished,
     Unwinding, Resuming
<1>47. CASE ThawCheck
  BY <1>1, <1>47 DEF ThawCheck, At, Go, Refuse, Idle, Save, Ops, Journals, Phased, Blank, Course,
     Resume, Acquire, Before, After, Waiting, Staging, Coordinator, MidUnwind, Unfinished, Finished,
     Unwinding, Resuming
<1>48. CASE UNCHANGED <<journal, op>>
  BY <1>48
  DEF Phased, Blank, Course, Resume, Acquire, Before, After, Waiting, Staging, Coordinator,
      MidUnwind, Unfinished, Finished, Unwinding, Resuming
<1>49. CASE UNCHANGED journal /\ op' = Idle
  BY <1>49
  DEF Idle, Phased, Blank, Course, Resume, Acquire, Before, After, Waiting, Staging, Coordinator,
      MidUnwind, Unfinished, Finished, Unwinding, Resuming
<1>50. CASE journal' = NoJournal /\ op' = op /\ op.pc = "idle"
  BY <1>50
  DEF NoJournal, Phased, Blank, Course, Resume, Acquire, Before, After, Waiting, Staging,
      Coordinator, MidUnwind, Unfinished, Finished, Unwinding, Resuming
<1>51. CASE Worker
  <2>1. journal' = journal
    BY <1>51 DEF Worker, WorkerSnapshot, WorkerExport, WorkerImport, WorkerAdmit
  <2> QED BY <1>1, <1>51, <2>1, WorkerWrites
          DEF Same, Phased, Blank, Course, Resume, Acquire, Before, After, Waiting, Staging,
              Coordinator, MidUnwind, Unfinished, Finished, Unwinding, Resuming
<1> QED
  BY <1>2, <1>3, <1>4, <1>5, <1>6, <1>7, <1>8, <1>9, <1>10, <1>11, <1>12, <1>13, <1>14, <1>15,
     <1>16, <1>17, <1>18, <1>19, <1>20, <1>21, <1>22, <1>23, <1>24, <1>25, <1>26, <1>27, <1>28,
     <1>29, <1>30, <1>31, <1>32, <1>33, <1>34, <1>35, <1>36, <1>37, <1>38, <1>39, <1>40, <1>41,
     <1>42, <1>43, <1>44, <1>45, <1>46, <1>47, <1>48, <1>49, <1>50, <1>51, Commands DEF
     Next, Step, Fence, Reopen, Prepare, Environment, vars, Accept, Archive, Ready, Activate, Kill,
     Reboot, Write, Age, MoveAside, ForeignOpen, ForeignClose, LoseJournal, GiveUp, Timer,
     Coordinator

\* Every step keeps how far an unwinding is: it begins with an unfinished
\* journal, a thaw with an accepted one, and passes `reopened` once.
LEMMA UndoingNext == TypeOK /\ Course /\ Phased /\ Undoing /\ [Next]_vars => Undoing'
<1> SUFFICES ASSUME TypeOK, Course, Phased, Undoing, [Next]_vars PROVE Undoing'
  OBVIOUS
<1>1. op \in Ops /\ journal \in Journals /\ (Erased \/ Written)
  BY Writings DEF TypeOK, Ops, Phased
<1>2. CASE Begun
  <2>1. /\ op'.act \in {"fence", "prepare", "import", "adopt", "thaw"} /\ op'.pc \in {"check", "return"}
        /\ op'.list = "resume"
    BY <1>2, BeginWrites DEF Begun
  <2>2. journal' = NoJournal \/ journal' = journal
    BY <1>2, BeginWrites DEF Begun, Begin, Save
  <2>3. NoJournal.phase = "none"
    BY DEF NoJournal
  <2> QED BY <2>1, <2>2, <2>3
          DEF Undoing, Finished, Unfinished, Reopening, Unwinding, Resuming, Before, After, Acquire
<1>3. CASE Abort
  BY <1>1, <1>3 DEF Abort, Idle, NoWorker, Ready, Unfinished, Coordinator, Ops, Undoing, Phased,
     Course, Resume, Acquire, Before, After, Waiting, Staging, MidUnwind, Finished, Unwinding,
     Resuming, Reopening
<1>4. CASE AbortLost
  <2>1. journal'.phase \in {"idle", "fenced"} /\ journal'.reopened = FALSE
    BY <1>4 DEF AbortLost, Save, Fresh, NoJournal
  <2>2. op'.act = "abort" /\ op'.pc = "unwind"
    BY <1>4 DEF AbortLost, Idle
  <2> QED BY <2>1, <2>2
          DEF Undoing, Finished, Unfinished, Reopening, Unwinding, Resuming, Before, After, Acquire
<1>5. CASE Activated
  BY <1>1, <1>5 DEF Activated, Save, NoWorker, Ready, MidUnwind, Unfinished, Coordinator, Ops,
     Journals, Undoing, Phased, Course, Resume, Acquire, Before, After, Waiting, Staging, Finished,
     Unwinding, Resuming, Reopening
<1>6. CASE FenceCheck
  BY <1>1, <1>6 DEF FenceCheck, At, Go, GoIf, Refuse, Idle, Bound, Fresh, NoJournal, Ops, Undoing,
     Phased, Course, Resume, Acquire, Before, After, Waiting, Staging, Coordinator, MidUnwind,
     Unfinished, Finished, Unwinding, Resuming, Reopening
<1>7. CASE Intent
  BY <1>1, <1>7 DEF Intent, At, Go, Save, Bound, Fresh, NoJournal, Ops, Journals, Undoing, Phased,
     Course, Resume, Acquire, Before, After, Waiting, Staging, Coordinator, MidUnwind, Unfinished,
     Finished, Unwinding, Resuming, Reopening
<1>8. CASE Inhibit
  BY <1>1, <1>8 DEF Inhibit, At, Go, Ops, Undoing, Phased, Course, Resume, Acquire, Before, After,
     Waiting, Staging, Coordinator, MidUnwind, Unfinished, Finished, Unwinding, Resuming, Reopening
<1>9. CASE StartupToken
  BY <1>1, <1>9, StartupTokenWrites DEF Same, StartupToken, Save, Written, Idle, Undoing, Phased,
     Course, Resume, Acquire, Before, After, Waiting, Staging, Coordinator, MidUnwind, Unfinished,
     Finished, Unwinding, Resuming, Reopening
<1>10. CASE PausePublishers
  BY <1>1, <1>10 DEF PausePublishers, At, Go, Ops, Undoing, Phased, Course, Resume, Acquire, Before,
     After, Waiting, Staging, Coordinator, MidUnwind, Unfinished, Finished, Unwinding, Resuming,
     Reopening
<1>11. CASE Publisher
  BY <1>1, <1>11, PublisherWrites, PhaseStays DEF Same, Written, Idle, Undoing, Phased, Course,
     Resume, Acquire, Before, After, Waiting, Staging, Coordinator, MidUnwind, Unfinished, Finished,
     Unwinding, Resuming, Reopening
<1>12. CASE PublisherStop
  BY <1>1, <1>12 DEF PublisherStop, At, StopUnit, Ops, Undoing, Phased, Course, Resume, Acquire,
     Before, After, Waiting, Staging, Coordinator, MidUnwind, Unfinished, Finished, Unwinding,
     Resuming, Reopening
<1>13. CASE RecordClients
  BY <1>1, <1>13 DEF RecordClients, At, Save, Ops, Journals, Undoing, Phased, Course, Resume,
     Acquire, Before, After, Waiting, Staging, Coordinator, MidUnwind, Unfinished, Finished,
     Unwinding, Resuming, Reopening
<1>14. CASE ClientStop
  BY <1>1, <1>14 DEF ClientStop, At, Go, StopUnit, Ops, Undoing, Phased, Course, Resume, Acquire,
     Before, After, Waiting, Staging, Coordinator, MidUnwind, Unfinished, Finished, Unwinding,
     Resuming, Reopening
<1>15. CASE Dependent
  BY <1>1, <1>15 DEF Dependent, At, Go, Save, Ops, Journals, Undoing, Phased, Course, Resume,
     Acquire, Before, After, Waiting, Staging, Coordinator, MidUnwind, Unfinished, Finished,
     Unwinding, Resuming, Reopening
<1>16. CASE PrimaryStop
  BY <1>1, <1>16 DEF PrimaryStop, At, Go, Ops, Undoing, Phased, Course, Resume, Acquire, Before,
     After, Waiting, Staging, Coordinator, MidUnwind, Unfinished, Finished, Unwinding, Resuming,
     Reopening
<1>17. CASE Opening
  BY <1>1, <1>17 DEF Opening, At, Go, Refuse, Idle, Save, Ops, Journals, Undoing, Phased, Course,
     Resume, Acquire, Before, After, Waiting, Staging, Coordinator, MidUnwind, Unfinished, Finished,
     Unwinding, Resuming, Reopening
<1>18. CASE Open
  BY <1>1, <1>18 DEF Open, At, Go, Ops, Undoing, Phased, Course, Resume, Acquire, Before, After,
     Waiting, Staging, Coordinator, MidUnwind, Unfinished, Finished, Unwinding, Resuming, Reopening
<1>19. CASE FenceToken
  BY <1>1, <1>19 DEF FenceToken, At, Go, Save, Ops, Journals, Undoing, Phased, Course, Resume,
     Acquire, Before, After, Waiting, Staging, Coordinator, MidUnwind, Unfinished, Finished,
     Unwinding, Resuming, Reopening
<1>20. CASE Release
  BY <1>1, <1>20 DEF Release, At, Go, Refuse, Idle, Unwinding, Ops, Undoing, Phased, Course, Resume,
     Acquire, Before, After, Waiting, Staging, Coordinator, MidUnwind, Unfinished, Finished,
     Resuming, Reopening
<1>21. CASE Start
  BY <1>1, <1>21 DEF Start, At, Go, Unwinding, Ops, Undoing, Phased, Course, Resume, Acquire,
     Before, After, Waiting, Staging, Coordinator, MidUnwind, Unfinished, Finished, Resuming,
     Reopening
<1>22. CASE Verify
  BY <1>1, <1>22 DEF Verify, At, Refuse, Idle, Save, Ops, Journals, Undoing, Phased, Course, Resume,
     Acquire, Before, After, Waiting, Staging, Coordinator, MidUnwind, Unfinished, Finished,
     Unwinding, Resuming, Reopening
<1>23. CASE Unwind
  BY <1>1, <1>23, UnwindWrites, PhaseStays DEF Same, Written, Idle, Undoing, Phased, Course, Resume,
     Acquire, Before, After, Waiting, Staging, Coordinator, MidUnwind, Unfinished, Finished,
     Unwinding, Resuming, Reopening
<1>24. CASE Boundary
  BY <1>1, <1>24 DEF Boundary, At, Go, GoIf, Refuse, Idle, Ops, Undoing, Phased, Course, Resume,
     Acquire, Before, After, Waiting, Staging, Coordinator, MidUnwind, Unfinished, Finished,
     Unwinding, Resuming, Reopening
<1>25. CASE Skipped
  BY <1>1, <1>25 DEF Skipped, At, Go, Save, Ops, Journals, Undoing, Phased, Course, Resume, Acquire,
     Before, After, Waiting, Staging, Coordinator, MidUnwind, Unfinished, Finished, Unwinding,
     Resuming, Reopening
<1>26. CASE Close
  BY <1>1, <1>26 DEF Close, At, Go, Refuse, Idle, Ops, Undoing, Phased, Course, Resume, Acquire,
     Before, After, Waiting, Staging, Coordinator, MidUnwind, Unfinished, Finished, Unwinding,
     Resuming, Reopening
<1>27. CASE Live
  BY <1>1, <1>27 DEF Live, At, Go, GoIf, Refuse, Idle, Ops, Undoing, Phased, Course, Resume,
     Acquire, Before, After, Waiting, Staging, Coordinator, MidUnwind, Unfinished, Finished,
     Unwinding, Resuming, Reopening
<1>28. CASE Reopened
  BY <1>1, <1>28, ReopenedWrites DEF Same, Reopened, Save, Written, Idle, Undoing, Phased, Course,
     Resume, Acquire, Before, After, Waiting, Staging, Coordinator, MidUnwind, Unfinished, Finished,
     Unwinding, Resuming, Reopening
<1>29. CASE Return
  BY <1>1, <1>29, ReturnWrites, PhaseStays DEF Same, Written, Idle, Undoing, Phased, Course, Resume,
     Acquire, Before, After, Waiting, Staging, Coordinator, MidUnwind, Unfinished, Finished,
     Unwinding, Resuming, Reopening
<1>30. CASE Started
  BY <1>1, <1>30, StartedWrites, PhaseStays DEF Same, Written, Idle, Undoing, Phased, Course,
     Resume, Acquire, Before, After, Waiting, Staging, Coordinator, MidUnwind, Unfinished, Finished,
     Unwinding, Resuming, Reopening
<1>31. CASE Returned
  BY <1>1, <1>31, ReturnedWrites DEF Same, Returned, Written, Idle, Undoing, Phased, Course, Resume,
     Acquire, Before, After, Waiting, Staging, Coordinator, MidUnwind, Unfinished, Finished,
     Unwinding, Resuming, Reopening
<1>32. CASE Lift
  BY <1>1, <1>32 DEF Lift, At, Go, Save, Ops, Journals, Undoing, Phased, Course, Resume, Acquire,
     Before, After, Waiting, Staging, Coordinator, MidUnwind, Unfinished, Finished, Unwinding,
     Resuming, Reopening
<1>33. CASE Lifted
  BY <1>1, <1>33, LiftedWrites DEF Same, Lifted, Written, Idle, Undoing, Phased, Course, Resume,
     Acquire, Before, After, Waiting, Staging, Coordinator, MidUnwind, Unfinished, Finished,
     Unwinding, Resuming, Reopening
<1>34. CASE RetireSlot
  BY <1>1, <1>34 DEF RetireSlot, At, Go, Ops, Undoing, Phased, Course, Resume, Acquire, Before,
     After, Waiting, Staging, Coordinator, MidUnwind, Unfinished, Finished, Unwinding, Resuming,
     Reopening
<1>35. CASE Final
  <2>1. op' = Idle /\ journal'.phase \in {"thawed", "aborted"} /\ journal'.reopened = journal.reopened
    BY <1>1, <1>35 DEF Final, Save, Refuse, Journals
  <2>2. op.pc = "final" /\ op.act \in Acts
    BY <1>1, <1>35 DEF Final, At, Ops
  <2>3. op.act \in {"thaw", "abort"}
    BY <2>2 DEF Course, Acts, Resume, Acquire, Waiting, Staging
  <2>4. journal.reopened
    BY <2>2, <2>3 DEF Undoing, Reopening, Unwinding, Resuming, After
  <2> QED BY <2>1, <2>4 DEF Idle, Undoing, Finished, Unfinished, Reopening, Unwinding
<1>36. CASE PrepareCheck
  BY <1>1, <1>36 DEF PrepareCheck, At, Go, GoIf, Refuse, Idle, Ops, Undoing, Phased, Course, Resume,
     Acquire, Before, After, Waiting, Staging, Coordinator, MidUnwind, Unfinished, Finished,
     Unwinding, Resuming, Reopening
<1>37. CASE ImportCheck
  BY <1>1, <1>37 DEF ImportCheck, At, Go, Refuse, Idle, Ops, Undoing, Phased, Course, Resume,
     Acquire, Before, After, Waiting, Staging, Coordinator, MidUnwind, Unfinished, Finished,
     Unwinding, Resuming, Reopening
<1>38. CASE SetAside
  BY <1>1, <1>38 DEF SetAside, At, Go, Ops, Undoing, Phased, Course, Resume, Acquire, Before, After,
     Waiting, Staging, Coordinator, MidUnwind, Unfinished, Finished, Unwinding, Resuming, Reopening
<1>39. CASE Receipt
  BY <1>1, <1>39 DEF Receipt, At, Go, Save, Ops, Journals, Undoing, Phased, Course, Resume, Acquire,
     Before, After, Waiting, Staging, Coordinator, MidUnwind, Unfinished, Finished, Unwinding,
     Resuming, Reopening
<1>40. CASE Stage
  BY <1>1, <1>40 DEF Stage, At, Go, Ops, Undoing, Phased, Course, Resume, Acquire, Before, After,
     Waiting, Staging, Coordinator, MidUnwind, Unfinished, Finished, Unwinding, Resuming, Reopening
<1>41. CASE Recover
  BY <1>1, <1>41, RecoverWrites, SettleWrites DEF Same, Written, Idle, Undoing, Phased, Course,
     Resume, Acquire, Before, After, Waiting, Staging, Coordinator, MidUnwind, Unfinished, Finished,
     Unwinding, Resuming, Reopening
<1>42. CASE Receiver
  BY <1>1, <1>42, ReceiverWrites, PhaseStays DEF Same, Written, Idle, Undoing, Phased, Course,
     Resume, Acquire, Before, After, Waiting, Staging, Coordinator, MidUnwind, Unfinished, Finished,
     Unwinding, Resuming, Reopening
<1>43. CASE ReceiverStop
  BY <1>1, <1>43 DEF ReceiverStop, At, StopUnit, Ops, Undoing, Phased, Course, Resume, Acquire,
     Before, After, Waiting, Staging, Coordinator, MidUnwind, Unfinished, Finished, Unwinding,
     Resuming, Reopening
<1>44. CASE Launch
  BY <1>1, <1>44 DEF Launch, At, Go, NoWorker, Ops, Undoing, Phased, Course, Resume, Acquire,
     Before, After, Waiting, Staging, Coordinator, MidUnwind, Unfinished, Finished, Unwinding,
     Resuming, Reopening
<1>45. CASE Outcome
  BY <1>1, <1>45, OutcomeWrites, SettleWrites DEF Same, Written, Idle, Undoing, Phased, Course,
     Resume, Acquire, Before, After, Waiting, Staging, Coordinator, MidUnwind, Unfinished, Finished,
     Unwinding, Resuming, Reopening
<1>46. CASE Adopt
  BY <1>1, <1>46 DEF Adopt, At, Refuse, Idle, Save, Ops, Journals, Undoing, Phased, Course, Resume,
     Acquire, Before, After, Waiting, Staging, Coordinator, MidUnwind, Unfinished, Finished,
     Unwinding, Resuming, Reopening
<1>47. CASE ThawCheck
  BY <1>1, <1>47 DEF ThawCheck, At, Go, Refuse, Idle, Save, Ops, Journals, Undoing, Phased, Course,
     Resume, Acquire, Before, After, Waiting, Staging, Coordinator, MidUnwind, Unfinished, Finished,
     Unwinding, Resuming, Reopening
<1>48. CASE UNCHANGED <<journal, op>>
  BY <1>48 DEF Undoing, Finished, Unfinished, Reopening, Unwinding, Resuming, Before, After, Acquire
<1>49. CASE UNCHANGED journal /\ op' = Idle
  BY <1>49
  DEF Idle, Undoing, Finished, Unfinished, Reopening, Unwinding, Resuming, Before, After, Acquire
<1>50. CASE journal' = NoJournal /\ op' = op /\ op.pc = "idle"
  BY <1>50
  DEF NoJournal, Course, Undoing, Finished, Unfinished, Reopening, Unwinding, Resuming, Before,
      After, Acquire
<1>51. CASE Worker
  <2>1. journal' = journal
    BY <1>51 DEF Worker, WorkerSnapshot, WorkerExport, WorkerImport, WorkerAdmit
  <2> QED BY <1>1, <1>51, <2>1, WorkerWrites
          DEF Same, Undoing, Finished, Unfinished, Reopening, Unwinding, Resuming, Before, After,
              Acquire
<1> QED
  BY <1>2, <1>3, <1>4, <1>5, <1>6, <1>7, <1>8, <1>9, <1>10, <1>11, <1>12, <1>13, <1>14, <1>15,
     <1>16, <1>17, <1>18, <1>19, <1>20, <1>21, <1>22, <1>23, <1>24, <1>25, <1>26, <1>27, <1>28,
     <1>29, <1>30, <1>31, <1>32, <1>33, <1>34, <1>35, <1>36, <1>37, <1>38, <1>39, <1>40, <1>41,
     <1>42, <1>43, <1>44, <1>45, <1>46, <1>47, <1>48, <1>49, <1>50, <1>51, Commands DEF
     Next, Step, Fence, Reopen, Prepare, Environment, vars, Accept, Archive, Ready, Activate, Kill,
     Reboot, Write, Age, MoveAside, ForeignOpen, ForeignClose, LoseJournal, GiveUp, Timer,
     Coordinator

\* Nothing is installed while an abort of an adopted rollout runs.
LEMMA UninstalledNext == TypeOK /\ Course /\ Phased /\ Uninstalled /\ [Next]_vars => Uninstalled'
<1>1. SUFFICES ASSUME TypeOK, Course, Phased, Uninstalled, [Next]_vars,
                      op'.act = "abort", journal'.phase \in {"adopted", "activated"}
               PROVE  ~installed' /\ ~profile' /\ ~booted'
  BY DEF Uninstalled
<1>2. /\ op \in Ops /\ Changed /\ (Erased \/ Written)
      /\ op' = Idle \/ (Kept /\ (op'.pc = op.pc \/ Arrived))
  BY <1>1, Changes, Writings, Arrivals DEF TypeOK, Ops, Phased
<1>3. CASE Abort
  BY <1>1, <1>3 DEF Abort, generation
<1>4. CASE AbortLost
  BY <1>1, <1>4 DEF AbortLost, Save, Fresh, NoJournal
<1>5. CASE Begun
  BY <1>1, <1>5, BeginWrites DEF Begun
<1>6. CASE op.act = "abort"
  <2>1. Coordinator
    BY <1>1, <1>6 DEF Course, Coordinator
  <2>2. UNCHANGED <<installed, profile, booted>>
    BY <1>1, <1>2, <2>1 DEF Changed, Activate, Reboot, Idle
  <2>3. journal.phase \in {"adopted", "activated"}
    <3>1. ~Erased
      BY <2>1 DEF Erased, Coordinator
    <3>2. journal'.phase = journal.phase \/ Verify \/ Recover \/ Outcome \/ Final \/ Intent
      BY <1>2, <1>6, <2>1, <3>1 DEF Written, Adopt, Activated, AbortLost, Ready
    <3>3. CASE journal'.phase = journal.phase
      BY <1>1, <3>3
    <3>4. CASE Verify \/ Recover \/ Outcome \/ Final
      BY <1>1, <1>6, <3>4, RecoverWrites
      DEF Verify, Recover, Outcome, Final, Refuse, Idle, Course, Before, After, Acquire, At
    <3>5. CASE Intent
      BY <1>1, <3>5 DEF Intent, Save, Bound, Fresh, NoJournal, TypeOK, Journals
    <3> QED BY <3>2, <3>3, <3>4, <3>5
  <2> QED BY <1>1, <1>6, <2>2, <2>3 DEF Uninstalled
<1> QED BY <1>1, <1>2, <1>3, <1>4, <1>5, <1>6 DEF Kept, Invoked, Idle

-----------------------------------------------------------------------------
(* The writer window.                                                       *)

\* Evidence keeps its window until the operator moves it aside.
LEMMA EvidenceStays ==
  ASSUME TypeOK, [Next]_vars, ~MoveAside, NEW e \in evidence
  PROVE  \E f \in evidence' : f.window = e.window
<1>1. e \in Snapshots /\ evidence = {e}
  BY DEF TypeOK, Option
<1>2. CASE WorkerSnapshot
  <2>1. evidence' = evidence
    BY <1>2 DEF WorkerSnapshot
  <2> QED BY <2>1
<1>3. CASE WorkerExport
  <2>1. PICK x \in Exports : evidence' = {[e EXCEPT !.export = x]}
    BY <1>1, <1>3 DEF WorkerExport
  <2>2. [e EXCEPT !.export = x].window = e.window
    BY <1>1 DEF Snapshots
  <2> QED BY <2>1, <2>2
<1>4. CASE Age
  <2>1. evidence' = {[e EXCEPT !.fresh = FALSE]}
    BY <1>1, <1>4 DEF Age
  <2>2. [e EXCEPT !.fresh = FALSE].window = e.window
    BY <1>1 DEF Snapshots
  <2> QED BY <2>1, <2>2
<1>5. CASE evidence' = evidence
  BY <1>5
<1> QED BY Changes, <1>2, <1>3, <1>4, <1>5 DEF Changed

\* Every step keeps the window: a phase past `idle` has its fence, one past
\* `fenced` its evidence.
LEMMA WindowedNext == TypeOK /\ Course /\ Phased /\ Owned /\ Windowed /\ [Next]_vars => Windowed'
<1>1. SUFFICES ASSUME TypeOK, Course, Phased, Owned, Windowed, [Next]_vars PROVE Windowed'
  OBVIOUS
<1>2. /\ op \in Ops /\ journal \in Journals
      /\ Changed /\ (Erased \/ Written)
      /\ op' = Idle \/ (Kept /\ (op'.pc = op.pc \/ Arrived))
  BY <1>1, Changes, Writings, Arrivals DEF TypeOK, Ops, Phased
<1>3. journal'.phase \in {"fenced", "prepared", "imported", "adopted", "activated"} =>
        journal'.fence_token # {}
  <2>1. SUFFICES ASSUME journal'.phase \in {"fenced", "prepared", "imported", "adopted", "activated"}
                 PROVE  journal'.fence_token # {}
    OBVIOUS
  <2>2. CASE Erased
    BY <2>1, <2>2 DEF Erased, NoJournal
  <2>3. CASE AbortLost
    <3>1. CASE fence # {}
      BY <2>3, <3>1 DEF AbortLost, Save, Fresh, NoJournal
    <3>2. CASE fence = {}
      BY <2>1, <2>3, <3>2 DEF AbortLost, Save, Fresh, NoJournal
    <3> QED BY <3>1, <3>2
  <2>4. CASE FenceToken
    <3>1. journal'.fence_token = fence
      BY <1>2, <2>4 DEF FenceToken, Save, Journals
    <3> QED BY <1>1, <2>4, <3>1 DEF FenceToken, At, Owned
  <2>5. CASE Verify /\ journal'.phase # journal.phase
    BY <1>2, <2>5 DEF Verify, Save, Journals, InspectFence
  <2>6. CASE Recover \/ Outcome
    <3>1. \/ journal' = journal
          \/ journal.fence_token # {} /\ journal'.fence_token = journal.fence_token
      <4>1. CASE Recover
        BY <1>2, <4>1, SettleWrites DEF InspectFence, Outcome, Recover, At
      <4>2. CASE Outcome
        BY <1>1, <1>2, <4>2, SettleWrites DEF Windowed, Waiting, OutcomeWrites, Outcome, At
      <4> QED BY <2>6, <4>1, <4>2
    <3> QED BY <1>1, <2>1, <3>1 DEF Windowed
  <2>7. CASE Adopt \/ Activated
    <3>1. /\ journal' = journal \/ journal.phase \in {"imported", "adopted"}
          /\ journal'.fence_token = journal.fence_token
      BY <1>2, <2>7 DEF Adopt, Activated, Save, Journals
    <3> QED BY <1>1, <2>1, <3>1 DEF Windowed
  <2>8. CASE Final
    BY <1>2, <2>1, <2>8 DEF Final, Save, Journals
  <2>9. CASE Intent
    BY <1>1, <1>2, <2>1, <2>9
    DEF Intent, Save, Bound, Fresh, NoJournal, Journals, Phased, Blank, Windowed
  <2>10. CASE journal'.phase = journal.phase /\ journal'.fence_token = journal.fence_token
    BY <1>1, <2>1, <2>10 DEF Windowed
  <2> QED BY <1>2, <2>2, <2>3, <2>4, <2>5, <2>6, <2>7, <2>8, <2>9, <2>10 DEF Written
<1>4. journal'.phase \in {"prepared", "imported", "adopted", "activated"} =>
        \E e \in evidence' : journal'.fence_token = {e.window}
  <2>1. SUFFICES ASSUME journal'.phase \in {"prepared", "imported", "adopted", "activated"}
                 PROVE  \E e \in evidence' : journal'.fence_token = {e.window}
    OBVIOUS
  <2>2. ~Erased /\ ~AbortLost
    <3>1. CASE Erased
      BY <2>1, <3>1 DEF Erased, NoJournal
    <3>2. CASE AbortLost
      BY <2>1, <3>2 DEF AbortLost, Save, Fresh, NoJournal
    <3> QED BY <2>1, <3>1, <3>2
  <2>3. \E e \in evidence : journal'.fence_token = {e.window}
    <3>1. CASE Recover \/ Outcome
      <4>1. CASE journal' = journal
        BY <1>1, <2>1, <4>1 DEF Windowed
      <4>2. CASE journal' # journal
        <5>1. journal'.fence_token = journal.fence_token
          BY <1>2, <3>1, <4>2, SettleWrites
        <5>2. \E e \in evidence : journal.fence_token = {e.window}
          <6>1. CASE Recover
            BY <1>2, <4>2, <6>1, SettleWrites DEF InspectFence, Admitted, Outcome, Recover, At
          <6>2. CASE Outcome
            BY <1>1, <1>2, <4>2, <6>2, SettleWrites DEF Windowed, Waiting, Outcome, Recover, At
          <6> QED BY <3>1, <6>1, <6>2
        <5> QED BY <5>1, <5>2
      <4> QED BY <4>1, <4>2
    <3>2. CASE Adopt \/ Activated
      <4>1. /\ journal' = journal \/ journal.phase \in {"imported", "adopted"}
            /\ journal'.fence_token = journal.fence_token
        BY <1>2, <3>2 DEF Adopt, Activated, Save, Journals
      <4> QED BY <1>1, <2>1, <4>1 DEF Windowed
    <3>3. CASE FenceToken
      <4>1. journal'.phase = journal.phase /\ op.pc = "fence_token"
        BY <1>2, <3>3 DEF FenceToken, Save, Journals, At
      <4>2. op.act \in {"fence", "thaw", "abort"}
        BY <1>1, <1>2, <4>1 DEF Course, Ops, Acts, Resume, Waiting, Staging
      <4>3. CASE op.act = "fence"
        BY <1>1, <2>1, <4>1, <4>3 DEF Phased, Acquire
      <4>4. CASE Unwinding
        <5>1. op.boundary = "prepared"
          BY <1>1, <1>2, <4>1 DEF Course, Ops, After
        <5> QED BY <1>1, <2>1, <4>1, <4>4, <5>1 DEF Windowed
      <4> QED BY <4>2, <4>3, <4>4 DEF Unwinding
    <3>4. CASE Verify \/ Intent \/ Final
      <4>1. journal'.phase \in {"none", "idle", "fenced", "thawed", "aborted"} \/ journal' = journal
            \/ /\ journal'.phase = journal.phase /\ journal'.fence_token = journal.fence_token
        BY <1>2, <3>4 DEF Verify, Final, Intent, Save, Bound, Fresh, NoJournal, Journals
      <4> QED BY <1>1, <2>1, <4>1 DEF Windowed
    <3>5. CASE journal'.phase = journal.phase /\ journal'.fence_token = journal.fence_token
      BY <1>1, <2>1, <3>5 DEF Windowed
    <3> QED BY <1>2, <2>2, <3>1, <3>2, <3>3, <3>4, <3>5 DEF Written
  <2>4. ~MoveAside
    <3>1. SUFFICES ASSUME MoveAside PROVE FALSE
      OBVIOUS
    <3>2. journal' = journal /\ journal.phase \in {"none", "idle", "thawed", "aborted"}
      BY <3>1 DEF MoveAside
    <3> QED BY <2>1, <3>2
  <2> QED BY <1>1, <2>3, <2>4, EvidenceStays
<1>5. op'.pc \in Waiting => fence' # {} /\ fence' = journal'.fence_token
  <2>1. SUFFICES ASSUME op'.pc \in Waiting PROVE fence' # {} /\ fence' = journal'.fence_token
    OBVIOUS
  <2>2. op' # Idle /\ op.pc # "idle"
    <3>1. op' # Idle
      BY <2>1 DEF Idle, Waiting
    <3>2. op'.pc = op.pc \/ Arrived
      BY <1>2, <3>1
    <3> QED BY <1>2, <2>1, <3>1, <3>2, WorkerWrites
            DEF Waiting, Arrived, Recover, ReceiverStop, Receiver, Launch, At
  <2>3. op.pc \in Waiting \/ (Recover /\ op'.pc = "receivers")
    BY <1>2, <2>1, <2>2, WorkerWrites DEF Waiting, Arrived, ReceiverStop, Receiver, Launch, At
  <2>4. fence # {} /\ fence = journal.fence_token
    <3>1. CASE op.pc \in Waiting
      BY <1>1, <3>1 DEF Windowed
    <3>2. CASE Recover /\ op'.pc = "receivers"
      BY <3>2 DEF Recover, InspectFence, Refuse, Idle, Settle
    <3> QED BY <2>3, <3>1, <3>2
  <2>5. fence' = fence /\ journal'.fence_token = journal.fence_token
    <3>1. op.pc \in Waiting \cup {"recover"}
      BY <2>3 DEF Recover, At
    <3>2. fence' = fence
      BY <1>2, <3>1 DEF Changed, Open, Close, ForeignOpen, ForeignClose, Coordinator, At, Waiting
    <3>3. journal'.fence_token = journal.fence_token
      BY <1>2, <3>1 DEF Erased, Written, FenceToken, AbortLost, Ready, Coordinator, At, Waiting
    <3> QED BY <3>2, <3>3
  <2> QED BY <2>4, <2>5
<1>6. op'.pc = "ready" => \E e \in evidence' : fence' = {e.window}
  <2>1. SUFFICES ASSUME op'.pc = "ready" PROVE \E e \in evidence' : fence' = {e.window}
    OBVIOUS
  <2>2. op.pc = "ready" \/ (Worker /\ op.pc = "await")
    BY <1>2, <2>1, WorkerWrites DEF Arrived, Idle
  <2>3. fence' = fence /\ ~MoveAside
    BY <1>2, <2>2
    DEF Changed, Open, Close, ForeignOpen, ForeignClose, MoveAside, Ready, Coordinator, At
  <2>4. \E e \in evidence : fence = {e.window}
    <3>1. CASE op.pc = "ready"
      BY <1>1, <3>1 DEF Windowed
    <3>2. CASE op.pc = "await" /\ Worker
      <4>1. Admitted
        <5>1. WorkerEnds(Admitted) \/ WorkerEnds(FALSE) \/ op' = op
          BY <3>2 DEF Worker, WorkerSnapshot, WorkerExport, WorkerImport, WorkerAdmit
        <5>2. CASE WorkerEnds(Admitted)
          BY <1>2, <2>1, <3>2, <5>2 DEF WorkerEnds, At, Go, Ops
        <5>3. CASE WorkerEnds(FALSE)
          BY <1>2, <2>1, <3>2, <5>3 DEF WorkerEnds, At, Go, Ops
        <5> QED BY <2>1, <3>2, <5>1, <5>2, <5>3
      <4> QED BY <4>1 DEF Admitted
    <3> QED BY <2>2, <3>1, <3>2
  <2> QED BY <1>1, <2>3, <2>4, EvidenceStays
<1>7. Unwinding' /\ op'.boundary = "prepared"
         /\ op'.pc \in {"dependents", "primary_stop", "opening", "open", "fence_token"} =>
        journal'.fence_token = {}
  <2>1. SUFFICES ASSUME Unwinding', op'.boundary = "prepared",
                        op'.pc \in {"dependents", "primary_stop", "opening", "open", "fence_token"}
                 PROVE  journal'.fence_token = {}
    OBVIOUS
  <2>2. /\ op'.act = op.act /\ op'.boundary = op.boundary
        /\ op.pc \in {"dependents", "primary_stop", "opening", "open", "fence_token"} \/ Boundary
    <3>1. op' # Idle /\ ~Invoked /\ (op'.pc = op.pc \/ Arrived)
      <4>1. ~Begun
        BY <2>1, BeginWrites DEF Begun
      <4>2. op' # Idle
        BY <2>1 DEF Idle, Unwinding
      <4>3. ~Abort /\ ~AbortLost
        BY <2>1 DEF Idle, Abort, AbortLost
      <4> QED BY <1>2, <4>1, <4>2, <4>3 DEF Invoked
    <3>2. ~StartupToken
      BY <1>2, <2>1, StartupTokenWrites DEF Unwinding
    <3>3. op'.act = op.act /\ op'.boundary = op.boundary
      BY <1>2, <3>1, <3>2 DEF Kept
    <3>4. ~ClientStop
      BY <1>1, <2>1, <3>3 DEF ClientStop, At, Course, Unwinding, Before, After, Acquire
    <3> QED BY <2>1, <3>1, <3>2, <3>3, <3>4 DEF Arrived, Dependent, PrimaryStop, Opening, Open, At
  <2>3. journal.fence_token = {}
    <3>1. CASE Boundary
      BY <1>2, <2>1, <3>1 DEF Boundary, Go, GoIf, Refuse, Idle, Ops
    <3>2. CASE op.pc \in {"dependents", "primary_stop", "opening", "open", "fence_token"}
      BY <1>1, <2>1, <2>2, <3>2 DEF Windowed, Unwinding
    <3> QED BY <2>2, <3>1, <3>2
  <2>4. journal'.fence_token = journal.fence_token
    <3>1. ~FenceToken
      BY <1>2, <2>1 DEF FenceToken, Go, At, Ops
    <3>2. Coordinator
      BY <2>2 DEF Coordinator, Boundary, At
    <3> QED BY <1>2, <3>1, <3>2 DEF Erased, Written, AbortLost, Ready, Coordinator
  <2> QED BY <2>3, <2>4
<1>8. op'.pc = "release" => journal'.fence_token # {}
  <2>1. SUFFICES ASSUME op'.pc = "release" PROVE journal'.fence_token # {}
    OBVIOUS
  <2>2. op.pc = "release" \/ FenceToken \/ Close
    BY <1>2, <2>1 DEF Arrived, Idle
  <2>3. CASE FenceToken
    <3>1. journal'.fence_token = fence
      BY <1>2, <2>3 DEF FenceToken, Save, Journals
    <3> QED BY <1>1, <2>3, <3>1 DEF FenceToken, At, Owned
  <2>4. CASE Close
    <3>1. op.boundary = "closed" /\ journal' = journal
      BY <1>1, <2>4 DEF Course, Close, At
    <3> QED BY <1>1, <3>1 DEF Windowed
  <2>5. CASE op.pc = "release"
    <3>1. journal'.fence_token = journal.fence_token
      BY <1>2, <2>5 DEF Erased, Written, FenceToken, AbortLost, Ready, Coordinator, At
    <3> QED BY <1>1, <2>5, <3>1 DEF Windowed
  <2> QED BY <2>2, <2>3, <2>4, <2>5
<1>9. (\/ op'.boundary = "closed"
       \/ Unwinding' /\ op'.pc \in {"intent", "inhibit", "startup_token"}) =>
        journal'.fence_token # {}
  <2>1. SUFFICES ASSUME \/ op'.boundary = "closed"
                        \/ Unwinding' /\ op'.pc \in {"intent", "inhibit", "startup_token"}
                 PROVE  journal'.fence_token # {}
    OBVIOUS
  <2>2. op' # Idle
    BY <2>1 DEF Idle, Unwinding
  <2>3. ~Begun
    BY <2>1, BeginWrites DEF Begun
  <2>4. ~Abort /\ ~AbortLost
    BY <2>1 DEF Idle, Abort, AbortLost
  <2>5. \/ op.boundary = "closed" \/ (Skipped /\ op'.pc = "intent")
        \/ Unwinding /\ op.pc \in {"intent", "inhibit", "startup_token"}
    <3>1. CASE op'.boundary = "closed"
      BY <1>2, <2>2, <2>3, <2>4, <3>1, StartupTokenWrites DEF Kept, Invoked
    <3>2. CASE Unwinding' /\ op'.pc \in {"intent", "inhibit", "startup_token"}
      <4>1. op'.act = op.act
        BY <1>2, <2>2, <2>3, <2>4 DEF Kept, Invoked
      <4> QED BY <1>2, <2>2, <3>2, <4>1 DEF Unwinding, Arrived, FenceCheck, Intent, Inhibit, At
    <3> QED BY <2>1, <3>1, <3>2
  <2>6. CASE FenceToken
    <3>1. journal'.fence_token = fence
      BY <1>2, <2>6 DEF FenceToken, Save, Journals
    <3> QED BY <1>1, <2>6, <3>1 DEF FenceToken, At, Owned
  <2>7. CASE ~FenceToken
    <3>1. journal'.fence_token = journal.fence_token
      <4>1. op.pc # "idle"
        BY <1>1, <2>5 DEF Course, Unwinding, Skipped, At
      <4> QED BY <1>2, <2>4, <2>7, <4>1 DEF Erased, Written
    <3>2. journal.fence_token # {}
      <4>1. CASE Skipped /\ op'.pc = "intent"
        BY <1>2, <4>1 DEF Skipped, Go, At, Ops
      <4>2. CASE \/ op.boundary = "closed"
                 \/ Unwinding /\ op.pc \in {"intent", "inhibit", "startup_token"}
        BY <1>1, <4>2 DEF Windowed
      <4> QED BY <2>5, <4>1, <4>2
    <3> QED BY <3>1, <3>2
  <2> QED BY <2>6, <2>7
<1> QED BY <1>3, <1>4, <1>5, <1>6, <1>7, <1>8, <1>9 DEF Windowed

\* The action AdvancesInWindow is about.
Advance ==
  journal'.phase # journal.phase =>
    /\ journal'.phase \in {"fenced", "prepared", "imported", "adopted", "activated"} /\ lost' = lost =>
         fence # {} /\ fence = journal'.fence_token
    /\ journal'.phase \in {"prepared", "imported", "adopted"} =>
         \E e \in evidence : journal'.fence_token = {e.window}
    /\ journal'.phase = "adopted" => \A e \in evidence : e.data = data

\* A phase is only reached as AdvancesInWindow says.
LEMMA Advances == TypeOK /\ Course /\ Phased /\ Windowed /\ [Next]_vars => Advance
<1>1. SUFFICES ASSUME TypeOK, Course, Phased, Windowed, [Next]_vars, journal'.phase # journal.phase
               PROVE  Advance
  BY DEF Advance
<1>2. op \in Ops /\ journal \in Journals /\ (Erased \/ Written)
  BY <1>1, Writings DEF TypeOK, Ops, Phased
<1>3. CASE Erased
  BY <1>3 DEF Erased, NoJournal, Advance
<1>4. CASE Intent \/ Final
  <2>1. journal'.phase \in {"idle", "thawed", "aborted"} \/ journal'.phase = journal.phase
    BY <1>2, <1>4 DEF Intent, Final, Save, Bound, Fresh, NoJournal, Journals
  <2> QED BY <1>1, <2>1 DEF Advance
<1>5. CASE Verify
  BY <1>1, <1>2, <1>5 DEF Verify, InspectFence, Save, Journals, Advance
<1>6. CASE Recover \/ Outcome
  <2>1. /\ journal'.phase \in {"prepared", "imported"}
        /\ journal'.fence_token = journal.fence_token
    BY <1>1, <1>2, <1>6, SettleWrites
  <2>2. fence # {} /\ fence = journal.fence_token
    <3>1. CASE Recover
      BY <1>1, <1>2, <3>1, SettleWrites DEF InspectFence, Outcome, Recover, At
    <3>2. CASE Outcome
      BY <1>1, <1>2, <3>2, OutcomeWrites DEF Windowed, Waiting
    <3> QED BY <1>6, <3>1, <3>2
  <2>3. \E e \in evidence : journal.fence_token = {e.window}
    <3>1. CASE Recover
      BY <1>1, <1>2, <2>2, <3>1, SettleWrites DEF Admitted, Outcome, Recover, At
    <3>2. CASE Outcome
      BY <1>1, <1>2, <2>2, <3>2, SettleWrites DEF Windowed, Outcome, Recover, At
    <3> QED BY <1>6, <3>1, <3>2
  <2> QED BY <2>1, <2>2, <2>3 DEF Advance
<1>7. CASE Adopt
  <2>1. /\ journal.phase = "imported" /\ Admitted /\ \A e \in evidence : e.data = data
        /\ journal'.phase = "adopted" /\ journal'.fence_token = journal.fence_token
    BY <1>1, <1>2, <1>7 DEF Adopt, Save, Journals
  <2>2. PICK e \in evidence : journal.fence_token = {e.window}
    BY <1>1, <2>1 DEF Windowed
  <2>3. fence = {e.window}
    BY <1>1, <2>1, <2>2 DEF Admitted, TypeOK, Option
  <2> QED BY <2>1, <2>2, <2>3 DEF Advance
<1>8. CASE Activated
  BY <1>1, <1>2, <1>8 DEF Activated, InspectFence, Save, Journals, Advance
<1>9. CASE AbortLost
  <2>1. CASE fence # {}
    <3>1. journal'.phase = "fenced" /\ journal'.fence_token = fence
      BY <1>9, <2>1 DEF AbortLost, Save, Fresh, NoJournal
    <3> QED BY <2>1, <3>1 DEF Advance
  <2>2. CASE fence = {}
    <3>1. journal'.phase = "idle"
      BY <1>9, <2>2 DEF AbortLost, Save, Fresh, NoJournal
    <3> QED BY <3>1 DEF Advance
  <2> QED BY <2>1, <2>2
<1> QED BY <1>1, <1>2, <1>3, <1>4, <1>5, <1>6, <1>7, <1>8, <1>9 DEF Written

\* Every step keeps the closed boundary closed: what follows it was reached by
\* Close, and no step opens the journal's own fence again.
LEMMA ShutNext ==
  TypeOK /\ Course /\ Phased /\ Undoing /\ Owned /\ Windowed /\ Opened /\ Shut /\ [Next]_vars => Shut'
<1>1. SUFFICES ASSUME TypeOK, Course, Phased, Undoing, Owned, Windowed, Opened, Shut, [Next]_vars,
                      journal'.fence_token # {}, fence' = journal'.fence_token,
                      \/ journal'.reopened
                      \/ Unwinding' /\ op'.pc \in {"start", "live", "reopened"}
                      \/ op'.pc = "release" /\ op'.boundary = "closed"
               PROVE  FALSE
  BY DEF Shut
<1>2. /\ op \in Ops /\ journal \in Journals /\ tokens \in Nat
      /\ Changed /\ (Erased \/ Written)
      /\ op' = Idle \/ (Kept /\ (op'.pc = op.pc \/ Arrived))
  BY <1>1, Changes, Writings, Arrivals, RolloutAssumption DEF TypeOK, Ops, Phased
<1>3. ~Erased
  BY <1>1 DEF Erased, NoJournal
<1>4. ~AbortLost
  <2>1. ASSUME AbortLost PROVE ~journal'.reopened /\ op'.pc = "unwind"
    BY <2>1 DEF AbortLost, Save, Fresh, NoJournal, Idle
  <2> QED BY <1>1, <2>1
<1>5. ~FenceToken
  <2>1. SUFFICES ASSUME FenceToken PROVE FALSE
    OBVIOUS
  <2>2. op.pc = "fence_token" /\ op'.pc = "release" /\ op'.boundary = op.boundary
    BY <1>2, <2>1 DEF FenceToken, At, Go, Ops
  <2>3. op.act \in {"fence", "thaw", "abort"} /\ op.boundary = "prepared"
    BY <1>1, <1>2, <2>2 DEF Course, Ops, Acts, Resume, Waiting, Staging, After
  <2>4. ~journal.reopened
    <3>1. CASE op.act = "fence"
      BY <1>1, <2>2, <3>1 DEF Phased, Acquire, MidUnwind, Unfinished
    <3>2. CASE Unwinding
      BY <1>1, <2>2, <3>2 DEF Undoing, Reopening, Resuming, Before, Acquire
    <3> QED BY <2>3, <3>1, <3>2 DEF Unwinding
  <2>5. journal'.reopened = journal.reopened
    BY <1>2, <2>1 DEF FenceToken, Save, Journals
  <2> QED BY <1>1, <2>2, <2>3, <2>4, <2>5
<1>6. journal'.fence_token = journal.fence_token
  BY <1>2, <1>3, <1>4, <1>5 DEF Written
<1>7. fence = journal.fence_token /\ fence # {}
  <2>1. journal.fence_token \subseteq 1..tokens
    BY <1>1 DEF Owned
  <2>2. fence' # fence => ~Open /\ ~ForeignOpen
    BY <1>1, <1>2, <1>6, <2>1 DEF Open, ForeignOpen
  <2>3. fence' # fence => ~Close /\ ~ForeignClose
    BY <1>1, <1>6 DEF Close, ForeignClose
  <2> QED BY <1>1, <1>2, <1>6, <2>2, <2>3 DEF Changed
<1>8. /\ ~journal.reopened
      /\ ~(Unwinding /\ op.pc \in {"start", "live", "reopened"})
      /\ ~(op.pc = "release" /\ op.boundary = "closed")
  BY <1>1, <1>7 DEF Shut
<1>9. CASE journal'.reopened
  <2>1. Reopened
    BY <1>2, <1>3, <1>8, <1>9 DEF Written
  <2>2. op.pc = "reopened" /\ Unwinding
    BY <1>1, <1>2, <2>1
    DEF Reopened, At, Course, Ops, Acts, Resume, Acquire, Waiting, Staging, Unwinding
  <2> QED BY <1>8, <2>2
<1>10. CASE Unwinding' /\ op'.pc \in {"start", "live", "reopened"}
  <2>1. op'.act = op.act /\ (op'.pc = op.pc \/ Arrived)
    BY <1>2, <1>10, Invocations DEF Kept, Idle
  <2>2. Unwinding
    BY <1>10, <2>1 DEF Unwinding
  <2>3. (Release /\ op'.pc = "start") \/ (Start /\ op'.pc = "live") \/ Skipped \/ Live
    BY <1>8, <1>10, <2>1, <2>2 DEF Arrived
  <2>4. ASSUME Release, op'.pc = "start" PROVE FALSE
    <3>1. op.pc = "release" /\ op.boundary # "prepared"
      BY <1>2, <2>2, <2>4 DEF Release, At, Go, Ops, Refuse, Idle
    <3> QED BY <1>2, <1>8, <3>1 DEF Ops
  <2>5. ASSUME Start PROVE FALSE
    <3>1. op.pc = "restart_only"
      BY <1>8, <2>2, <2>5 DEF Start, At
    <3> QED BY <1>1, <1>7, <3>1 DEF Opened
  <2>6. ASSUME Skipped PROVE FALSE
    BY <1>2, <1>7, <1>10, <2>6 DEF Skipped, Go, Ops
  <2>7. ASSUME Live PROVE FALSE
    BY <1>8, <2>2, <2>7 DEF Live, At
  <2> QED BY <2>3, <2>4, <2>5, <2>6, <2>7
<1>11. CASE op'.pc = "release" /\ op'.boundary = "closed"
  <2>1. op'.pc = op.pc \/ Close
    BY <1>2, <1>5, <1>11 DEF Arrived, Idle
  <2>2. ~Close
    BY <1>1, <1>11 DEF Close, Refuse, Idle
  <2>3. op'.boundary = op.boundary
    <3>1. ~Invoked
      BY <1>11, Invocations
    <3>2. ~StartupToken
      BY <1>11, <2>1, <2>2 DEF StartupToken, At
    <3> QED BY <1>2, <1>11, <3>1, <3>2 DEF Kept, Idle
  <2> QED BY <1>8, <1>11, <2>1, <2>2, <2>3
<1> QED BY <1>1, <1>9, <1>10, <1>11

\* Every step keeps an adoption known: the journal leaves `adopted` and
\* `activated` only past its closed boundary, or when it is lost.
LEMMA KnownNext ==
  TypeOK /\ Course /\ Phased /\ Undoing /\ Owned /\ Windowed /\ Shut /\ Known /\ [Next]_vars => Known'
<1>1. SUFFICES ASSUME TypeOK, Course, Phased, Undoing, Owned, Windowed, Shut, Known, [Next]_vars
               PROVE  Known'
  OBVIOUS
<1>2. /\ op \in Ops /\ journal \in Journals /\ tokens \in Nat
      /\ Changed /\ (Erased \/ Written)
  BY <1>1, Changes, Writings, RolloutAssumption DEF TypeOK, Ops, Phased
<1>3. /\ adopted \subseteq 1..tokens /\ fence \subseteq {tokens}
      /\ journal.fence_token \subseteq 1..tokens
  BY <1>1 DEF Known, Owned
\* A step that adopts does so under the fence the journal names.
<1>4. ASSUME Adopt, adopted' # adopted \/ forgotten' # forgotten
      PROVE  /\ adopted' = adopted \cup fence /\ fence = journal.fence_token
             /\ UNCHANGED <<fence, tokens>>
             /\ journal'.fence_token = journal.fence_token /\ journal'.phase = "adopted"
  <2>1. /\ journal.phase = "imported" /\ Admitted
        /\ journal' = [journal EXCEPT !.phase = "adopted"]
        /\ adopted' = adopted \cup fence /\ UNCHANGED <<fence, tokens>>
    BY <1>4 DEF Adopt, Save, authority
  <2>2. fence = journal.fence_token
    <3>1. \A e, f \in evidence : e = f
      BY <1>1 DEF TypeOK, Option
    <3>2. PICK e \in evidence : fence = {e.window}
      BY <2>1 DEF Admitted
    <3> QED BY <1>1, <2>1, <3>1, <3>2 DEF Windowed
  <2> QED BY <1>2, <2>1, <2>2 DEF Journals
<1>5. adopted' \subseteq 1..tokens'
  <2>1. 1..tokens \subseteq 1..tokens'
    BY <1>2 DEF Changed, Open, ForeignOpen
  <2> QED BY <1>2, <1>3, <1>4, <2>1 DEF Changed
<1>6. ASSUME NEW t \in adopted' \ forgotten', fence' = {t}
      PROVE  journal'.fence_token = {t} /\ journal'.phase \in {"adopted", "activated"}
  <2>1. CASE Adopt /\ (adopted' # adopted \/ forgotten' # forgotten)
    BY <1>4, <1>6, <2>1
  <2>2. ASSUME LoseJournal PROVE FALSE
    <3>1. /\ t \in adopted \ forgotten /\ fence = {t} /\ t \notin journal.fence_token
      BY <1>6, <2>2 DEF LoseJournal, authority
    <3> QED BY <1>1, <3>1 DEF Known
  <2>3. CASE ~LoseJournal /\ adopted' = adopted /\ forgotten' = forgotten
    <3>1. fence = {t}
      <4>1. Close \/ ForeignClose => fence = {t}
        BY <1>6 DEF Close, ForeignClose
      <4>2. Open \/ ForeignOpen => fence = {t}
        BY <1>2, <1>3, <1>6, <2>3 DEF Open, ForeignOpen
      <4> QED BY <1>2, <1>6, <4>1, <4>2 DEF Changed
    <3>2. journal.fence_token = {t} /\ journal.phase \in {"adopted", "activated"}
      BY <1>1, <1>6, <2>3, <3>1 DEF Known
    <3>3. ~Erased /\ ~AbortLost
      BY <2>3, <3>2 DEF Erased, Archivable, AbortLost
    <3>4. ~FenceToken
      <4>1. SUFFICES ASSUME op.pc = "fence_token" PROVE FALSE
        BY DEF FenceToken, At
      <4>2. op.act \in {"fence", "thaw", "abort"} /\ op.boundary = "prepared"
        BY <1>1, <1>2, <4>1 DEF Course, Ops, Acts, Resume, Waiting, Staging, After
      <4>3. CASE op.act = "fence"
        BY <1>1, <3>2, <4>1, <4>3 DEF Phased, Acquire
      <4>4. CASE Unwinding
        BY <1>1, <3>2, <4>1, <4>2, <4>4 DEF Windowed
      <4> QED BY <4>2, <4>3, <4>4 DEF Unwinding
    <3>5. journal'.fence_token = {t}
      BY <1>2, <3>2, <3>3, <3>4 DEF Written
    <3>6. CASE journal'.phase = journal.phase
      BY <3>2, <3>5, <3>6
    <3>7. CASE journal'.phase # journal.phase
      <4>1. ~Intent
        <5>1. Intent => journal'.phase = journal.phase
          BY <1>2, <3>2 DEF Intent, Save, Bound, Journals
        <5> QED BY <3>7, <5>1
      <4>2. ~Verify
        BY <3>2, <3>7 DEF Verify
      <4>3. ~Recover /\ ~Outcome
        <5>1. op.pc \in Waiting \cup {"recover"} => FALSE
          BY <1>1, <3>2 DEF Phased
        <5> QED BY <5>1 DEF Recover, Outcome, At, Waiting
      <4>4. ~Adopt
        BY <3>2, <3>7 DEF Adopt
      <4>5. ~Final
        <5>1. SUFFICES ASSUME op.pc = "final" PROVE FALSE
          BY DEF Final, At
        <5>2. Unwinding /\ ~Resuming
          BY <1>1, <1>2, <5>1
          DEF Course, Ops, Acts, Resume, Acquire, Waiting, Staging, Unwinding, Resuming
        <5>3. journal.reopened
          BY <1>1, <5>1, <5>2 DEF Undoing, Reopening, After
        <5> QED BY <1>1, <3>1, <3>2, <5>3 DEF Shut
      <4>6. Activated
        BY <1>2, <3>3, <3>7, <4>1, <4>2, <4>3, <4>4, <4>5 DEF Written
      <4>7. journal'.phase = "activated"
        BY <1>2, <4>6 DEF Activated, Save, Journals
      <4> QED BY <3>5, <4>7
    <3> QED BY <3>6, <3>7
  <2> QED BY <1>2, <2>1, <2>2, <2>3 DEF Changed
<1> QED BY <1>5, <1>6 DEF Known

\* Under the invariant only Close takes away a fence whose adoption is known:
\* an abort reaches it with nothing installed, a thaw with the acceptance.
LEMMA ThawsAccepted ==
  ASSUME TypeOK, Course, Undoing, Uninstalled, Owned, Known, [Next]_vars,
         NEW t \in adopted \ forgotten, Thaws(t)
  PROVE  journal.accepted
<1>1. fence = {t} /\ fence' # fence /\ (installed \/ profile \/ booted)
  BY DEF Thaws
<1>2. journal.fence_token = {t} /\ journal.phase \in {"adopted", "activated"}
  BY <1>1 DEF Known
<1>3. ~Open /\ ~ForeignOpen
  BY <1>1 DEF Open, ForeignOpen
<1>4. ~ForeignClose
  BY <1>1, <1>2 DEF ForeignClose, OurFence, Owned
<1>5. Close
  BY <1>1, <1>3, <1>4, Changes DEF Changed
<1>6. Unwinding /\ op.pc = "close"
  BY <1>5 DEF Course, Close, At
<1>7. op.act = "thaw"
  BY <1>1, <1>2, <1>6 DEF Unwinding, Uninstalled
<1> QED BY <1>6, <1>7 DEF Undoing, Reopening, Resuming

-----------------------------------------------------------------------------
(* What the coordinator holds.                                              *)

\* Every step keeps the import slot empty or with the journal's receipt; it is
\* retired before a rollout is finished.
LEMMA SlottedNext == TypeOK /\ Phased /\ Slotted /\ [Next]_vars => Slotted'
<1>1. SUFFICES ASSUME TypeOK, Phased, Slotted, [Next]_vars, lost' = 0 PROVE Slotted'
  BY DEF Slotted
<1>2. /\ op \in Ops /\ journal \in Journals /\ slot \in Option(Receipts)
      /\ Changed /\ (Erased \/ Written)
      /\ op' = Idle \/ (Kept /\ (op'.pc = op.pc \/ Arrived))
  BY <1>1, Changes, Writings, Arrivals DEF TypeOK, Ops, Phased
<1>3. lost = 0 /\ ~LoseJournal
  <2>1. LoseJournal => lost' = lost + 1 /\ lost \in Nat
    BY <1>1, RolloutAssumption DEF LoseJournal, TypeOK
  <2> QED BY <1>1, <1>2, <2>1 DEF Changed
<1>4. /\ slot = {} \/ slot = journal.receipt
      /\ op.pc = "receipt" => slot \subseteq op.receipt
      /\ op.pc = "stage" => journal.receipt = op.receipt
      /\ op.pc = "final" \/ Finished => slot = {}
  BY <1>1, <1>3 DEF Slotted
<1>5. slot' = {} \/ slot' = journal'.receipt
  <2>1. CASE SetAside \/ Stage \/ RetireSlot
    <3>1. journal' = journal /\ (slot' = {} \/ slot' = slot \/ (Stage /\ slot' = op.receipt))
      BY <1>2, <2>1 DEF SetAside, Stage, RetireSlot, Option, Ops
    <3> QED BY <1>4, <3>1 DEF Stage, At
  <2>2. CASE slot' = slot /\ Erased
    BY <1>3, <1>4, <2>2 DEF Erased, Archivable, Finished
  <2>3. CASE slot' = slot /\ Receipt
    <3>1. journal'.receipt = op.receipt /\ op.pc = "receipt"
      BY <1>2, <2>3 DEF Receipt, Save, Journals, At
    <3> QED BY <1>2, <1>4, <2>3, <3>1 DEF Option, Ops
  <2>4. CASE slot' = slot /\ journal'.receipt = journal.receipt
    BY <1>4, <2>4
  <2> QED BY <1>2, <2>1, <2>2, <2>3, <2>4 DEF Changed, Written
<1>6. op'.pc = "receipt" => slot' \subseteq op'.receipt
  <2>1. SUFFICES ASSUME op'.pc = "receipt" PROVE slot' \subseteq op'.receipt
    OBVIOUS
  <2>2. op.pc = "receipt" \/ SetAside
    BY <1>2, <2>1 DEF Arrived, Idle
  <2>3. op'.receipt = op.receipt
    BY <1>2, <2>1, Invocations DEF Kept, Idle
  <2>4. CASE SetAside
    BY <2>3, <2>4 DEF SetAside
  <2>5. CASE op.pc = "receipt"
    BY <1>2, <1>4, <2>3, <2>5 DEF Changed, SetAside, Stage, RetireSlot, At
  <2> QED BY <2>2, <2>4, <2>5
<1>7. op'.pc = "stage" => journal'.receipt = op'.receipt
  <2>1. SUFFICES ASSUME op'.pc = "stage" PROVE journal'.receipt = op'.receipt
    OBVIOUS
  <2>2. op.pc = "stage" \/ Receipt
    BY <1>2, <2>1 DEF Arrived, Idle
  <2>3. op'.receipt = op.receipt
    BY <1>2, <2>1, Invocations DEF Kept, Idle
  <2>4. CASE Receipt
    BY <1>2, <2>3, <2>4 DEF Receipt, Save, Journals
  <2>5. CASE op.pc = "stage"
    BY <1>2, <1>4, <2>3, <2>5 DEF Written, Erased, Receipt, At
  <2> QED BY <2>2, <2>4, <2>5
<1>8. op'.pc = "final" \/ Finished' => slot' = {}
  <2>1. SUFFICES ASSUME op'.pc = "final" \/ Finished' PROVE slot' = {}
    OBVIOUS
  <2>2. CASE RetireSlot
    BY <1>4, <2>2 DEF RetireSlot
  <2>3. CASE ~RetireSlot
    <3>1. op.pc = "final" \/ Finished
      <4>1. CASE op'.pc = "final"
        BY <1>2, <2>3, <4>1 DEF Arrived, Idle
      <4>2. CASE Finished' /\ ~Final
        <5>1. CASE journal'.phase = journal.phase
          BY <4>2, <5>1 DEF Finished
        <5>2. CASE Erased
          BY <4>2, <5>2 DEF Finished, Erased, NoJournal
        <5>3. CASE AbortLost
          BY <4>2, <5>3 DEF Finished, AbortLost, Save, Fresh, NoJournal
        <5>4. CASE Intent \/ Verify \/ Adopt \/ Activated
          BY <1>2, <4>2, <5>4
          DEF Finished, Intent, Verify, Adopt, Activated, Save, Bound, Fresh, NoJournal, Journals
        <5>5. CASE Recover \/ Outcome
          BY <1>2, <4>2, <5>5, SettleWrites DEF Finished
        <5> QED BY <1>2, <4>2, <5>1, <5>2, <5>3, <5>4, <5>5 DEF Written
      <4>3. CASE Final
        BY <4>3 DEF Final, At
      <4> QED BY <2>1, <4>1, <4>2, <4>3
    <3>2. ~SetAside /\ ~Stage
      BY <1>1, <3>1 DEF SetAside, Stage, At, Phased, Staging, Finished
    <3> QED BY <1>2, <1>4, <2>3, <3>1, <3>2 DEF Changed
  <2> QED BY <2>2, <2>3
<1> QED BY <1>5, <1>6, <1>7, <1>8 DEF Slotted

\* Every step keeps the fence recorded: the intent is saved before the fence
\* is opened and the fence before the phase.
LEMMA OpenedNext ==
  TypeOK /\ Course /\ Phased /\ Undoing /\ Owned /\ Windowed /\ Opened /\ [Next]_vars => Opened'
<1>1. SUFFICES ASSUME TypeOK, Course, Phased, Undoing, Owned, Windowed, Opened, [Next]_vars
               PROVE Opened'
  OBVIOUS
<1>2. /\ op \in Ops /\ journal \in Journals /\ tokens \in Nat
      /\ Changed /\ (Erased \/ Written)
      /\ op' = Idle \/ (Kept /\ (op'.pc = op.pc \/ Arrived))
  BY <1>1, Changes, Writings, Arrivals, RolloutAssumption DEF TypeOK, Ops, Phased
<1>3. op'.pc = "startup_token" => held' # {}
  <2>1. SUFFICES ASSUME op'.pc = "startup_token" PROVE held' # {}
    OBVIOUS
  <2>2. CASE Inhibit
    BY <2>2 DEF Inhibit
  <2>3. CASE op.pc = "startup_token"
    BY <1>1, <1>2, <2>3
    DEF Opened, Changed, Inhibit, Release, ForeignOpen, ForeignClose, Coordinator, At
  <2> QED BY <1>2, <2>1, <2>2, <2>3 DEF Arrived, Idle
<1>4. op'.pc \in {"inhibit", "startup_token"} => journal'.inhibiting
  <2>1. SUFFICES ASSUME op'.pc \in {"inhibit", "startup_token"} PROVE journal'.inhibiting
    OBVIOUS
  <2>2. CASE Intent
    BY <1>2, <2>2 DEF Intent, Save, Bound, Fresh, NoJournal, Journals
  <2>3. CASE op.pc \in {"inhibit", "startup_token"}
    BY <1>1, <1>2, <2>3 DEF Opened, Erased, Written, Intent, AbortLost, Ready, Coordinator, At
  <2> QED BY <1>2, <2>1, <2>2, <2>3 DEF Arrived, Idle, Inhibit, At
<1>5. Acquiring' => held' # {} /\ held' = journal'.startup_token
  <2>1. SUFFICES ASSUME Acquiring' PROVE held' # {} /\ held' = journal'.startup_token
    OBVIOUS
  <2>2. op' # Idle /\ ~Invoked /\ Kept /\ (op'.pc = op.pc \/ Arrived)
    BY <1>2, <2>1, Invocations DEF Acquiring, Idle
  <2>3. \/ StartupToken /\ op'.pc = "pause"
        \/ Boundary /\ op'.pc = "dependents"
        \/ Acquiring
    <3>1. CASE op'.pc \in {"pause", "publishers", "publisher_stop", "open", "fence_token"}
      BY <1>1, <2>2, <3>1
      DEF Arrived, Acquiring, PausePublishers, PublisherStop, Publisher, Opening, Open, At
    <3>2. CASE op'.pc = "opening"
      <4>1. CASE PrimaryStop
        BY <1>2, <3>2, <4>1 DEF PrimaryStop, Go, At, Ops, Acquiring
      <4> QED BY <2>2, <3>2, <4>1 DEF Arrived, Acquiring
    <3>3. CASE op'.pc \in {"clients", "client_stop"} /\ journal'.phase = "idle"
      <4>1. op.pc \in {"clients", "client_stop"} \/ FenceCheck \/ Publisher
        BY <2>2, <3>3 DEF Arrived, RecordClients, At
      <4>2. CASE FenceCheck
        BY <1>2, <3>3, <4>2 DEF FenceCheck, Go, GoIf, Refuse, Idle, Ops
      <4>3. CASE Publisher
        BY <4>3 DEF Publisher, At, Acquiring
      <4>4. CASE op.pc \in {"clients", "client_stop"}
        <5>1. journal'.phase = journal.phase
          BY <1>2, <4>4
          DEF Erased, Written, Intent, Verify, Recover, Outcome, Adopt, Activated, Final, AbortLost,
             Ready, Coordinator, At
        <5> QED BY <3>3, <4>4, <5>1 DEF Acquiring
      <4> QED BY <4>1, <4>2, <4>3, <4>4
    <3>4. CASE op'.pc \in {"dependents", "primary_stop"} /\ op'.boundary = "prepared"
      <4>1. ~StartupToken
        BY <1>2, <3>4, StartupTokenWrites
      <4>2. op'.boundary = op.boundary
        BY <2>2, <4>1 DEF Kept
      <4>3. CASE ClientStop
        BY <1>2, <3>4, <4>3 DEF ClientStop, Go, At, Ops, Acquiring
      <4> QED BY <1>2, <2>2, <3>4, <4>1, <4>2, <4>3
              DEF Arrived, Dependent, Boundary, Go, GoIf, Refuse, At, Ops, Acquiring
    <3> QED BY <2>1, <3>1, <3>2, <3>3, <3>4 DEF Acquiring
  <2>4. CASE StartupToken
    BY <1>1, <1>2, <2>4 DEF StartupToken, Save, Journals, authority, At, Opened
  <2>5. CASE Boundary /\ op'.pc = "dependents"
    BY <1>2, <2>2, <2>5 DEF Boundary, Go, authority, Ops
  <2>6. CASE Acquiring /\ ~StartupToken
    <3>1. held' = held
      BY <1>1, <1>2, <2>6
      DEF Acquiring, Changed, Inhibit, Release, ForeignOpen, ForeignClose, Coordinator, At
    <3>2. journal'.startup_token = journal.startup_token
      BY <1>1, <1>2, <2>6 DEF Acquiring, Erased, Written, Unwind, AbortLost, Ready, Coordinator, At
    <3> QED BY <1>1, <2>6, <3>1, <3>2 DEF Opened
  <2> QED BY <2>3, <2>4, <2>5, <2>6
<1>6. op'.pc \in {"open", "fence_token"} => journal'.fence_opening
  <2>1. SUFFICES ASSUME op'.pc \in {"open", "fence_token"} PROVE journal'.fence_opening
    OBVIOUS
  <2>2. CASE Opening
    BY <1>2, <2>1, <2>2 DEF Opening, Save, Refuse, Idle, Journals
  <2>3. CASE op.pc \in {"open", "fence_token"}
    BY <1>1, <1>2, <2>3 DEF Opened, Erased, Written, Opening, AbortLost, Ready, Coordinator, At
  <2> QED BY <1>2, <2>1, <2>2, <2>3 DEF Arrived, Idle, Open, At
<1>7. op'.pc = "skipped" /\ journal'.fence_token = {} => journal'.startup_token = {}
  <2>1. SUFFICES ASSUME op'.pc = "skipped", journal'.fence_token = {}
                 PROVE journal'.startup_token = {}
    OBVIOUS
  <2>2. op.pc = "skipped" \/ Boundary \/ Release
    BY <1>2, <2>1 DEF Arrived, Idle
  <2>3. /\ journal'.fence_token = journal.fence_token
        /\ journal'.startup_token = journal.startup_token
    BY <1>2, <2>2
    DEF Erased, Written, FenceToken, StartupToken, Unwind, AbortLost, Ready, Coordinator,
       Boundary, Release, At
  <2>4. ~Release
    BY <1>1, <2>1, <2>3 DEF Windowed, Release, At
  <2>5. CASE Boundary
    BY <1>2, <2>1, <2>3, <2>5 DEF Boundary, Go, GoIf, Refuse, Idle, Ops
  <2>6. CASE op.pc = "skipped"
    BY <1>1, <2>1, <2>3, <2>6 DEF Opened
  <2> QED BY <2>2, <2>4, <2>5, <2>6
<1>8. op'.pc = "restart_only" => journal'.fence_token = {} /\ held' # journal'.startup_token
  <2>1. SUFFICES ASSUME op'.pc = "restart_only"
                 PROVE  journal'.fence_token = {} /\ held' # journal'.startup_token
    OBVIOUS
  <2>2. op.pc = "restart_only" \/ Boundary
    BY <1>2, <2>1 DEF Arrived, Idle
  <2>3. /\ journal'.fence_token = journal.fence_token
        /\ journal'.startup_token = journal.startup_token
    BY <1>2, <2>2
    DEF Erased, Written, FenceToken, StartupToken, Unwind, AbortLost, Ready, Coordinator,
       Boundary, At
  <2>4. held' = held
    BY <1>2, <2>2
    DEF Changed, Inhibit, Release, ForeignOpen, ForeignClose, Coordinator, Boundary, At
  <2>5. CASE Boundary
    BY <1>2, <2>1, <2>3, <2>4, <2>5 DEF Boundary, Go, GoIf, Refuse, Idle, Ops
  <2>6. CASE op.pc = "restart_only"
    BY <1>1, <2>3, <2>4, <2>6 DEF Opened
  <2> QED BY <2>2, <2>5, <2>6
<1>9. lost' = 0 /\ OurFence' =>
       /\ Unfinished' /\ ~journal'.reopened
       /\ fence' = journal'.fence_token \/ journal'.fence_opening
       /\ journal'.fence_token = {} => held' # {} /\ held' = journal'.startup_token
       /\ ~(Unwinding' /\ op'.pc \in {"restart_only", "start", "live", "reopened"})
  <2>1. SUFFICES ASSUME lost' = 0, OurFence'
                 PROVE  /\ Unfinished' /\ ~journal'.reopened
                        /\ fence' = journal'.fence_token \/ journal'.fence_opening
                        /\ journal'.fence_token = {} => held' # {} /\ held' = journal'.startup_token
                        /\ ~(Unwinding' /\ op'.pc \in {"restart_only", "start", "live", "reopened"})
    OBVIOUS
  <2>2. lost = 0 /\ ~LoseJournal
    <3>1. LoseJournal => lost' = lost + 1 /\ lost \in Nat
      BY <1>1, RolloutAssumption DEF LoseJournal, TypeOK
    <3> QED BY <1>2, <2>1, <3>1 DEF Changed
  <2>3. ~ForeignOpen /\ ~ForeignClose
    BY <1>1, <1>2, <2>1 DEF ForeignOpen, ForeignClose, OurFence, Owned
  \* A fence that is opened.
  <2>4. CASE ~OurFence
    <3>1. Open
      <4>1. ~Close
        BY <2>1, <2>4 DEF Close, OurFence, record
      <4> QED BY <1>2, <2>1, <2>3, <2>4, <4>1 DEF Changed, OurFence
    <3>2. /\ journal' = journal /\ op'.pc = "fence_token" /\ held' = held
          /\ op.pc = "open" /\ journal.fence_opening /\ held # {} /\ held = journal.startup_token
      BY <1>1, <1>2, <3>1 DEF Open, Go, At, Ops, Opened, Acquiring
    <3>3. Unfinished /\ ~journal.reopened
      <4>1. op.act \in {"fence", "thaw", "abort"}
        BY <1>1, <1>2, <3>2 DEF Course, Ops, Acts, Resume, Waiting, Staging
      <4>2. CASE op.act = "fence"
        BY <1>1, <3>2, <4>2 DEF Phased, Acquire, MidUnwind, Unfinished
      <4>3. CASE Unwinding
        BY <1>1, <3>2, <4>3 DEF Undoing, Reopening, Resuming, Before, Acquire
      <4> QED BY <4>1, <4>2, <4>3 DEF Unwinding
    <3> QED BY <3>2, <3>3 DEF Unfinished
  \* A fence in force.
  <2>5. CASE OurFence
    <3>1. /\ Unfinished /\ ~journal.reopened
          /\ fence = journal.fence_token \/ journal.fence_opening
          /\ journal.fence_token = {} => held # {} /\ held = journal.startup_token
          /\ ~(Unwinding /\ op.pc \in {"restart_only", "start", "live", "reopened"})
      BY <1>1, <2>2, <2>5 DEF Opened
    <3>2. ~Erased /\ ~AbortLost /\ ~Reopened /\ ~Final
      <4>1. ~Erased /\ ~AbortLost
        BY <2>2, <3>1 DEF Erased, Archivable, Unfinished, AbortLost
      <4>2. ASSUME op.pc \in {"reopened", "final"} PROVE FALSE
        <5>1. Unwinding /\ ~Resuming
          BY <1>1, <1>2, <4>2
          DEF Course, Ops, Acts, Resume, Acquire, Waiting, Staging, Unwinding, Resuming
        <5> QED BY <1>1, <3>1, <4>2, <5>1 DEF Undoing, Reopening, After
      <4> QED BY <4>1, <4>2 DEF Reopened, Final, At
    <3>3. fence' = fence
      <4>1. ~Close \/ fence' = fence
        BY <2>1 DEF Close, OurFence
      <4>2. ~Open \/ fence' = fence
        BY <2>5 DEF Open, OurFence
      <4> QED BY <1>2, <2>3, <4>1, <4>2 DEF Changed
    <3>4. Unfinished' /\ ~journal'.reopened
      <4>1. journal'.reopened = journal.reopened
        BY <1>2, <3>2 DEF Written
      <4>2. CASE journal'.phase = journal.phase
        BY <3>1, <4>1, <4>2 DEF Unfinished
      <4>3. CASE Intent \/ Verify \/ Adopt \/ Activated
        BY <1>2, <3>1, <4>1, <4>3
        DEF Unfinished, Intent, Verify, Adopt, Activated, Save, Bound, Fresh, NoJournal, Journals
      <4>4. CASE Recover \/ Outcome
        BY <1>2, <3>1, <4>1, <4>4, SettleWrites DEF Unfinished
      <4> QED BY <1>2, <3>1, <3>2, <4>1, <4>2, <4>3, <4>4 DEF Written
    <3>5. fence' = journal'.fence_token \/ journal'.fence_opening
      <4>1. CASE FenceToken
        BY <1>2, <3>3, <4>1 DEF FenceToken, Save, Journals
      <4>2. CASE Opening /\ journal' # journal
        BY <1>2, <4>2 DEF Opening, Save, Journals
      <4> QED BY <1>2, <3>1, <3>2, <3>3, <4>1, <4>2 DEF Written
    <3>6. journal'.fence_token = {} => held' # {} /\ held' = journal'.startup_token
      <4>1. SUFFICES ASSUME journal'.fence_token = {}
                     PROVE held' # {} /\ held' = journal'.startup_token
        OBVIOUS
      <4>2. journal.fence_token = {}
        <5>1. ~FenceToken
          BY <1>2, <2>5, <4>1 DEF FenceToken, Save, Journals, OurFence
        <5> QED BY <1>2, <3>2, <4>1, <5>1 DEF Written
      <4>3. held # {} /\ held = journal.startup_token
        BY <3>1, <4>2
      <4>4. held' = held
        <5>1. ~Release
          BY <1>1, <4>2 DEF Release, At, Windowed
        <5>2. Inhibit => held' = held
          BY <4>3 DEF Inhibit
        <5> QED BY <1>2, <2>3, <5>1, <5>2 DEF Changed
      <4>5. journal'.startup_token = journal.startup_token
        <5>1. StartupToken => journal'.startup_token = held
          BY <1>2 DEF StartupToken, Save, Journals
        <5>2. Unwind => journal' = journal
          BY <4>3 DEF Unwind
        <5> QED BY <1>2, <3>2, <4>3, <5>1, <5>2 DEF Written
      <4> QED BY <4>3, <4>4, <4>5
    <3>7. ~(Unwinding' /\ op'.pc \in {"restart_only", "start", "live", "reopened"})
      <4>1. SUFFICES ASSUME Unwinding', op'.pc \in {"restart_only", "start", "live", "reopened"}
                     PROVE FALSE
        OBVIOUS
      <4>2. op' # Idle /\ ~Invoked
        BY <4>1, Invocations DEF Idle, Unwinding
      <4>3. Unwinding /\ (op'.pc = op.pc \/ Arrived)
        BY <1>2, <4>1, <4>2 DEF Kept, Unwinding
      <4>4. CASE op'.pc = "restart_only"
        <5>1. Boundary
          BY <3>1, <4>3, <4>4 DEF Arrived
        <5> QED BY <1>2, <3>1, <4>4, <5>1 DEF Boundary, Go, GoIf, Refuse, Idle, Ops
      <4>5. CASE op'.pc = "start"
        <5>1. Release
          BY <3>1, <4>3, <4>5 DEF Arrived
        <5>2. op.boundary # "prepared" /\ fence = {}
          BY <1>2, <4>3, <4>5, <5>1 DEF Release, Go, Refuse, Idle, Ops
        <5> QED BY <2>5, <5>2 DEF OurFence
      <4>6. CASE op'.pc = "live"
        BY <3>1, <4>3, <4>6 DEF Arrived, Start, At
      <4>7. CASE op'.pc = "reopened"
        <5>1. Skipped /\ journal.fence_token = {}
          BY <1>2, <3>1, <4>3, <4>7 DEF Arrived, Live, Skipped, Go, At, Ops
        <5> QED BY <1>1, <3>1, <5>1 DEF Opened, Skipped, At
      <4> QED BY <4>1, <4>4, <4>5, <4>6, <4>7
    <3> QED BY <3>4, <3>5, <3>6, <3>7
  <2> QED BY <2>4, <2>5
<1> QED BY <1>3, <1>4, <1>5, <1>6, <1>7, <1>8, <1>9 DEF Opened

\* Every step keeps the inhibition recorded: the intent is saved before it is
\* acquired and it is released before the journal is finished.
LEMMA InhibitedNext ==
  TypeOK /\ Course /\ Phased /\ Undoing /\ Owned /\ Windowed /\ Opened /\ Inhibited /\ [Next]_vars
    => Inhibited'
<1>1. SUFFICES ASSUME TypeOK, Course, Phased, Undoing, Owned, Windowed, Opened, Inhibited, [Next]_vars,
                      lost' = 0, ~ForeignActs
               PROVE  Inhibited'
  BY DEF Inhibited
<1>2. /\ op \in Ops /\ journal \in Journals
      /\ Changed /\ (Erased \/ Written)
      /\ op' = Idle \/ (Kept /\ (op'.pc = op.pc \/ Arrived))
  BY <1>1, Changes, Writings, Arrivals DEF TypeOK, Ops, Phased
<1>3. lost = 0 /\ ~LoseJournal
  <2>1. LoseJournal => lost' = lost + 1 /\ lost \in Nat
    BY <1>1, RolloutAssumption DEF LoseJournal, TypeOK
  <2> QED BY <1>1, <1>2, <2>1 DEF Changed
<1>4. /\ fence \subseteq ours
      /\ held # {} => Unfinished /\ journal.inhibiting /\ ~journal.reopened
      /\ Unfinished /\ ~journal.reopened /\ journal.fence_token = {} /\ journal.startup_token # {} =>
           held = journal.startup_token
      /\ op.pc = "boundary" /\ journal.startup_token = {} => held = {} \/ journal.fence_token # {}
      /\ op.pc = "skipped" /\ journal.fence_token = {} => held = {}
      /\ Unwinding /\ op.pc \in {"restart_only", "start", "live", "reopened"} => held = {}
  BY <1>1, <1>3 DEF Inhibited
<1>5. ~ForeignOpen /\ ~ForeignClose
  BY <1>1, <1>4 DEF ForeignOpen, ForeignClose, OurFence
<1>6. fence' \subseteq ours'
  <2>1. CASE Open \/ Close
    BY <1>4, <2>1 DEF Open, Close, record
  <2>2. CASE fence' = fence /\ ours' = ours
    BY <1>4, <2>2
  <2> QED BY <1>2, <1>5, <2>1, <2>2 DEF Changed
\* Where an inhibition is acquired the rollout is under way.
<1>7. op.pc \in {"inhibit", "boundary"} => Unfinished /\ ~journal.reopened
  <2>1. SUFFICES ASSUME op.pc \in {"inhibit", "boundary"} PROVE Unfinished /\ ~journal.reopened
    OBVIOUS
  <2>2. op.act \in {"fence", "thaw", "abort"} /\ (op.act = "fence" => op.pc = "inhibit")
    BY <1>1, <1>2, <2>1 DEF Course, Ops, Acts, Resume, Waiting, Staging, Acquire
  <2>3. CASE op.act = "fence"
    BY <1>1, <2>1, <2>2, <2>3 DEF Phased, Acquire, MidUnwind, Unfinished
  <2>4. CASE Unwinding
    BY <1>1, <2>1, <2>4 DEF Undoing, Reopening, Resuming, Before, Acquire
  <2> QED BY <2>2, <2>3, <2>4 DEF Unwinding
<1>8. held' # {} => Unfinished' /\ journal'.inhibiting /\ ~journal'.reopened
  <2>1. SUFFICES ASSUME held' # {} PROVE Unfinished' /\ journal'.inhibiting /\ ~journal'.reopened
    OBVIOUS
  <2>2. CASE Inhibit
    BY <1>1, <1>7, <2>2 DEF Inhibit, At, Opened, Unfinished
  <2>3. CASE AbortLost
    <3>1. held' = held /\ journal.phase = "none"
      BY <2>3 DEF AbortLost, authority
    <3> QED BY <1>4, <2>1, <3>1 DEF Unfinished
  <2>4. CASE ~Inhibit /\ ~AbortLost
    <3>1. held # {}
      BY <1>2, <1>5, <2>1, <2>4 DEF Changed, Release
    <3>2. ~Erased
      BY <1>3, <1>4, <3>1 DEF Erased, Archivable, Unfinished
    <3>3. ~Reopened /\ ~Final
      <4>1. ASSUME op.pc \in {"reopened", "final"} PROVE FALSE
        <5>1. Unwinding /\ ~Resuming
          BY <1>1, <1>2, <4>1
          DEF Course, Ops, Acts, Resume, Acquire, Waiting, Staging, Unwinding, Resuming
        <5> QED BY <1>1, <1>4, <3>1, <4>1, <5>1 DEF Undoing, Reopening, After
      <4> QED BY <4>1 DEF Reopened, Final, At
    <3>4. journal'.reopened = journal.reopened
      BY <1>2, <3>2, <3>3 DEF Written
    <3>5. Intent => journal'.inhibiting
      BY <1>2 DEF Intent, Save, Bound, Fresh, NoJournal, Journals
    <3>6. Unfinished'
      <4>2. CASE journal'.phase = journal.phase
        BY <1>4, <3>1, <4>2 DEF Unfinished
      <4>3. CASE Intent \/ Verify \/ Adopt \/ Activated
        BY <1>2, <1>4, <3>1, <4>3
        DEF Unfinished, Intent, Verify, Adopt, Activated, Save, Bound, Fresh, NoJournal, Journals
      <4>4. CASE Recover \/ Outcome
        BY <1>2, <1>4, <3>1, <4>4, SettleWrites DEF Unfinished
      <4> QED BY <1>2, <2>4, <3>2, <3>3, <4>2, <4>3, <4>4 DEF Written
    <3> QED BY <1>2, <1>4, <2>4, <3>1, <3>2, <3>4, <3>5, <3>6 DEF Written
  <2> QED BY <2>2, <2>3, <2>4
<1>9. Unfinished' /\ ~journal'.reopened /\ journal'.fence_token = {} /\ journal'.startup_token # {} =>
        held' = journal'.startup_token
  <2>1. SUFFICES ASSUME Unfinished', ~journal'.reopened, journal'.fence_token = {},
                        journal'.startup_token # {}
                 PROVE  held' = journal'.startup_token
    OBVIOUS
  <2>2. ~Erased
    BY <2>1 DEF Erased, Unfinished, NoJournal
  <2>3. CASE AbortLost
    <3>1. CASE fence # {}
      BY <2>1, <2>3, <3>1 DEF AbortLost, Save, Fresh, NoJournal
    <3>2. CASE fence = {}
      BY <2>3, <3>2 DEF AbortLost, Save, Fresh, NoJournal, authority
    <3> QED BY <3>1, <3>2
  <2>4. CASE StartupToken
    BY <1>2, <2>4 DEF StartupToken, Save, Journals, authority
  <2>5. CASE Unwind /\ journal' # journal
    BY <1>2, <2>5 DEF Unwind, Save, Journals, authority
  <2>6. CASE Intent
    BY <1>1, <1>2, <1>4, <2>1, <2>6
    DEF Intent, Save, Bound, Fresh, NoJournal, Journals, authority, Unfinished,
       Phased, Blank, Undoing, Finished
  <2>7. CASE ~AbortLost /\ ~StartupToken /\ ~(Unwind /\ journal' # journal) /\ ~Intent
    <3>1. journal'.startup_token = journal.startup_token /\ ~journal.reopened
      <4>1. Reopened => journal'.reopened
        BY <1>2 DEF Reopened, Save, Journals
      <4> QED BY <1>2, <2>1, <2>2, <2>7, <4>1 DEF Written
    <3>2. journal.fence_token = {}
      <4>1. CASE FenceToken
        BY <1>1, <1>2, <2>1, <4>1 DEF FenceToken, Save, Journals, At, Owned
      <4> QED BY <1>2, <2>1, <2>2, <2>7, <4>1 DEF Written
    <3>3. Unfinished
      <4>1. CASE journal'.phase = journal.phase
        BY <2>1, <4>1 DEF Unfinished
      <4>2. CASE Verify \/ Adopt \/ Activated
        BY <1>2, <2>1, <4>2 DEF Unfinished, Verify, Adopt, Activated, Save, Journals
      <4>3. CASE Recover \/ Outcome
        BY <1>1, <1>2, <4>3, RecoverWrites, OutcomeWrites
        DEF Phased, Unfinished, Waiting, Recover, At
      <4>4. CASE Final
        BY <1>2, <2>1, <4>4 DEF Final, Save, Journals, Unfinished
      <4> QED BY <1>2, <2>2, <2>7, <4>1, <4>2, <4>3, <4>4 DEF Written
    <3>4. held = journal.startup_token
      BY <1>4, <2>1, <3>1, <3>2, <3>3
    <3>5. held' = held
      <4>1. ~Release
        BY <1>1, <3>2 DEF Release, At, Windowed
      <4>2. Inhibit => held' = held
        BY <2>1, <3>1, <3>4 DEF Inhibit
      <4> QED BY <1>2, <1>5, <4>1, <4>2 DEF Changed
    <3> QED BY <3>1, <3>4, <3>5
  <2> QED BY <2>3, <2>4, <2>5, <2>6, <2>7
<1>10. op'.pc = "boundary" /\ journal'.startup_token = {} => held' = {} \/ journal'.fence_token # {}
  <2>1. SUFFICES ASSUME op'.pc = "boundary", journal'.startup_token = {}
                 PROVE  held' = {} \/ journal'.fence_token # {}
    OBVIOUS
  <2>2. CASE Unwind
    <3>1. held' = held /\ ~journal.reopened
      BY <1>2, <2>1, <2>2, UnwindWrites DEF Unwind, authority
    <3>2. CASE journal.inhibiting /\ journal.startup_token = {}
      BY <1>2, <2>1, <2>2, <3>1, <3>2 DEF Unwind, Save, Journals
    <3>3. CASE ~(journal.inhibiting /\ journal.startup_token = {})
      BY <1>4, <2>1, <2>2, <3>1, <3>3 DEF Unwind
    <3> QED BY <3>2, <3>3
  <2>3. CASE op.pc = "boundary"
    <3>1. held' = held
      BY <1>2, <2>3 DEF Changed, Inhibit, Release, ForeignOpen, ForeignClose, Coordinator, At
    <3>2. journal'.startup_token = journal.startup_token /\ journal'.fence_token = journal.fence_token
      BY <1>2, <2>3
      DEF Erased, Written, StartupToken, Unwind, FenceToken, AbortLost, Ready, Coordinator, At
    <3> QED BY <1>4, <2>1, <2>3, <3>1, <3>2
  <2> QED BY <1>2, <2>1, <2>2, <2>3 DEF Arrived, Idle
<1>11. op'.pc = "skipped" /\ journal'.fence_token = {} => held' = {}
  <2>1. SUFFICES ASSUME op'.pc = "skipped", journal'.fence_token = {} PROVE held' = {}
    OBVIOUS
  <2>2. op.pc = "skipped" \/ Boundary \/ Release
    BY <1>2, <2>1 DEF Arrived, Idle
  <2>3. journal'.fence_token = journal.fence_token
    BY <1>2, <2>2
    DEF Erased, Written, FenceToken, AbortLost, Ready, Coordinator, Boundary, Release, At
  <2>4. ~Release
    BY <1>1, <2>1, <2>3 DEF Windowed, Release, At
  <2>5. held' = held
    BY <1>2, <2>2, <2>4
    DEF Changed, Inhibit, Release, ForeignOpen, ForeignClose, Coordinator, Boundary, At
  <2>6. CASE Boundary
    <3>1. journal.startup_token = {} /\ op.pc = "boundary"
      BY <1>2, <2>1, <2>3, <2>6 DEF Boundary, Go, GoIf, Refuse, Idle, Ops, At
    <3> QED BY <1>4, <2>1, <2>3, <2>5, <3>1
  <2>7. CASE op.pc = "skipped"
    BY <1>4, <2>1, <2>3, <2>5, <2>7
  <2> QED BY <2>2, <2>4, <2>6, <2>7
<1>12. Unwinding' /\ op'.pc \in {"restart_only", "start", "live", "reopened"} => held' = {}
  <2>1. SUFFICES ASSUME Unwinding', op'.pc \in {"restart_only", "start", "live", "reopened"}
                 PROVE held' = {}
    OBVIOUS
  <2>2. op' # Idle /\ ~Invoked
    BY <2>1, Invocations DEF Idle, Unwinding
  <2>3. Unwinding /\ (op'.pc = op.pc \/ Arrived)
    BY <1>2, <2>1, <2>2 DEF Kept, Unwinding
  <2>4. CASE Boundary /\ op'.pc = "restart_only"
    BY <1>2, <1>4, <1>7, <2>4 DEF Boundary, Go, GoIf, Refuse, Idle, Ops, At
  <2>5. CASE Release /\ op'.pc = "start"
    BY <2>5 DEF Release, Refuse, Idle
  <2>6. CASE Skipped /\ op'.pc = "reopened"
    <3>1. journal.fence_token = {} /\ op.pc = "skipped" /\ held' = held
      BY <1>2, <2>6 DEF Skipped, Go, At, Ops, authority
    <3> QED BY <1>4, <3>1
  <2>7. CASE op.pc \in {"restart_only", "start", "live", "reopened"}
    <3>1. held' = held
      BY <1>2, <2>7 DEF Changed, Inhibit, Release, ForeignOpen, ForeignClose, Coordinator, At
    <3> QED BY <1>4, <2>3, <2>7, <3>1
  <2> QED BY <2>1, <2>3, <2>4, <2>5, <2>6, <2>7 DEF Arrived, Start, Live, At
<1> QED BY <1>6, <1>8, <1>9, <1>10, <1>11, <1>12 DEF Inhibited

\* A unit leaves one list.
Leaves(u) ==
  /\ journal'.pending_clients = IF op.list = "clients" THEN journal.pending_clients \ {u}
                                ELSE journal.pending_clients
  /\ journal'.stopped_publishers = IF op.list = "publishers" THEN journal.stopped_publishers \ {u}
                                   ELSE journal.stopped_publishers
  /\ journal'.pending_receivers = IF op.list \in {"clients", "publishers"} THEN journal.pending_receivers
                                  ELSE journal.pending_receivers \ {u}

\* Striking a unit off takes it from the list being worked through, and from no other.
LEMMA UnitLeaves ==
  ASSUME journal \in Journals, NEW u,
         \/ journal' = Left(u)
         \/ journal' = [Left(u) EXCEPT !.unloaded = @ \cup {u}]
  PROVE  /\ Leaves(u) /\ journal.unloaded \subseteq journal'.unloaded
         /\ journal' = Left(u) \/ u \in journal'.unloaded
<1>1. CASE op.list = "clients"
  <2>1. Left(u) = [journal EXCEPT !.pending_clients = @ \ {u}]
    BY <1>1 DEF Left
  <2>2. Left(u) \in Journals /\ Left(u).unloaded = journal.unloaded
        /\ Left(u).pending_clients = journal.pending_clients \ {u}
        /\ Left(u).stopped_publishers = journal.stopped_publishers
        /\ Left(u).pending_receivers = journal.pending_receivers
    BY <2>1 DEF Journals
  <2> QED BY <1>1, <2>2 DEF Journals, Leaves
<1>2. CASE op.list = "publishers"
  <2>1. Left(u) = [journal EXCEPT !.stopped_publishers = @ \ {u}]
    BY <1>2 DEF Left
  <2>2. Left(u) \in Journals /\ Left(u).unloaded = journal.unloaded
        /\ Left(u).pending_clients = journal.pending_clients
        /\ Left(u).stopped_publishers = journal.stopped_publishers \ {u}
        /\ Left(u).pending_receivers = journal.pending_receivers
    BY <2>1 DEF Journals
  <2> QED BY <1>2, <2>2 DEF Journals, Leaves
<1>3. CASE op.list # "clients" /\ op.list # "publishers"
  <2>1. Left(u) = [journal EXCEPT !.pending_receivers = @ \ {u}]
    BY <1>3 DEF Left
  <2>2. Left(u) \in Journals /\ Left(u).unloaded = journal.unloaded
        /\ Left(u).pending_clients = journal.pending_clients
        /\ Left(u).stopped_publishers = journal.stopped_publishers
        /\ Left(u).pending_receivers = journal.pending_receivers \ {u}
    BY <2>1 DEF Journals
  <2> QED BY <1>3, <2>2 DEF Journals, Leaves
<1> QED BY <1>1, <1>2, <1>3

\* Returning a unit only shortens the lists.
LEMMA JournalShrinks ==
  ASSUME journal \in Journals, Return \/ Started
  PROVE  /\ journal'.pending_clients \subseteq journal.pending_clients
         /\ journal'.stopped_publishers \subseteq journal.stopped_publishers
         /\ journal'.pending_receivers \subseteq journal.pending_receivers
<1>1. journal' = journal \/ \E u : Leaves(u)
  <2>1. CASE Return
    BY <2>1, UnitLeaves DEF Return, Save
  <2>2. CASE Started
    BY <2>2, UnitLeaves DEF Started, Save
  <2> QED BY <2>1, <2>2
<1> QED BY <1>1 DEF Leaves

-----------------------------------------------------------------------------
(* The units.                                                               *)

\* Every unit is recorded before it is stopped.
LEMMA RecordedNext == TypeOK /\ Course /\ Phased /\ Recorded /\ [Next]_vars => Recorded'
<1>1. SUFFICES ASSUME TypeOK, Course, Phased, Recorded, [Next]_vars PROVE Recorded'
  OBVIOUS
<1>2. /\ op \in Ops /\ journal \in Journals
      /\ Changed /\ (Erased \/ Written)
      /\ op' = Idle \/ (Kept /\ (op'.pc = op.pc \/ Arrived))
  BY <1>1, Changes, Writings, Arrivals DEF TypeOK, Ops, Phased
<1>3. installed' => running' \cap Removed = {}
  <2>1. CASE \E candidate \in BOOLEAN : Activate(candidate)
    BY <1>1, <2>1 DEF Activate, Recorded
  <2>2. CASE Reboot
    BY <2>2 DEF Reboot
  <2>3. CASE Return
    BY <1>1, <2>3 DEF Return, Loaded, Recorded, generation
  <2>4. CASE PublisherStop \/ ClientStop \/ ReceiverStop
    <3>1. running' \subseteq running /\ installed' = installed
      BY <2>4 DEF PublisherStop, ClientStop, ReceiverStop, StopUnit, generation
    <3> QED BY <1>1, <3>1 DEF Recorded
  <2>5. CASE PrimaryStop
    BY <1>1, <2>5 DEF PrimaryStop, Recorded, generation
  <2>6. CASE running' = running /\ installed' = installed
    BY <1>1, <2>6 DEF Recorded
  <2> QED BY <1>2, <2>1, <2>2, <2>3, <2>4, <2>5, <2>6 DEF Changed
<1>4. ~journal'.reopened => journal'.pending_clients = {}
  <2>1. SUFFICES ASSUME ~journal'.reopened PROVE journal'.pending_clients = {}
    OBVIOUS
  <2>2. CASE Erased
    BY <2>2 DEF Erased, NoJournal
  <2>3. CASE Written
    <3>1. ~Reopened
      BY <1>2, <2>1 DEF Reopened, Save, Journals
    <3>2. journal.pending_clients = {}
      BY <1>1, <2>1, <2>3, <3>1 DEF Written, Recorded
    <3>3. Return \/ Started => journal'.pending_clients \subseteq journal.pending_clients
      BY JournalShrinks, <1>2
    <3> QED BY <2>3, <3>1, <3>2, <3>3 DEF Written
  <2> QED BY <1>2, <2>2, <2>3
<1>5. op'.pc = "publisher_stop" => op'.unit \subseteq journal'.stopped_publishers
  <2>1. SUFFICES ASSUME op'.pc = "publisher_stop"
                 PROVE op'.unit \subseteq journal'.stopped_publishers
    OBVIOUS
  <2>2. CASE Publisher
    <3>1. PICK u \in Units : /\ journal' = [journal EXCEPT !.stopped_publishers = @ \cup {u}]
                             /\ op' = [op EXCEPT !.pc = "publisher_stop", !.unit = {u}]
      BY <1>2, <2>1, <2>2 DEF Publisher, Save, Go, Ops, Units
    <3> QED BY <1>2, <3>1 DEF Ops, Journals
  <2>3. CASE op.pc = "publisher_stop"
    <3>1. op'.unit = op.unit
      <4>1. ~Publisher /\ ~Receiver /\ ~ReceiverStop /\ ~Return /\ ~Started /\ ~Invoked
        BY <2>3, Invocations DEF Publisher, Receiver, ReceiverStop, Return, Started, At
      <4>2. ~PublisherStop
        BY <1>2, <2>1 DEF PublisherStop, Ops
      <4> QED BY <1>2, <2>1, <4>1, <4>2 DEF Kept, Idle
    <3>2. journal'.stopped_publishers = journal.stopped_publishers
      BY <1>2, <2>3
      DEF Erased, Written, Publisher, Lift, Return, Started, AbortLost, Ready, Coordinator, At
    <3> QED BY <1>1, <2>3, <3>1, <3>2 DEF Recorded
  <2> QED BY <1>2, <2>1, <2>2, <2>3 DEF Arrived, Idle
<1>6. op'.pc = "client_stop" => op'.todo \subseteq journal'.clients
  <2>1. SUFFICES ASSUME op'.pc = "client_stop" PROVE op'.todo \subseteq journal'.clients
    OBVIOUS
  <2>2. CASE RecordClients
    BY <1>2, <2>2 DEF RecordClients, Save, Ops, Journals
  <2>3. CASE op.pc = "client_stop"
    <3>1. op'.todo \subseteq op.todo
      <4>1. CASE ClientStop
        BY <1>2, <4>1 DEF ClientStop, Go, Ops
      <4>2. CASE ~ClientStop
        BY <1>2, <2>1, <2>3, <4>2, Invocations
        DEF Kept, RecordClients, Unwind, Reopened, Return, Returned, Lifted, Outcome, At, Idle
      <4> QED BY <4>1, <4>2
    <3>2. journal'.clients = journal.clients
      BY <1>2, <2>3 DEF Erased, Written, RecordClients, Dependent, Skipped, At
    <3> QED BY <1>1, <2>3, <3>1, <3>2 DEF Recorded
  <2> QED BY <1>2, <2>1, <2>2, <2>3 DEF Arrived, Idle
<1>7. op'.pc = "primary_stop" =>
        \A u \in (Dependents \cap running') \ Retired : u \in journal'.clients \cup journal'.pending_receivers
  <2>1. SUFFICES ASSUME op'.pc = "primary_stop", NEW u \in (Dependents \cap running') \ Retired
                 PROVE  u \in journal'.clients \cup journal'.pending_receivers
    OBVIOUS
  <2>2. CASE Dependent
    <3>1. running' = running /\ Loaded(u)
      BY <1>1, <2>1, <2>2 DEF Dependent, units, Loaded, Recorded
    <3>2. /\ journal'.clients = journal.clients \cup
              ({v \in Dependents \cap running : v \notin Retired /\ Loaded(v)} \ Receivers)
          /\ journal'.pending_receivers = journal.pending_receivers \cup
              ({v \in Dependents \cap running : v \notin Retired /\ Loaded(v)} \cap Receivers)
      BY <1>2, <2>2 DEF Dependent, Save, Journals
    <3> QED BY <2>1, <3>1, <3>2
  <2>3. CASE op.pc = "primary_stop"
    <3>1. running' = running
      BY <1>2, <2>1, <2>3
      DEF Changed, PublisherStop, ClientStop, ReceiverStop, PrimaryStop, Return, Activate,
         Reboot, Coordinator, At, Go, Idle, Ops
    <3>2. journal'.clients = journal.clients /\ journal'.pending_receivers = journal.pending_receivers
      BY <1>2, <2>3
      DEF Erased, Written, RecordClients, Dependent, Skipped, Receiver, Return, Started, AbortLost,
         Ready, Coordinator, At
    <3> QED BY <1>1, <2>1, <2>3, <3>1, <3>2 DEF Recorded
  <2> QED BY <1>2, <2>1, <2>2, <2>3 DEF Arrived, Idle
<1>8. op'.pc = "receiver_stop" => op'.unit \subseteq journal'.pending_receivers
  <2>1. SUFFICES ASSUME op'.pc = "receiver_stop" PROVE op'.unit \subseteq journal'.pending_receivers
    OBVIOUS
  <2>2. CASE Receiver
    <3>1. PICK u \in Units : /\ journal' = [journal EXCEPT !.pending_receivers = @ \cup {u}]
                             /\ op' = [op EXCEPT !.pc = "receiver_stop", !.unit = {u}]
      BY <1>2, <2>1, <2>2 DEF Receiver, Save, Go, Ops, Units
    <3> QED BY <1>2, <3>1 DEF Ops, Journals
  <2>3. CASE op.pc = "receiver_stop"
    <3>1. op'.unit = op.unit
      <4>1. ~Publisher /\ ~Receiver /\ ~PublisherStop /\ ~Return /\ ~Started /\ ~Invoked
        BY <2>3, Invocations DEF Publisher, Receiver, PublisherStop, Return, Started, At
      <4>2. ~ReceiverStop
        BY <1>2, <2>1 DEF ReceiverStop, Ops
      <4> QED BY <1>2, <2>1, <4>1, <4>2 DEF Kept, Idle
    <3>2. journal'.pending_receivers = journal.pending_receivers
      BY <1>2, <2>3
      DEF Erased, Written, Dependent, Receiver, Return, Started, AbortLost, Ready, Coordinator, At
    <3> QED BY <1>1, <2>3, <3>1, <3>2 DEF Recorded
  <2> QED BY <1>2, <2>1, <2>2, <2>3 DEF Arrived, Idle
<1> QED BY <1>3, <1>4, <1>5, <1>6, <1>7, <1>8 DEF Recorded

\* A unit in hand is stopped or journaled before anything else is done.
LEMMA InHand ==
  ASSUME TypeOK, [Next]_vars, op' # Idle, op.pc \in {"publisher_stop", "receiver_stop", "started"}
  PROVE  \/ PublisherStop \/ ReceiverStop \/ Started
         \/ op'.pc = op.pc /\ op'.unit = op.unit
<1>1. op \in Ops /\ Coordinator
  BY DEF TypeOK, Ops, Coordinator
<1>2. CASE Worker
  BY <1>1, <1>2, WorkerWrites
<1>3. CASE op' = op
  BY <1>3
<1>4. CASE Step
  BY <1>4
  DEF Step, Fence, Reopen, Prepare, FenceCheck, Intent, Inhibit, StartupToken, PausePublishers,
      Publisher,
     RecordClients, ClientStop, Dependent, PrimaryStop, Opening, Open, FenceToken, Release, Start,
     Verify,
     Unwind, Boundary, Skipped, Close, Live, Reopened, Return, Returned, Lift, Lifted, RetireSlot,
     Final,
     PrepareCheck, ImportCheck, SetAside, Receipt, Stage, Recover, Receiver, Launch, Outcome, Adopt,
     ThawCheck, At
<1> QED BY <1>1, <1>2, <1>3, <1>4, Beside DEF Kill, Reboot, Write, Age, Timer, vars

\* Every step keeps what is left of a list to be tried or tried in vain, and
\* no rollout is finished before its lists are empty.
LEMMA ReturningNext ==
  TypeOK /\ Course /\ Phased /\ Undoing /\ Recorded /\ Returning /\ [Next]_vars => Returning'
<1>1. SUFFICES ASSUME TypeOK, Course, Phased, Undoing, Recorded, Returning, [Next]_vars
               PROVE Returning'
  OBVIOUS
<1>2. /\ op \in Ops /\ journal \in Journals
      /\ Changed /\ (Erased \/ Written)
      /\ op' = Idle \/ (Kept /\ (op'.pc = op.pc \/ Arrived))
  BY <1>1, Changes, Writings, Arrivals DEF TypeOK, Ops, Phased
<1>3. op'.pc \notin {"publisher_stop", "receiver_stop", "started"} => op'.unit = {}
  <2>1. SUFFICES ASSUME op'.pc \notin {"publisher_stop", "receiver_stop", "started"}
                 PROVE op'.unit = {}
    OBVIOUS
  <2>2. CASE op' = Idle
    BY <2>2 DEF Idle
  <2>3. CASE Begun
    BY <2>3, BeginWrites DEF Begun
  <2>4. CASE Abort \/ AbortLost
    BY <2>4 DEF Abort, AbortLost, Idle
  <2>5. CASE PublisherStop \/ ReceiverStop
    BY <1>2, <2>5 DEF PublisherStop, ReceiverStop, Ops
  <2>6. CASE Started
    BY <1>2, <2>6, StartedWrites
  <2>7. CASE op' # Idle /\ ~Invoked /\ ~PublisherStop /\ ~ReceiverStop /\ ~Started
    <3>1. op'.unit = op.unit
      BY <1>2, <2>1, <2>7, PublisherWrites, ReceiverWrites, ReturnWrites DEF Kept
    <3>2. op.pc \notin {"publisher_stop", "receiver_stop", "started"}
      BY <1>1, <2>1, <2>7, InHand
    <3> QED BY <1>1, <3>1, <3>2 DEF Returning
  <2> QED BY <2>2, <2>3, <2>4, <2>5, <2>6, <2>7 DEF Invoked
\* Outside of the steps that write a list, it stays.
<1>4. ASSUME op.pc \in {"return", "started", "lift", "lifted", "retire", "final", "unwind"}, ~Return, ~Started
      PROVE  /\ journal'.pending_clients = journal.pending_clients
             /\ journal'.pending_receivers = journal.pending_receivers
             /\ op.pc # "lift" => journal'.stopped_publishers = journal.stopped_publishers
  BY <1>2, <1>4
  DEF Erased, Written, Publisher, Dependent, Receiver, Reopened, Lift, AbortLost, Ready,
      Coordinator, At
<1>5. Reopening' /\ op'.pc \in {"return", "started"} /\ ~op'.failed =>
       /\ op'.list = "clients" => journal'.pending_clients \subseteq op'.todo \cup op'.unit
       /\ op'.list # "clients" => journal'.pending_clients = {}
       /\ op'.list = "receivers" => journal'.pending_receivers \subseteq op'.todo \cup op'.unit
       /\ op'.list = "publishers" => /\ journal'.pending_receivers = {}
                                     /\ journal'.stopped_publishers \subseteq op'.todo \cup op'.unit
  <2>1. SUFFICES ASSUME Reopening', op'.pc \in {"return", "started"}, ~op'.failed
                 PROVE  /\ op'.list = "clients" => journal'.pending_clients \subseteq op'.todo \cup op'.unit
                        /\ op'.list # "clients" => journal'.pending_clients = {}
                        /\ op'.list = "receivers" => journal'.pending_receivers \subseteq op'.todo \cup op'.unit
                        /\ op'.list = "publishers" =>
                             /\ journal'.pending_receivers = {}
                             /\ journal'.stopped_publishers \subseteq op'.todo \cup op'.unit
    OBVIOUS
  <2>2. op' # Idle /\ Unwinding' /\ op'.list # "resume"
    BY <2>1 DEF Idle, Reopening, Resuming
  <2>3. ~Invoked
    BY <2>1, <2>2, BeginWrites DEF Invoked, Begun, Abort, AbortLost, Idle
  <2>4. Unwinding /\ (op'.pc = op.pc \/ Arrived)
    BY <1>2, <2>2, <2>3 DEF Kept, Unwinding
  <2>5. ~op.failed
    <3>1. Return => (op.failed => op'.failed)
      BY <1>2 DEF Return, Ops
    <3> QED BY <1>2, <2>1, <2>2, <2>3, <3>1 DEF Kept
  <2>6. ASSUME op.pc \in {"return", "started"}, op.list # "resume"
        PROVE  /\ op.list = "clients" => journal.pending_clients \subseteq op.todo \cup op.unit
               /\ op.list # "clients" => journal.pending_clients = {}
               /\ op.list = "receivers" => journal.pending_receivers \subseteq op.todo \cup op.unit
               /\ op.list = "publishers" => /\ journal.pending_receivers = {}
                                            /\ journal.stopped_publishers \subseteq op.todo \cup op.unit
    BY <1>1, <2>4, <2>5, <2>6 DEF Returning, Reopening, Resuming
  <2>7. CASE Unwind
    BY <1>2, <1>4, <2>1, <2>7, UnwindWrites DEF Unwind, At, Return, Started
  <2>8. CASE Reopened
    BY <1>2, <2>8, ReopenedWrites DEF Reopened, Save, Journals
  <2>9. CASE Lifted
    BY <1>1, <1>2, <2>5, <2>9, LiftedWrites DEF Lifted, Returning, At
  <2>10. ~Outcome
    BY <1>1, <1>2, <2>4, OutcomeWrites DEF Course, Unwinding, Before, After, Acquire
  <2>11. CASE Started
    <3>1. PICK u \in op.unit : Leaves(u)
      BY <1>2, <2>11, UnitLeaves DEF Started, Save
    <3>2. op.unit = {u}
      BY <1>2, <3>1 DEF Ops, Option
    <3>3. op'.list = op.list /\ op'.todo = op.todo /\ op.pc = "started"
      BY <1>2, <2>11, StartedWrites
    <3> QED BY <2>2, <2>6, <3>1, <3>2, <3>3 DEF Leaves
  <2>12. CASE Return
    <3>1. op'.list = op.list /\ op.pc = "return" /\ op.unit = {}
      BY <1>1, <1>2, <2>12, ReturnWrites DEF Returning
    <3>2. PICK u \in op.todo : \/ Leaves(u) /\ op'.todo = op.todo \ {u}
                               \/ journal' = journal /\ op'.todo = op.todo \ {u} /\ op'.unit = {u}
      <4>1. PICK u \in op.todo :
              \/ /\ Save([Left(u) EXCEPT !.unloaded = @ \cup {u}])
                 /\ op' = [op EXCEPT !.todo = @ \ {u}]
              \/ /\ op' = [op EXCEPT !.pc = "started", !.unit = {u}, !.todo = @ \ {u}]
                 /\ journal' = journal
              \/ op' = [op EXCEPT !.failed = TRUE, !.todo = @ \ {u}]
        BY <2>12 DEF Return
      <4>2. CASE /\ Save([Left(u) EXCEPT !.unloaded = @ \cup {u}])
                 /\ op' = [op EXCEPT !.todo = @ \ {u}]
        BY <1>2, <4>2, UnitLeaves DEF Save, Ops
      <4>3. CASE /\ op' = [op EXCEPT !.pc = "started", !.unit = {u}, !.todo = @ \ {u}]
                 /\ journal' = journal
        BY <1>2, <4>3 DEF Ops
      <4>4. CASE op' = [op EXCEPT !.failed = TRUE, !.todo = @ \ {u}]
        BY <1>2, <2>1, <4>4 DEF Ops
      <4> QED BY <4>1, <4>2, <4>3, <4>4
    <3> QED BY <2>2, <2>6, <3>1, <3>2 DEF Leaves
  <2>13. CASE Returned
    <3>1. /\ op.pc = "return" /\ op.todo = {} /\ op.list = "clients"
          /\ op'.list = "receivers" /\ op'.todo = journal.pending_receivers
      BY <1>2, <2>1, <2>2, <2>13, ReturnedWrites
    <3>2. op.unit = {} /\ journal' = journal
      BY <1>1, <2>13, <3>1 DEF Returning, Returned
    <3> QED BY <2>6, <3>1, <3>2
  <2>14. CASE ~Unwind /\ ~Reopened /\ ~Lifted /\ ~Started /\ ~Return /\ ~Returned
    <3>1. op.pc = op'.pc
      BY <2>1, <2>3, <2>4, <2>10, <2>14 DEF Arrived, Invoked
    <3>2. op'.list = op.list /\ op'.todo = op.todo /\ op'.unit = op.unit
      BY <1>2, <2>1, <2>2, <2>3, <2>10, <2>14, <3>1
      DEF Kept, Publisher, PublisherStop, Receiver, ReceiverStop,
         RecordClients, ClientStop, At
    <3>3. /\ journal'.pending_clients = journal.pending_clients
          /\ journal'.pending_receivers = journal.pending_receivers
          /\ journal'.stopped_publishers = journal.stopped_publishers
      BY <1>4, <2>1, <2>14, <3>1
    <3> QED BY <2>1, <2>2, <2>6, <3>1, <3>2, <3>3
  <2> QED BY <2>7, <2>8, <2>9, <2>11, <2>12, <2>13, <2>14
<1>6. op'.pc \in {"lift", "lifted"} /\ ~op'.failed =>
        journal'.pending_clients = {} /\ journal'.pending_receivers = {}
  <2>1. SUFFICES ASSUME op'.pc \in {"lift", "lifted"}, ~op'.failed
                 PROVE  journal'.pending_clients = {} /\ journal'.pending_receivers = {}
    OBVIOUS
  <2>2. op' # Idle /\ ~Invoked
    BY <2>1, Invocations DEF Idle
  <2>3. op.pc \in {"lift", "lifted"} \/ (Returned /\ op'.pc = "lift")
    BY <1>2, <2>1, <2>2 DEF Arrived, Lift, At
  <2>4. ~op.failed
    <3>1. ~Return
      BY <1>2, <2>1, <2>3, ReturnWrites DEF Return, At
    <3> QED BY <1>2, <2>1, <2>2, <3>1 DEF Kept
  <2>5. CASE op.pc \in {"lift", "lifted"}
    <3>1. /\ journal'.pending_clients = journal.pending_clients
          /\ journal'.pending_receivers = journal.pending_receivers
      BY <1>4, <2>5 DEF Return, Started, At
    <3> QED BY <1>1, <2>4, <2>5, <3>1 DEF Returning
  <2>6. CASE Returned /\ op'.pc = "lift"
    <3>1. op.pc = "return" /\ op.todo = {} /\ op.list = "receivers" /\ Unwinding /\ journal' = journal
      BY <1>2, <2>2, <2>6, ReturnedWrites DEF Returned
    <3>2. Reopening /\ op.unit = {}
      BY <1>1, <3>1 DEF Reopening, Resuming, Returning
    <3> QED BY <1>1, <2>4, <3>1, <3>2 DEF Returning
  <2> QED BY <2>3, <2>5, <2>6
<1>7. op'.pc \in {"retire", "final"} => Emptied'
  <2>1. SUFFICES ASSUME op'.pc \in {"retire", "final"} PROVE Emptied'
    OBVIOUS
  <2>2. op' # Idle /\ ~Invoked
    BY <2>1, Invocations DEF Idle
  <2>3. op.pc \in {"retire", "final"} \/ (Returned /\ op'.pc = "retire")
    BY <1>2, <2>1, <2>2 DEF Arrived, RetireSlot, At
  <2>4. CASE op.pc \in {"retire", "final"}
    <3>1. /\ journal'.pending_clients = journal.pending_clients
          /\ journal'.pending_receivers = journal.pending_receivers
          /\ journal'.stopped_publishers = journal.stopped_publishers
      BY <1>4, <2>4 DEF Return, Started, At
    <3> QED BY <1>1, <2>4, <3>1 DEF Returning, Emptied
  <2>5. CASE Returned /\ op'.pc = "retire"
    <3>1. /\ op.pc = "return" /\ op.todo = {} /\ op.list = "publishers" /\ ~op.failed
          /\ journal' = journal
      BY <1>2, <2>2, <2>5, ReturnedWrites DEF Returned
    <3>2. Reopening /\ op.unit = {}
      BY <1>1, <3>1 DEF Course, Reopening, Resuming, Returning
    <3> QED BY <1>1, <3>1, <3>2 DEF Returning, Emptied
  <2> QED BY <2>3, <2>4, <2>5
<1>8. Finished' => op'.pc = "idle" /\ Emptied'
  <2>1. SUFFICES ASSUME Finished' PROVE op'.pc = "idle" /\ Emptied'
    OBVIOUS
  <2>2. ~Erased
    BY <2>1 DEF Finished, Erased, NoJournal
  <2>3. CASE Final
    <3>1. /\ journal'.pending_clients = journal.pending_clients
          /\ journal'.pending_receivers = journal.pending_receivers
          /\ journal'.stopped_publishers = journal.stopped_publishers
      BY <1>4, <2>3 DEF Final, Return, Started, At
    <3> QED BY <1>1, <2>3, <3>1 DEF Returning, Emptied, Final, Refuse, Idle, At
  <2>4. CASE ~Final
    <3>1. Finished
      <4>1. CASE journal'.phase = journal.phase
        BY <2>1, <4>1 DEF Finished
      <4>2. CASE AbortLost
        BY <2>1, <4>2 DEF Finished, AbortLost, Save, Fresh, NoJournal
      <4>3. CASE Intent \/ Verify \/ Adopt \/ Activated
        BY <1>2, <2>1, <4>3
        DEF Finished, Intent, Verify, Adopt, Activated, Save, Bound, Fresh, NoJournal, Journals
      <4>4. CASE Recover \/ Outcome
        BY <1>2, <2>1, <4>4, SettleWrites DEF Finished
      <4> QED BY <1>2, <2>2, <2>4, <4>1, <4>2, <4>3, <4>4 DEF Written
    <3>2. op.pc = "idle" /\ Emptied
      BY <1>1, <3>1 DEF Returning
    <3>3. ~Abort /\ ~AbortLost
      BY <3>1 DEF Abort, AbortLost, Unfinished, Finished
    <3>4. ~Begun
      <4>1. SUFFICES ASSUME NEW act \in {"fence", "prepare", "import", "adopt", "thaw"},
                            NEW receipt \in Option(Receipts), Begin(act, receipt)
                     PROVE  FALSE
        BY DEF Begun
      <4>2. journal'.phase = journal.phase /\ journal' = journal
        <5>1. journal' = NoJournal \/ journal' = journal
          BY <4>1 DEF Begin, Save
        <5> QED BY <2>1, <5>1 DEF Finished, NoJournal
      <4>3. journal.phase \in Allowed(act) \/ journal.pending_receivers # {}
        BY <4>1, <4>2 DEF Begin, Save
      <4> QED BY <3>1, <3>2, <4>1, <4>3 DEF Finished, Emptied, Allowed
    <3>5. op'.pc = "idle"
      BY <1>1, <3>2, <3>3, <3>4, Quiet DEF Invoked
    <3>6. Emptied'
      BY <1>2, <2>2, <3>2, <3>3
      DEF Written, Emptied, Publisher, Lift, Return, Started, Dependent, Receiver, Reopened, At
    <3> QED BY <3>5, <3>6
  <2> QED BY <2>3, <2>4
<1> QED BY <1>3, <1>5, <1>6, <1>7, <1>8 DEF Returning

\* Unless a timer races, what systemd skipped is in the journal before the
\* fence and the pause that made it skip are gone.
LEMMA SkippingNext ==
  TypeOK /\ Course /\ Phased /\ Owned /\ Windowed /\ Skipping /\ [Next]_vars => Skipping'
<1>1. SUFFICES ASSUME TypeOK, Course, Phased, Owned, Windowed, Skipping, [Next]_vars, ~TimersRace
               PROVE  Skipping'
  BY DEF Skipping
<1>2. /\ op \in Ops /\ journal \in Journals
      /\ Changed /\ (Erased \/ Written)
      /\ op' = Idle \/ (Kept /\ (op'.pc = op.pc \/ Arrived))
  BY <1>1, Changes, Writings, Arrivals DEF TypeOK, Ops, Phased
<1>3. /\ op.pc = "started" => op.unit \cap owed = {}
      /\ Unwinding /\ fence # {} /\ journal.fence_token # {}
           /\ op.pc \in {"intent", "inhibit", "startup_token", "dependents", "primary_stop", "close"} =>
           skipped \cap Clients \subseteq journal.clients
      /\ op.pc = "lifted" /\ paused => skipped \cap Publishers \subseteq journal.stopped_publishers
  BY <1>1 DEF Skipping
\* No timer fires beside an invocation, and a reboot ends it.
<1>4. ASSUME Coordinator, ~Return, op' # Idle PROVE skipped' = skipped
  BY <1>1, <1>2, <1>4 DEF Changed, Reboot, Timer
<1>5. op'.pc = "started" => op'.unit \cap owed' = {}
  <2>1. SUFFICES ASSUME op'.pc = "started" PROVE op'.unit \cap owed' = {}
    OBVIOUS
  <2>2. op' # Idle
    BY <2>1 DEF Idle
  <2>3. CASE Return /\ op.pc # "started"
    <3>1. PICK u \in op.todo :
            \/ op' = [op EXCEPT !.todo = @ \ {u}]
            \/ /\ op' = [op EXCEPT !.pc = "started", !.unit = {u}, !.todo = @ \ {u}]
               /\ owed' = owed \ {u}
            \/ op' = [op EXCEPT !.failed = TRUE, !.todo = @ \ {u}]
      BY <2>3 DEF Return
    <3> QED BY <1>2, <2>1, <2>3, <3>1 DEF Ops
  <2>4. CASE op.pc = "started"
    <3>1. op'.unit = op.unit
      BY <1>1, <1>2, <2>1, <2>2, <2>4, InHand, StartedWrites DEF PublisherStop, ReceiverStop, At
    <3>2. ~Begun /\ ~Archive /\ ~LoseJournal /\ ~Reboot
      BY <2>2, <2>4 DEF Begun, Begin, Archive, Ready, LoseJournal, Reboot, Coordinator
    <3>3. owed' = owed
      BY <1>1, <1>2, <2>4, <3>2
      DEF Changed, PublisherStop, ClientStop, ReceiverStop, PrimaryStop, Return, Timer,
         Coordinator, At
    <3> QED BY <1>3, <2>4, <3>1, <3>3
  <2> QED BY <1>2, <2>1, <2>2, <2>3, <2>4 DEF Arrived, Return, At
<1>6. Unwinding' /\ fence' # {} /\ journal'.fence_token # {}
         /\ op'.pc \in {"intent", "inhibit", "startup_token", "dependents", "primary_stop", "close"} =>
         skipped' \cap Clients \subseteq journal'.clients
  <2>1. SUFFICES ASSUME Unwinding', fence' # {}, journal'.fence_token # {},
                        op'.pc \in {"intent", "inhibit", "startup_token", "dependents", "primary_stop", "close"}
                 PROVE  skipped' \cap Clients \subseteq journal'.clients
    OBVIOUS
  <2>2. op' # Idle /\ ~Invoked
    BY <2>1, Invocations DEF Idle, Unwinding
  <2>3. Unwinding /\ (op'.pc = op.pc \/ Arrived)
    BY <1>2, <2>1, <2>2 DEF Kept, Unwinding
  <2>4. \/ op.pc \in {"intent", "inhibit", "startup_token", "dependents", "primary_stop", "close"}
        \/ Skipped \/ Boundary
    <3>1. ~FenceCheck /\ ~ClientStop
      BY <1>1, <2>3 DEF FenceCheck, ClientStop, At, Unwinding, Course, Before, After, Acquire
    <3> QED BY <2>1, <2>3, <3>1
            DEF Arrived, Intent, Inhibit, StartupToken, Dependent, PrimaryStop, At
  <2>5. Coordinator /\ ~Return
    BY <2>4 DEF Coordinator, Return, Skipped, Boundary, At
  <2>6. skipped' = skipped
    BY <1>4, <2>2, <2>5
  <2>7. journal.clients \subseteq journal'.clients
    <3>1. RecordClients \/ Dependent \/ Skipped => journal.clients \subseteq journal'.clients
      BY <1>2 DEF RecordClients, Dependent, Skipped, Save, Journals
    <3> QED BY <1>2, <2>5, <3>1 DEF Erased, Written, Coordinator
  <2>8. fence # {} \/ Open
    BY <1>2, <2>1, <2>5 DEF Changed, Close, ForeignOpen, ForeignClose
  <2>9. ~Open /\ ~FenceToken
    BY <1>2, <2>1 DEF Open, FenceToken, Go, At, Ops
  <2>10. journal.fence_token # {}
    BY <1>2, <2>1, <2>2, <2>5, <2>9 DEF Erased, Written, Invoked, Coordinator
  <2>11. CASE Skipped
    BY <1>2, <2>6, <2>8, <2>9, <2>10, <2>11 DEF Skipped, Save, Journals
  <2>12. ~Boundary \/ op.pc # "boundary" \/ op'.pc = "skipped"
    BY <1>2, <2>2, <2>10 DEF Boundary, Go, GoIf, Refuse, Ops
  <2>13. CASE op.pc \in {"intent", "inhibit", "startup_token", "dependents", "primary_stop", "close"}
    BY <1>3, <2>3, <2>6, <2>7, <2>8, <2>9, <2>10, <2>13
  <2> QED BY <2>1, <2>4, <2>11, <2>12, <2>13 DEF Boundary, At
<1>7. op'.pc = "lifted" /\ paused' => skipped' \cap Publishers \subseteq journal'.stopped_publishers
  <2>1. SUFFICES ASSUME op'.pc = "lifted", paused'
                 PROVE  skipped' \cap Publishers \subseteq journal'.stopped_publishers
    OBVIOUS
  <2>2. op' # Idle
    BY <2>1 DEF Idle
  <2>3. op.pc = "lifted" \/ Lift
    BY <1>2, <2>1, <2>2 DEF Arrived
  <2>4. skipped' = skipped
    BY <1>4, <2>2, <2>3 DEF Coordinator, Return, Lift, At
  <2>5. paused
    <3>1. ~PausePublishers /\ ~Lifted
      BY <2>1, <2>3 DEF PausePublishers, Lift, Lifted, At
    <3> QED BY <1>2, <2>1, <3>1 DEF Changed
  <2>6. CASE Lift
    BY <1>2, <2>4, <2>5, <2>6 DEF Lift, Save, Journals
  <2>7. CASE op.pc = "lifted"
    <3>1. journal'.stopped_publishers = journal.stopped_publishers
      BY <1>2, <2>7
      DEF Erased, Written, Publisher, Lift, Return, Started, AbortLost, Ready, Coordinator, At
    <3> QED BY <1>3, <2>4, <2>5, <2>7, <3>1
  <2> QED BY <2>3, <2>6, <2>7
<1> QED BY <1>5, <1>6, <1>7 DEF Skipping

\* Under the invariant no step forgets a unit: each that makes one owed has it
\* recorded, and each that shortens a list has started it.
LEMMA NoUnitForgottenNext ==
  /\ TypeOK /\ Course /\ Phased /\ Undoing /\ Windowed /\ Recorded /\ Returning /\ Skipping
  /\ ~TimersRace /\ NoUnitForgotten /\ [Next]_vars
  => NoUnitForgotten'
<1>1. SUFFICES ASSUME TypeOK, Course, Phased, Undoing, Windowed, Recorded, Returning, Skipping,
                      ~TimersRace, NoUnitForgotten, [Next]_vars,
                      NEW u \in owed' \ Retired
               PROVE  Remembered(u)'
  BY DEF NoUnitForgotten
<1>2. /\ op \in Ops /\ journal \in Journals /\ owed \subseteq Units
      /\ Changed /\ (Erased \/ Written)
  BY <1>1, Changes, Writings DEF TypeOK, Ops, Phased
<1> DEFINE Named == u \in journal.pending_clients \cup journal.pending_receivers \cup journal.stopped_publishers
                          \cup journal.unloaded
           Fenced == u \in skipped \cap Clients /\ OurFence
           Paused == u \in skipped \cap Publishers /\ paused
           Held == u \in journal.clients /\ ~journal.reopened
<1>3. u \in owed => Held \/ Named \/ Fenced \/ Paused
  BY <1>1 DEF NoUnitForgotten, Remembered
<1>4. SUFFICES Held' \/ Named' \/ Fenced' \/ Paused'
  BY DEF Remembered
\* The fence still bars a client, or the journal has taken it over.
<1>5. Fenced /\ skipped' = skipped => Fenced' \/ Held'
  <2>1. SUFFICES ASSUME Fenced, skipped' = skipped PROVE Fenced' \/ Held'
    OBVIOUS
  <2>2. CASE fence' = fence
    BY <1>2, <2>1, <2>2 DEF Changed, OurFence, Open
  <2>3. CASE Close
    <3>1. op.pc = "close" /\ Unwinding /\ op.boundary = "closed" /\ ~Resuming /\ journal' = journal
      BY <1>1, <2>3 DEF Course, Close, At
    <3>2. ~journal.reopened /\ journal.fence_token # {}
      BY <1>1, <3>1 DEF Undoing, Reopening, Before, Windowed
    <3> QED BY <1>1, <2>1, <3>1, <3>2 DEF Skipping, OurFence
  <2>4. CASE fence' # fence /\ ~Close
    BY <1>2, <2>1, <2>4 DEF Changed, Open, ForeignOpen, ForeignClose, OurFence
  <2> QED BY <2>2, <2>3, <2>4
<1>6. Paused /\ skipped' = skipped => Paused' \/ Named'
  <2>1. SUFFICES ASSUME Paused, skipped' = skipped PROVE Paused' \/ Named'
    OBVIOUS
  <2>2. CASE Lifted
    BY <1>1, <2>1, <2>2 DEF Lifted, At, Skipping
  <2>3. CASE PausePublishers
    BY <2>1, <2>3 DEF PausePublishers
  <2>4. CASE paused' = paused
    BY <2>1, <2>4
  <2> QED BY <1>2, <2>2, <2>3, <2>4 DEF Changed
\* The journal never drops a unit that is owed.
<1>7. CASE Erased
  <2>1. CASE LoseJournal
    BY <1>1, <2>1 DEF LoseJournal
  <2>2. CASE Archivable /\ ~LoseJournal
    <3>1. Finished /\ journal' # journal
      BY <1>7, <2>2 DEF Erased, Archivable, Finished, NoJournal
    <3>2. journal.reopened /\ Emptied
      BY <1>1, <3>1 DEF Undoing, Returning
    <3>3. u \in owed /\ u \notin journal.unloaded
      BY <1>1, <1>7, <2>2 DEF Erased
    <3>4. Fenced \/ Paused
      BY <1>3, <3>2, <3>3 DEF Emptied
    <3>5. skipped' = skipped
      BY <1>2, <1>7, <3>1 DEF Changed, Erased, Return, Reboot, Timer, At
    <3> QED BY <1>5, <1>6, <3>4, <3>5
  <2> QED BY <1>7, <2>1, <2>2 DEF Erased
<1>8. CASE Written /\ u \in owed
  <2>1. Held => Held' \/ Named'
    <3>1. CASE Reopened
      BY <1>1, <1>2, <3>1 DEF Reopened, Save, Journals
    <3>2. CASE RecordClients \/ Dependent \/ Skipped
      <4>1. CASE RecordClients
        <5>1. \E clients : journal' = [journal EXCEPT !.clients = journal.clients \cup clients]
          BY <4>1 DEF RecordClients, Save
        <5> QED BY <1>2, <5>1 DEF Journals
      <4>2. CASE Dependent
        <5>1. \E clients, receivers :
                journal' = [journal EXCEPT !.clients = journal.clients \cup clients,
                                           !.pending_receivers = receivers]
          BY <4>2 DEF Dependent, Save
        <5> QED BY <1>2, <5>1 DEF Journals
      <4>3. CASE Skipped
        <5>1. \/ journal' = journal
              \/ \E clients : journal' = [journal EXCEPT !.clients = journal.clients \cup clients]
          BY <4>3 DEF Skipped, Save
        <5> QED BY <1>2, <5>1 DEF Journals
      <4> QED BY <3>2, <4>1, <4>2, <4>3
    <3>3. CASE ~Reopened /\ ~RecordClients /\ ~Dependent /\ ~Skipped
      BY <1>8, <3>3 DEF Written
    <3> QED BY <3>1, <3>2, <3>3
  <2>2. Named => Named'
    <3>1. SUFFICES ASSUME Named PROVE Named'
      OBVIOUS
    <3>2. CASE Reopened
      <4>1. op.pc = "reopened" /\ Reopening
        BY <1>1, <1>2, <3>2
        DEF Course, Reopened, At, Ops, Acts, Resume, Acquire, Waiting, Staging, Reopening,
            Unwinding, Resuming
      <4>2. journal.pending_clients = {}
        BY <1>1, <4>1 DEF Undoing, Before, Recorded
      <4> QED BY <1>2, <1>8, <3>1, <3>2, <4>1, <4>2
              DEF Written, Dependent, Receiver, Return, Started, AbortLost, Publisher, Lift, Ready,
                  Coordinator, At
    <3>3. CASE Return
      <4>1. journal' = journal \/ \E v \in op.todo :
              /\ journal' = [Left(v) EXCEPT !.unloaded = @ \cup {v}]
        BY <3>3 DEF Return, Save
      <4>2. CASE journal' = journal
        BY <3>1, <4>2
      <4>3. ASSUME NEW v \in op.todo, journal' = [Left(v) EXCEPT !.unloaded = @ \cup {v}] PROVE Named'
        <5>1. Leaves(v) /\ journal.unloaded \subseteq journal'.unloaded /\ v \in journal'.unloaded
          BY <1>2, <4>3, UnitLeaves
        <5> QED BY <3>1, <5>1 DEF Leaves
      <4> QED BY <4>1, <4>2, <4>3
    <3>4. CASE Started
      <4>1. PICK v \in op.unit : Leaves(v) /\ journal.unloaded \subseteq journal'.unloaded
        BY <1>2, <3>4, UnitLeaves DEF Started, Save
      <4>2. u # v
        BY <1>1, <1>8, <3>4, <4>1 DEF Skipping, Started, At
      <4> QED BY <3>1, <4>1, <4>2 DEF Leaves
    <3>5. CASE AbortLost
      BY <1>1, <3>1, <3>5 DEF AbortLost, Phased, Blank, NoJournal
    <3>6. CASE Publisher \/ Lift \/ Dependent \/ Receiver
      <4>1. Publisher \/ Lift => journal.stopped_publishers \subseteq journal'.stopped_publishers
        BY <1>2 DEF Publisher, Lift, Save, Journals
      <4>2. Dependent \/ Receiver => journal.pending_receivers \subseteq journal'.pending_receivers
        BY <1>2 DEF Dependent, Receiver, Save, Journals
      <4>3. ~Reopened /\ ~Return /\ ~Started /\ ~AbortLost
        BY <3>6
        DEF Publisher, Lift, Dependent, Receiver, Reopened, Return, Started, AbortLost, Ready,
            Coordinator, At
      <4> QED BY <1>8, <3>1, <4>1, <4>2, <4>3 DEF Written
    <3>7. CASE /\ ~Reopened /\ ~Return /\ ~Started /\ ~AbortLost
               /\ ~Publisher /\ ~Lift /\ ~Dependent /\ ~Receiver
      BY <1>8, <3>1, <3>7 DEF Written
    <3> QED BY <3>2, <3>3, <3>4, <3>5, <3>6, <3>7
  <2>3. CASE skipped' = skipped
    BY <1>3, <1>5, <1>6, <1>8, <2>1, <2>2, <2>3
  <2>4. CASE Return /\ skipped' # skipped
    <3>1. PICK v \in op.todo : owed' = owed \ {v} /\ skipped \ {v} \subseteq skipped'
      BY <2>4 DEF Return
    <3>2. u # v
      BY <1>1, <3>1
    <3>3. Fenced => Fenced'
      BY <2>4, <3>1, <3>2 DEF Return, OurFence, authority, record
    <3>4. Paused => Paused'
      BY <2>4, <3>1, <3>2 DEF Return
    <3> QED BY <1>3, <1>8, <2>1, <2>2, <3>3, <3>4
  <2>5. CASE Reboot
    <3>1. u \in skipped => u \in skipped'
      <4> DEFINE wanted == {v \in Units : ~(profile /\ v \in Removed)}
                 barred == {v \in wanted : \/ v \in Clients \cup Retired /\ fence # {}
                                           \/ v \in Publishers /\ paused}
      <4>1. /\ running' = wanted \ barred /\ skipped' = barred
            /\ owed' = (owed \ (running' \cup (skipped \ wanted)))
                         \cup (barred \cap IF OurFence /\ Unfinished THEN Clients ELSE {})
        BY <2>5 DEF Reboot
      <4>2. u \in barred \/ (u \notin running' /\ u \notin skipped \ wanted)
        BY <1>1, <4>1
      <4> QED BY <4>1, <4>2
    <3>2. Fenced => Fenced'
      BY <2>5, <3>1 DEF Reboot, OurFence, record
    <3>3. Paused => Paused'
      BY <2>5, <3>1 DEF Reboot
    <3> QED BY <1>3, <1>8, <2>1, <2>2, <3>2, <3>3
  <2>6. CASE \E v \in Units : Timer(v)
    <3>1. skipped \subseteq skipped'
      BY <2>6 DEF Timer
    <3>2. Fenced => Fenced'
      BY <2>6, <3>1 DEF Timer, OurFence, authority, record
    <3>3. Paused => Paused'
      BY <2>6, <3>1 DEF Timer
    <3> QED BY <1>3, <1>8, <2>1, <2>2, <3>2, <3>3
  <2> QED BY <1>2, <2>3, <2>4, <2>5, <2>6 DEF Changed
<1>9. CASE Written /\ u \notin owed
  <2>1. PublisherStop \/ ClientStop \/ ReceiverStop \/ PrimaryStop \/ Reboot \/ \E v \in Units : Timer(v)
    <3>1. ~Begun /\ ~Archive /\ ~Return /\ ~LoseJournal
      BY <1>1, <1>9 DEF Begun, Begin, Archive, Return, LoseJournal
    <3> QED BY <1>1, <1>2, <1>9, <3>1 DEF Changed
  <2>2. CASE PublisherStop
    <3>1. PICK v \in op.unit : owed' = owed \cup ({v} \cap running)
      BY <2>2 DEF PublisherStop, StopUnit
    <3> QED BY <1>1, <1>9, <2>2, <3>1 DEF Recorded, PublisherStop, At
  <2>3. CASE ReceiverStop
    <3>1. PICK v \in op.unit : owed' = owed \cup ({v} \cap running)
      BY <2>3 DEF ReceiverStop, StopUnit
    <3> QED BY <1>1, <1>9, <2>3, <3>1 DEF Recorded, ReceiverStop, At
  <2>4. CASE ClientStop
    <3>1. PICK v \in op.todo : owed' = owed \cup ({v} \cap running)
      BY <1>1, <1>9, <2>4 DEF ClientStop, StopUnit
    <3>2. ~journal.reopened
      BY <1>1, <1>2, <2>4
      DEF ClientStop, At, Course, Ops, Acts, Resume, Acquire, Waiting, Staging, Before, After,
         Phased, MidUnwind, Unfinished
    <3> QED BY <1>1, <1>9, <2>4, <3>1, <3>2 DEF Recorded, ClientStop, At
  <2>5. CASE PrimaryStop
    <3>1. u \in (Dependents \cap running) \ Retired
      BY <1>1, <1>9, <2>5 DEF PrimaryStop
    <3>2. u \in journal.clients \cup journal.pending_receivers
      BY <1>1, <2>5, <3>1 DEF PrimaryStop, At, Recorded
    <3>3. ~journal.reopened
      <4>1. op.pc = "primary_stop" /\ op.act \in {"fence", "thaw", "abort"}
        BY <1>1, <1>2, <2>5 DEF PrimaryStop, At, Course, Ops, Acts, Resume, Waiting, Staging
      <4>2. CASE op.act = "fence"
        BY <1>1, <4>1, <4>2 DEF Phased, Acquire, MidUnwind, Unfinished
      <4>3. CASE Unwinding
        BY <1>1, <4>1, <4>3 DEF Undoing, Reopening, Resuming, Before, Acquire
      <4> QED BY <4>1, <4>2, <4>3 DEF Unwinding
    <3> QED BY <2>5, <3>2, <3>3 DEF PrimaryStop
  <2>6. CASE Reboot
    <3>1. u \in Clients \cap skipped' /\ OurFence
      BY <1>1, <1>9, <2>6 DEF Reboot
    <3> QED BY <2>6, <3>1 DEF Reboot, OurFence, record
  <2>7. CASE \E v \in Units : Timer(v)
    <3>1. PICK v \in Units : Timer(v)
      BY <2>7
    <3>2. u = v
      BY <1>1, <1>9, <3>1 DEF Timer
    <3> QED BY <3>1, <3>2 DEF Timer, OurFence, authority, record
  <2> QED BY <2>1, <2>2, <2>3, <2>4, <2>5, <2>6, <2>7
<1> QED BY <1>2, <1>7, <1>8, <1>9

-----------------------------------------------------------------------------
(* The theorems.                                                            *)

\* The invariant.
Inv ==
  /\ TypeOK /\ Course /\ Phased /\ Undoing /\ Uninstalled /\ Owned /\ Windowed
  /\ Shut /\ Known /\ Slotted /\ Opened /\ Inhibited /\ Recorded /\ Returning /\ Skipping

\* It holds initially.
LEMMA InitInv == Init => Inv
<1>1. SUFFICES ASSUME Init PROVE Inv
  OBVIOUS
<1>2. journal = NoJournal /\ op.pc = "idle" /\ op.act = "none" /\ op.boundary = "prepared" /\ op.unit = {}
  BY <1>1 DEF Init, Idle
<1>3. /\ journal.phase = "none" /\ journal.fence_token = {} /\ journal.receipt = {}
      /\ journal.pending_clients = {} /\ ~journal.reopened
  BY <1>2 DEF NoJournal
<1>4. TypeOK
  BY <1>1, InitTyped
<1>5. Course
  BY <1>2 DEF Course, Unwinding, Staging
<1>6. Phased
  BY <1>2, <1>3 DEF Phased, Blank, Coordinator, Staging, Waiting
<1>7. Undoing /\ Uninstalled
  BY <1>2, <1>3 DEF Undoing, Finished, Reopening, Unwinding, Uninstalled
<1>8. Owned
  BY <1>1, <1>2, <1>3 DEF Init, Owned
<1>9. Windowed
  BY <1>2, <1>3 DEF Windowed, Waiting, Unwinding
<1>10. Slotted
  BY <1>1, <1>2, <1>3 DEF Init, Slotted, Finished
<1>11. Opened /\ Inhibited
  BY <1>1, <1>2, <1>3 DEF Init, Opened, Inhibited, Acquiring, OurFence, Unfinished, Unwinding
<1>12. Recorded /\ Returning /\ Skipping
  BY <1>1, <1>2, <1>3 DEF Init, Recorded, Returning, Skipping, Finished, Reopening, Unwinding
<1>13. Shut /\ Known
  BY <1>1, <1>3 DEF Init, Shut, Known
<1> QED BY <1>4, <1>5, <1>6, <1>7, <1>8, <1>9, <1>10, <1>11, <1>12, <1>13 DEF Inv

\* Every step keeps it.
LEMMA InvNext == Inv /\ [Next]_vars => Inv'
BY TypedNext, CourseNext, PhasedNext, UndoingNext, UninstalledNext, OwnedNext, WindowedNext,
   ShutNext, KnownNext, SlottedNext, OpenedNext, InhibitedNext, RecordedNext, ReturningNext, SkippingNext DEF Inv

\* The invariant holds in every state of every behaviour of the coordinator.
THEOREM Invariant == Spec => []Inv
BY InitInv, InvNext, PTL DEF Spec

\* Every variable keeps its type: the journal its fields, the invocation its memory.
THEOREM TypeCorrect == Spec => []TypeOK
<1>1. Inv => TypeOK
  BY DEF Inv
<1> QED BY <1>1, Invariant, PTL

\* The journal never names a fence another coordinator opened, although
\* fence-open resumes whatever fence it finds (refuse_foreign_fence): what an
\* abort or a thaw closes is always the coordinator's own.
THEOREM OnlyOwnFences == Spec => []NoForeignFence
<1>1. Inv => NoForeignFence
  BY DEF Inv, Owned, NoForeignFence
<1> QED BY <1>1, Invariant, PTL

\* A phase is reached only under the fence the journal names, from evidence of
\* that window, and an adoption only on records no writer changed since the
\* snapshot: whatever was killed, reopened or aged in between, no step of
\* verify, the worker's outcome or adopt joins two windows.
THEOREM PhasesInOneWindow == Spec => AdvancesInWindow
<1>1. Inv /\ [Next]_vars => [Advance]_vars
  BY Advances DEF Inv
<1>2. Spec => [][Advance]_vars
  BY <1>1, Invariant, PTL DEF Spec
<1> QED BY <1>2 DEF AdvancesInWindow, Advance

\* The fence a candidate was adopted under is taken away from one that runs, or
\* would boot next, only after its acceptance, unless the journal of the adoption
\* was lost: neither an abort, which refuses what is installed, nor a resumed
\* thaw does it earlier, however it was killed.
THEOREM ThawOnlyAccepted == Spec => NoUnacceptedThaw
<1>1. Inv /\ [Next]_vars => [\A t \in adopted \ forgotten : Thaws(t) => journal.accepted]_vars
  BY ThawsAccepted DEF Inv
<1> QED BY <1>1, Invariant, PTL DEF Spec, NoUnacceptedThaw

\* What an abort needs to find: the fence in the journal or in its intent, the
\* receipt of the import slot.
FenceRecorded ==
  lost = 0 =>
    /\ slot = {} \/ slot = journal.receipt
    /\ OurFence => Unfinished /\ (fence = journal.fence_token \/ journal.fence_opening)

\* Unless the journal is lost, an own fence leaves an unfinished journal that
\* names it or the intent to open it, and only the journal's receipt stands in
\* the import slot; another coordinator changes nothing of this.
THEOREM FenceAndSlotRecorded == Spec => []FenceRecorded
<1>1. Inv => FenceRecorded
  BY DEF Inv, Slotted, Opened, FenceRecorded
<1> QED BY <1>1, Invariant, PTL

\* With one coordinator, its fence, its startup inhibition and the import slot
\* are recorded in the journal before they are taken and until they are given
\* back, so every kill leaves what `rollout abort` can undo.
THEOREM HoldingsAreRecorded == ASSUME ~ForeignActs PROVE Spec => []HoldingsRecorded
<1>1. Inv => HoldingsRecorded
  BY DEF Inv, Slotted, Opened, Inhibited, HoldingsRecorded
<1> QED BY <1>1, Invariant, PTL

\* Unless a timer fires while an invocation runs, every unit the coordinator
\* stopped, or made systemd skip, is recorded until it is started again: over
\* kills, reboots, failed starts and archived or lost journals none is forgotten.
THEOREM UnitsAreReturned == ASSUME ~TimersRace PROVE Spec => []NoUnitForgotten
<1>1. Init => NoUnitForgotten
  BY DEF Init, NoUnitForgotten
<1>2. Inv /\ NoUnitForgotten /\ [Next]_vars => NoUnitForgotten'
  BY NoUnitForgottenNext DEF Inv
<1> QED BY <1>1, <1>2, Invariant, PTL DEF Spec
=============================================================================
