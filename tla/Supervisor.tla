----------------------------- MODULE Supervisor -----------------------------
(***************************************************************************)
(* The test supervisor (testing/supervisor.rs): one run of the acceptance  *)
(* suite, launched as two systemd user units.  The worker executes the     *)
(* cases, once, under worker.lock; the observer watches it and writes the  *)
(* receipts of a worker that is lost.  They share nothing but the receipts *)
(* in the run's directory, each of them published atomically and durably.  *)
(*                                                                         *)
(* Simplifications:                                                        *)
(*  - the foreground mode, the same two as threads of one process, is left *)
(*    out, and so is a reboot, after which nothing observes by itself;     *)
(*  - reading /proc of a live process does not fail;                       *)
(*  - an error of a program ends it, which is what a kill does to the      *)
(*    files; a busy resource lease is such an error.  An error after the   *)
(*    rename of a receipt, and a systemd-run whose answer is lost while    *)
(*    the observer it started runs on, are left out;                       *)
(*  - a case has one required artifact; hashes are what they hash;         *)
(*  - a case that was cancelled, timed out, failed to spawn or lacked a     *)
(*    dependency ranks as failed, and is;                                  *)
(*  - cancel.json may appear at any time, and the worker may find it;       *)
(*  - heartbeats, samples, logs and the quiet and stalled notifications    *)
(*    decide nothing and are left out.                                     *)
(***************************************************************************)
EXTENDS Integers, Sequences

CONSTANTS N,            \* cases
          Needs,        \* case to the earlier cases it depends on
          Supported,    \* cases this platform runs
          MaxFailures   \* losses of the worker, or of the observer

Cases == 1..N

ASSUME SupervisorAssumption ==
  /\ N \in Nat \ {0} /\ MaxFailures \in Nat
  /\ Needs \in [Cases -> SUBSET Cases]
  /\ \A c \in Cases : \A d \in Needs[c] : d < c
  /\ Supported \subseteq Cases

VARIABLES
  launch,       \* where start_detached is; "none" before launch-requested.json
  unit,         \* the worker unit: none, live, dead
  accepted,     \* worker-launch-accepted.json
  launchFailed, \* launch-failed.json
  started,      \* started.json, the registration of the worker
  results,      \* results.json, <<>> when absent
  terminal,     \* terminal.json: the results it binds, <<>> when absent
  interrupted,  \* interrupted.json, <<>> when absent
  closing,      \* interrupted-terminal.json: [results, original], or Absent
  notified,     \* terminal-notification.json
  worker,       \* the worker process; bound: the files it finds are those of the spec
  child,        \* the case's process group
  pidReused,    \* another process has the PID of a worker that is gone
  observer,     \* the observer unit and the pass it is making
  ran           \* history: case to its executions

receipts == <<accepted, launchFailed, started, results, terminal,
              interrupted, closing, notified>>
vars == <<launch, unit, receipts, worker, child, pidReused, observer, ran>>

Absent == [results |-> <<>>, original |-> <<>>]
NoChild == [state |-> "none"]

Init ==
  /\ launch = "none" /\ unit = "none"
  /\ accepted = FALSE /\ launchFailed = FALSE /\ started = FALSE
  /\ results = <<>> /\ terminal = <<>> /\ interrupted = <<>> /\ closing = Absent
  /\ notified = FALSE
  /\ worker = [pc |-> "none", failures |-> 0] /\ child = NoChild
  /\ pidReused = FALSE
  /\ observer = [pc |-> "none", failures |-> 0, view |-> <<>>]
  /\ ran = [c \in Cases |-> [times |-> 0, sound |-> FALSE]]

\* worker.lock: inherited by the child, which keeps it when the worker is lost.
Alive == worker.pc \notin {"none", "ended", "lost"}
LockHeld == Alive \/ child.state # "none"

(***************************************************************************)
(* Verdicts.                                                               *)
(***************************************************************************)
\* ok: the exit code is 0 and there are no evidence errors.
Result(reason, ok) == [reason |-> reason, ok |-> ok]
Accepted(r) == r.reason = "exited" /\ r.ok

\* verify_case.
CaseVerdict(r) ==
  CASE r.reason \in {"interrupted", "unsupported"} -> "incomplete"
    [] Accepted(r) -> "passed"
    [] OTHER -> "failed"

Rank == [passed |-> 0, incomplete |-> 1, indeterminate |-> 2, failed |-> 3]
Worst(verdicts) ==
  CHOOSE v \in verdicts : \A other \in verdicts : Rank[other] <= Rank[v]

CaseVerdicts(rs) == {CaseVerdict(rs[i]) : i \in DOMAIN rs}

\* status: whether the receipts of a lost worker stand in for its own.
Interrupted == terminal = <<>> /\ closing # Absent

\* Mutant: a run whose cases all have results is taken to be over.
BugTerminal == terminal # <<>> \/ closing # Absent \/ launchFailed \/ Len(results) = N

Terminal == terminal # <<>> \/ Interrupted \/ launchFailed

\* verified_results, verify.
Verdicts ==
  LET rs == IF Interrupted THEN interrupted ELSE results
      sealed == IF Interrupted THEN closing.results ELSE terminal
  IN  IF rs = <<>> THEN {"incomplete"}
      ELSE IF sealed = <<>> THEN CaseVerdicts(rs) \cup {"incomplete"}
      ELSE IF sealed # rs \/ Len(rs) # N \/ (Interrupted /\ closing.original # results)
           THEN {"indeterminate"}
      ELSE CaseVerdicts(rs)
ReceiptVerdict == IF launchFailed THEN "failed" ELSE Worst(Verdicts \cup {"passed"})

(***************************************************************************)
(* The bound files, edited by somebody else; an edit may restore bytes, and *)
(* a renamed directory leaves every identity alone.                        *)
(***************************************************************************)
\* validate_spec, which hashes them.
ValidSpec == worker.bound

Examining == worker.pc \in {"admit", "spawn", "running", "reap"}

\* Only a worker reads them.
Edit ==
  /\ Alive
  /\ \E kind \in {"edited", "moved"} :
        worker' = IF Examining /\ worker.touched = {}
                  THEN [worker EXCEPT !.bound = ~@, !.touched = {kind}]
                  ELSE [worker EXCEPT !.bound = ~@]
  /\ child' = IF child.state = "running" THEN [child EXCEPT !.clean = FALSE] ELSE child
  /\ UNCHANGED <<launch, unit, receipts, pidReused, observer, ran>>

\* Mutant: identities are compared, the watch on the directories is not read.
BugContinuous == "edited" \notin worker.touched

\* InputContinuity: the identity of every file and directory, and an inotify
\* watch on their ancestors, whose renaming leaves the identities alone.
Continuous == worker.touched = {}

(***************************************************************************)
(* start_detached.                                                         *)
(***************************************************************************)
Request ==
  /\ launch = "none" /\ ~started /\ ~launchFailed
  /\ launch' = "observe"
  /\ UNCHANGED <<unit, receipts, worker, child, pidReused, observer, ran>>

\* systemd-run answers, or fails; a lost answer leaves the unit started.
StartObserver ==
  /\ launch = "observe"
  /\ \/ launch' = "worker" /\ observer' = [observer EXCEPT !.pc = "idle"]
     \/ launch' = "refused" /\ UNCHANGED observer
  /\ UNCHANGED <<unit, receipts, worker, child, pidReused, ran>>

StartWorker ==
  /\ launch = "worker"
  /\ \/ launch' = "accept" /\ unit' = "live"
     \/ launch' = "refused" /\ unit' \in {"none", "live"}
  /\ UNCHANGED <<receipts, worker, child, pidReused, observer, ran>>

Accept ==
  /\ launch = "accept"
  /\ accepted' = TRUE /\ launch' = "done"
  /\ UNCHANGED <<unit, launchFailed, started, results, terminal, interrupted,
                 closing, notified, worker, child, pidReused, observer, ran>>

Refuse ==
  /\ launch = "refused"
  /\ launchFailed' = TRUE /\ launch' = "stop"
  /\ UNCHANGED <<unit, accepted, started, results, terminal, interrupted,
                 closing, notified, worker, child, pidReused, observer, ran>>

StopObserver ==
  /\ launch = "stop"
  /\ observer' = IF observer.pc = "none" THEN observer ELSE [observer EXCEPT !.pc = "stopped"]
  /\ launch' = "done"
  /\ UNCHANGED <<unit, receipts, worker, child, pidReused, ran>>

LauncherKilled ==
  /\ launch \notin {"none", "done"}
  /\ launch' = "done"
  /\ UNCHANGED <<unit, receipts, worker, child, pidReused, observer, ran>>

(***************************************************************************)
(* The worker.                                                             *)
(***************************************************************************)
others == <<launch, accepted, interrupted, closing, notified, observer>>

\* Mutant: a registration left by an earlier worker is not looked for.
BugMayBegin == ~launchFailed

MayBegin == ~started /\ ~launchFailed

\* By the unit, or by an operator who runs `worker DIR`, as often as they like.
Begin ==
  /\ ~LockHeld /\ MayBegin
  /\ \E own \in {unit = "live", FALSE} :
      \E bound \in BOOLEAN :
        worker' = [pc |-> "starting", own |-> own, bound |-> bound, failures |-> worker.failures]
  /\ UNCHANGED <<others, unit, launchFailed, started, results, terminal, child,
                 pidReused, ran>>

\* The unit's process found the path, the lease or the receipts against it.
UnitDies ==
  /\ unit = "live" /\ ~(Alive /\ worker.own)
  /\ unit' = "dead"
  /\ UNCHANGED <<others, launchFailed, started, results, terminal, worker, child,
                 pidReused, ran>>

Gone(pc) ==
  /\ worker' = [pc |-> pc, failures |-> worker.failures]
  /\ unit' = IF worker.own THEN "dead" ELSE unit

TakeNext(c) == worker' = [pc |-> "next", own |-> worker.own, bound |-> worker.bound,
                          case |-> c, failures |-> worker.failures]

Register ==
  /\ worker.pc = "starting"
  /\ \/ /\ ValidSpec /\ started' = TRUE /\ TakeNext(1)
        /\ UNCHANGED <<unit, launchFailed>>
     \/ Gone("lost") /\ launchFailed' = TRUE /\ UNCHANGED started
  /\ UNCHANGED <<others, results, terminal, child, pidReused, ran>>

Skip(c) ==
  CASE c \notin Supported -> "unsupported"
    [] \E d \in Needs[c] : ~Accepted(results[d]) -> "failed"
    [] OTHER -> "none"

Step(pc) == worker.pc = pc /\ UNCHANGED <<others, unit, launchFailed, started>>

\* cancel.json may be there.  A skipped case is recorded like an executed one, its
\* artifact not refreshed.
TakeCase ==
  /\ Step("next") /\ worker.case <= N
  /\ \E skip \in {Skip(worker.case), "failed"} :
        worker' = [pc |-> IF skip = "none" THEN "admit" ELSE "record",
                   own |-> worker.own, bound |-> worker.bound, case |-> worker.case,
                   failures |-> worker.failures, result |-> Result(skip, FALSE),
                   touched |-> {}, refreshed |-> FALSE]
  /\ UNCHANGED <<results, terminal, child, pidReused, ran>>

Rejected(w) == [w EXCEPT !.pc = "record", !.result = Result("failed", FALSE)]

Admit ==
  /\ Step("admit")
  /\ worker' = IF ValidSpec /\ Continuous THEN [worker EXCEPT !.pc = "spawn"]
               ELSE Rejected(worker)
  /\ UNCHANGED <<results, terminal, child, pidReused, ran>>

Spawn ==
  /\ Step("spawn")
  /\ \/ /\ child' = [state |-> "running", code |-> "none", clean |-> worker.bound, wrote |-> FALSE]
        /\ ran' = [ran EXCEPT ![worker.case].times = @ + 1]
        /\ worker' = [worker EXCEPT !.pc = "running"]
     \/ worker' = Rejected(worker) /\ UNCHANGED <<child, ran>>
  /\ UNCHANGED <<results, terminal, pidReused>>

\* The loop looks for the exit first, then for cancel.json, then at the deadline,
\* which may have come.
Poll ==
  /\ Step("running")
  /\ worker' = [worker EXCEPT !.pc = "reap",
       !.result.reason = IF child.code # "none" THEN "exited" ELSE "failed"]
  /\ UNCHANGED <<results, terminal, child, pidReused, ran>>

\* What is left of the group is killed before its leader is reaped.
Reap ==
  /\ Step("reap")
  /\ LET ok == child.code = "zero" /\ ValidSpec /\ Continuous
     IN  worker' = [worker EXCEPT !.pc = "record", !.result.ok = ok, !.refreshed = child.wrote]
  /\ ran' = [ran EXCEPT ![worker.case].sound =
               child.code = "zero" /\ child.clean /\ child.wrote]
  /\ child' = NoChild
  /\ UNCHANGED <<results, terminal, pidReused>>

\* The artifact's identity is compared with the one before the execution.
Refreshed == worker.refreshed

Record ==
  /\ Step("record")
  /\ results' = Append(results, [worker.result EXCEPT !.ok = @ /\ Refreshed])
  /\ TakeNext(worker.case + 1)
  /\ UNCHANGED <<terminal, child, pidReused, ran>>

Finish ==
  /\ worker.pc = "next" /\ worker.case > N
  /\ terminal' = results /\ Gone("ended")
  /\ UNCHANGED <<others, launchFailed, started, results, child, pidReused, ran>>

\* Killed, or ended by an error; its child may outlive it, the leases inherited.
WorkerLost ==
  /\ Alive /\ worker.failures < MaxFailures
  /\ worker' = [pc |-> "lost", failures |-> worker.failures + 1]
  /\ unit' = IF worker.own THEN "dead" ELSE unit
  /\ child' \in {NoChild, IF child.state = "running" THEN [state |-> "orphan"] ELSE NoChild}
  /\ UNCHANGED <<others, launchFailed, started, results, terminal, pidReused, ran>>

ChildWrites ==
  /\ child.state = "running" /\ child.code = "none"
  /\ child' = [child EXCEPT !.wrote = TRUE]
  /\ UNCHANGED <<others, unit, launchFailed, started, results, terminal, worker, pidReused,
                 ran>>

ChildExits ==
  /\ child.state = "running" /\ child.code = "none"
  /\ \E code \in {"zero", "other"} : child' = [child EXCEPT !.code = code]
  /\ UNCHANGED <<others, unit, launchFailed, started, results, terminal, worker,
                 pidReused, ran>>

OrphanEnds ==
  /\ child.state = "orphan" /\ child' = NoChild
  /\ UNCHANGED <<others, unit, launchFailed, started, results, terminal, worker,
                 pidReused, ran>>

ReusePid ==
  /\ started /\ worker.pc = "lost" /\ ~pidReused /\ pidReused' = TRUE
  /\ UNCHANGED <<others, unit, launchFailed, started, results, terminal, worker, child,
                 ran>>

(***************************************************************************)
(* The observer.                                                           *)
(***************************************************************************)
outside == <<launch, unit, accepted, started, results, terminal, worker, child,
             pidReused, ran>>

\* Mutant: any process that has the worker's PID is the worker.
BugWorkerAlive == Alive \/ pidReused

\* probe_worker: the process with the PID has the registered boot and start.
WorkerAlive == Alive

Observed ==
  [started |-> started, alive |-> started /\ WorkerAlive, terminal |-> Terminal,
   results |-> IF Interrupted THEN interrupted ELSE results]

\* Mutant: the terminal receipts are looked for before the worker is probed.
BugProbed == {"started", "terminal", "results"}

\* status_with_probe reads these first, and the rest afterwards.
Probed == {"started", "alive"}

Probe(next) == observer' = [observer EXCEPT !.pc = next, !.view = [f \in Probed |-> Observed[f]]]
Seen == [f \in DOMAIN Observed |-> IF f \in Probed THEN observer.view[f] ELSE Observed[f]]

At(pc) == observer.pc = pc /\ UNCHANGED outside
Goto(pc) == observer' = [observer EXCEPT !.pc = pc]

BeginPass ==
  /\ At("idle") /\ Probe("look")
  /\ UNCHANGED <<launchFailed, interrupted, closing, notified>>

Look ==
  /\ At("look")
  /\ LET lost == ~Seen.terminal /\ Seen.started /\ ~Seen.alive
     IN  observer' = [observer EXCEPT !.view = IF lost THEN Seen.results ELSE <<>>,
                        !.pc = CASE lost -> "interrupt"
                                 [] ~Seen.terminal /\ ~Seen.started -> "unregistered"
                                 [] OTHER -> "again"]
  /\ UNCHANGED <<launchFailed, interrupted, closing, notified>>

\* observe_unregistered_worker: only an accepted unit that systemd no longer
\* runs is judged, and under its worker's lease; a busy lease is an error.
Unregistered ==
  /\ At("unregistered")
  /\ IF accepted /\ unit = "dead"
     THEN IF LockHeld THEN Goto("failed") /\ UNCHANGED launchFailed
          ELSE Goto("again") /\ launchFailed' = (launchFailed \/ ~started)
     ELSE Goto("again") /\ UNCHANGED launchFailed
  /\ UNCHANGED <<interrupted, closing, notified>>

Interrupt ==
  /\ At("interrupt")
  /\ LET seen == observer.view
     IN  interrupted' = [c \in Cases |-> IF c <= Len(seen) THEN seen[c]
                                         ELSE Result("interrupted", FALSE)]
  /\ observer' = [observer EXCEPT !.pc = "close", !.view = results]
  /\ UNCHANGED <<launchFailed, closing, notified>>

Close ==
  /\ At("close") /\ observer' = [observer EXCEPT !.pc = "again", !.view = <<>>]
  /\ closing' = [results |-> interrupted, original |-> observer.view]
  /\ UNCHANGED <<launchFailed, interrupted, notified>>

ProbeAgain ==
  /\ At("again") /\ Probe("look again")
  /\ UNCHANGED <<launchFailed, interrupted, closing, notified>>

LookAgain ==
  /\ At("look again")
  /\ observer' = [observer EXCEPT !.pc = "end",
       !.view = [terminal |-> Seen.terminal, gone |-> Seen.started /\ ~Seen.alive]]
  /\ UNCHANGED <<launchFailed, interrupted, closing, notified>>

\* A run that is over, and a worker that is gone, end the service, and systemd
\* does not restart what ended well.
Leaves == observer.view.terminal \/ observer.view.gone

\* The notification is made once.
EndPass ==
  /\ At("end")
  /\ notified' = (notified \/ observer.view.terminal)
  /\ observer' = [observer EXCEPT !.pc = IF Leaves THEN "left" ELSE "idle", !.view = <<>>]
  /\ UNCHANGED <<launchFailed, interrupted, closing>>

InPass == observer.pc \in
  {"look", "unregistered", "interrupt", "close", "again", "look again", "end"}

ObserverFails ==
  /\ InPass /\ observer.failures < MaxFailures
  /\ observer' = [pc |-> "failed", failures |-> observer.failures + 1, view |-> <<>>]
  /\ UNCHANGED <<outside, launchFailed, interrupted, closing, notified>>

Restart ==
  /\ At("failed")
  /\ observer' = [observer EXCEPT !.pc = "idle", !.view = <<>>]
  /\ UNCHANGED <<launchFailed, interrupted, closing, notified>>

Launcher ==
  \/ Request \/ StartObserver \/ StartWorker \/ Accept \/ Refuse \/ StopObserver
  \/ LauncherKilled
Worker ==
  \/ Register \/ TakeCase \/ Admit \/ Spawn \/ Poll \/ Reap \/ Record \/ Finish
Observer ==
  \/ BeginPass \/ Look \/ Unregistered \/ Interrupt \/ Close \/ ProbeAgain \/ LookAgain
  \/ EndPass \/ Restart
Next ==
  \/ Launcher \/ Begin \/ Worker \/ Observer
  \/ UnitDies \/ WorkerLost \/ ChildWrites \/ ChildExits \/ OrphanEnds \/ ReusePid
  \/ ObserverFails \/ Edit

\* Each process goes on while it is not killed; the deadline ends a case; an
\* orphan ends with its unit's control group; failed observers are restarted.
Spec == Init /\ [][Next]_vars /\ WF_vars(Worker) /\ WF_vars(Observer) /\ WF_vars(OrphanEnds)

(***************************************************************************)
(* Properties.                                                             *)
(***************************************************************************)
\* The receipts of a lost worker are written for a lost worker only: probed
\* first, it can publish nothing afterwards (supervisor.rs:1357-1364).
NoFalseInterrupt ==
  closing # Absent => worker.pc = "lost" /\ terminal = <<>>

\* "Executes exactly once under a persistent authority anchor; never restarts
\* work" (supervisor.rs:923): whoever starts workers, and however often.
NeverReruns == \A c \in Cases : ran[c].times <= 1

\* A run passes only if every case ran to exit 0 on the bound files, unedited
\* from its start to its end, and wrote its artifact (supervisor.rs:786-788).
PassedMeansRan ==
  ReceiptVerdict = "passed" =>
    \A c \in Cases : ran[c].times = 1 /\ ran[c].sound

\* A verdict that was notified is final, unless the launcher, whose systemd-run
\* failed although the unit was started, marks the launch failed.
ReportFinal ==
  [][notified => ReceiptVerdict' = ReceiptVerdict \/ launchFailed']_vars

Watching == observer.pc \in {"idle", "failed"}

\* A worker that is lost, and one that never registered, is reported: by the
\* next pass, whatever fails in it (testing-suite.md:39-51).  A worker lost in
\* the middle of a pass is another matter: see ObserverReports.
LossReported ==
  /\ (started /\ worker.pc = "lost" /\ Watching) ~> Terminal
  /\ (accepted /\ unit = "dead" /\ ~started /\ Watching) ~> (Terminal \/ started)

\* "The observer detects terminal/lost worker on its own" (supervisor.rs:1712).
ObserverReports ==
  (started /\ worker.pc = "lost" /\ observer.pc \notin {"none", "stopped"}) ~> Terminal
=============================================================================
