-------------------------- MODULE SupervisorProofs --------------------------
(***************************************************************************)
(* Theorems of Supervisor for every number of cases, dependencies between  *)
(* them and losses: one worker ever registers, no case is executed twice,  *)
(* nobody writes a lost worker's receipts while a worker may publish, a    *)
(* passed run did run, and what was notified is final.                     *)
(***************************************************************************)
EXTENDS Supervisor, TLAPS

Reasons == {"unsupported", "failed", "none", "exited", "interrupted"}
Results == [reason : Reasons, ok : BOOLEAN]
CasePcs == {"admit", "spawn", "running", "reap", "record"}

AbsentWorkers == [pc : {"none", "ended", "lost"}, failures : 0..MaxFailures]
StartingWorkers ==
  [pc : {"starting"}, own : BOOLEAN, bound : BOOLEAN, failures : 0..MaxFailures]
NextWorkers ==
  [pc : {"next"}, own : BOOLEAN, bound : BOOLEAN, case : 1..(N + 1), failures : 0..MaxFailures]
CaseWorkers ==
  [pc : CasePcs, own : BOOLEAN, bound : BOOLEAN, case : Cases, failures : 0..MaxFailures,
   result : Results, touched : SUBSET {"edited", "moved"}, refreshed : BOOLEAN]

IdleChildren == [state : {"none", "orphan"}]
RunningChildren ==
  [state : {"running"}, code : {"none", "zero", "other"}, clean : BOOLEAN, wrote : BOOLEAN]

TypeInv ==
  /\ worker \in AbsentWorkers \cup StartingWorkers \cup NextWorkers \cup CaseWorkers
  /\ child \in IdleChildren \cup RunningChildren
  /\ started \in BOOLEAN /\ launchFailed \in BOOLEAN /\ notified \in BOOLEAN
  /\ results \in Seq(Results)
  /\ ran \in [Cases -> [times : Nat, sound : BOOLEAN]]
  /\ DOMAIN observer = {"pc", "failures", "view"}

Ahead == {"next", "admit", "spawn"}
Working == {"next"} \cup CasePcs

\* One worker registers, ever; a case it has not come to has not run.
WorkerSafe ==
  /\ worker.pc \in {"none", "starting"} => ~started
  /\ worker.pc \in {"ended"} \cup Working => started
  /\ ~started => results = <<>> /\ \A c \in Cases : ran[c].times = 0
  /\ worker.pc \in Working => worker.case = Len(results) + 1
  /\ worker.pc \in Working =>
       \A c \in Cases :
         c > worker.case \/ (c = worker.case /\ worker.pc \in Ahead) => ran[c].times = 0
  /\ \A c \in Cases : ran[c].times <= 1
  /\ terminal # <<>> <=> worker.pc = "ended"
  /\ worker.pc = "ended" => terminal = results /\ Len(results) = N

\* The child that is looked at ran on the bound files as long as nothing was touched.
ChildSafe ==
  /\ child.state = "running" <=> worker.pc \in {"running", "reap"}
  /\ worker.pc \in {"spawn", "running", "reap"} /\ worker.touched = {} => worker.bound
  /\ worker.pc \in {"running", "reap"} =>
       /\ worker.touched = {} => child.clean
       /\ ran[worker.case].times = 1
  /\ worker.pc \in {"admit", "spawn", "running", "reap"} => ~worker.result.ok

Sound(c) == ran[c].times = 1 /\ ran[c].sound

\* A result that is accepted is the result of a sound execution.
ResultsSafe ==
  /\ \A c \in DOMAIN results : c \in Cases /\ (Accepted(results[c]) => Sound(c))
  /\ worker.pc = "record" /\ Accepted(worker.result) /\ worker.refreshed => Sound(worker.case)

GoneForGood == started /\ worker.pc \in {"lost", "ended"}
LostForGood == started /\ worker.pc = "lost" /\ terminal = <<>>

\* The receipts written in the place of a lost worker's say what its own do.
ReceiptsSafe ==
  /\ closing # Absent => LostForGood
  /\ interrupted # <<>> =>
       /\ LostForGood /\ DOMAIN interrupted = Cases
       /\ \A c \in Cases :
            Accepted(interrupted[c]) => c \in DOMAIN results /\ interrupted[c] = results[c]

\* What the observer goes on with: it probed the worker before it read the rest.
ObserverSafe ==
  /\ observer.pc \in {"look", "look again"} /\ observer.view.started /\ ~observer.view.alive
       => GoneForGood
  /\ observer.pc = "interrupt" => observer.view = results
  /\ observer.pc = "close" => interrupted # <<>>
  /\ observer.pc \in {"interrupt", "close"} => LostForGood /\ closing = Absent
  /\ observer.pc = "end" /\ observer.view.terminal => Terminal
  /\ notified => Terminal

SafetyInv == WorkerSafe /\ ChildSafe /\ ResultsSafe /\ ReceiptsSafe /\ ObserverSafe

WorkersOwn == <<started, results, terminal, worker, child, ran>>

-----------------------------------------------------------------------------

\* The steps that are taken neither by the worker nor against it, its child or
\* the files they read.
Bystander == Launcher \/ Observer \/ UnitDies \/ ReusePid \/ ObserverFails

\* The launcher, the observer and systemd leave what is the worker's alone.
LEMMA BystandersKeep ==
  Bystander => UNCHANGED WorkersOwn
BY DEF Bystander, Launcher, Observer, UnitDies, ReusePid, ObserverFails, Request,
  StartObserver, StartWorker, Accept, Refuse, StopObserver, LauncherKilled, BeginPass, Look,
  Unregistered, Interrupt, Close, ProbeAgain, LookAgain, EndPass, Restart, At, outside,
  WorkersOwn, receipts, others

\* The initial states.
LEMMA InitSafe == Init => TypeInv /\ SafetyInv
<1>1. SUFFICES ASSUME Init PROVE TypeInv /\ SafetyInv
  OBVIOUS
<1>2. 0 \in 0..MaxFailures /\ N \in Nat
  BY SupervisorAssumption
<1>3. TypeInv
  <2>1. worker \in AbsentWorkers /\ child \in IdleChildren
    BY <1>1, <1>2 DEF Init, NoChild, AbsentWorkers, IdleChildren
  <2>2. ran \in [Cases -> [times : Nat, sound : BOOLEAN]]
    BY <1>1 DEF Init
  <2>3. results \in Seq(Results)
    BY <1>1 DEF Init
  <2> QED BY <1>1, <2>1, <2>2, <2>3 DEF Init, TypeInv
<1>4. WorkerSafe /\ ChildSafe /\ ResultsSafe
  BY <1>1 DEF Init, NoChild, WorkerSafe, ChildSafe, ResultsSafe, Working, CasePcs, Cases
<1>5. ReceiptsSafe /\ ObserverSafe
  BY <1>1 DEF Init, ReceiptsSafe, ObserverSafe
<1> QED BY <1>3, <1>4, <1>5 DEF SafetyInv

\* What the worker of each state of its program is.
LEMMA WorkerKinds ==
  ASSUME TypeInv
  PROVE  /\ worker.pc \in {"none", "ended", "lost"} => worker \in AbsentWorkers
         /\ worker.pc = "starting" => worker \in StartingWorkers
         /\ worker.pc = "next" => worker \in NextWorkers
         /\ worker.pc \in CasePcs => worker \in CaseWorkers
         /\ Alive => worker \in StartingWorkers \cup NextWorkers \cup CaseWorkers
         /\ child.state = "running" => child \in RunningChildren
         /\ worker.failures \in 0..MaxFailures
         /\ worker.pc \in {"none", "ended", "lost", "starting", "next"} \cup CasePcs
BY DEF TypeInv, AbsentWorkers, StartingWorkers, NextWorkers, CaseWorkers, CasePcs,
  IdleChildren, RunningChildren, Alive

\* The program of the worker keeps the types.
LEMMA TypeWorker == TypeInv /\ ChildSafe /\ (Begin \/ Worker) => TypeInv'
<1> USE SupervisorAssumption DEF Cases
<1>1. SUFFICES ASSUME TypeInv, ChildSafe, Begin \/ Worker PROVE TypeInv'
  OBVIOUS
<1>2. DOMAIN observer' = DOMAIN observer /\ notified' = notified
  BY <1>1 DEF Begin, Worker, Register, TakeCase, Admit, Spawn, Poll, Reap, Record, Finish, Step,
    others
<1>3. CASE Begin
  <2>1. worker.failures \in 0..MaxFailures
    BY <1>1, WorkerKinds
  <2>2. \A own \in {unit = "live", FALSE}, bound \in BOOLEAN :
          [pc |-> "starting", own |-> own, bound |-> bound, failures |-> worker.failures]
            \in StartingWorkers
    BY <2>1 DEF StartingWorkers
  <2>3. worker' \in StartingWorkers
    BY <1>3, <2>2 DEF Begin
  <2> QED BY <2>3, <1>1, <1>2, <1>3 DEF TypeInv, Begin
<1>4. CASE Register
  <2>1. worker \in StartingWorkers
    BY <1>1, <1>4, WorkerKinds DEF Register
  <2>2. worker' \in NextWorkers \cup AbsentWorkers
    BY <1>4, <2>1 DEF Register, StartingWorkers, NextWorkers, AbsentWorkers, Gone, TakeNext
  <2>3. started' \in BOOLEAN /\ launchFailed' \in BOOLEAN
    BY <1>1, <1>4 DEF Register, TypeInv
  <2> QED BY <2>2, <2>3, <1>1, <1>2, <1>4 DEF TypeInv, Register
<1>5. CASE TakeCase
  <2>1. worker \in NextWorkers /\ worker.case \in Cases
    BY <1>1, <1>5, WorkerKinds DEF TakeCase, Step, NextWorkers
  <2>2. \A skip \in {Skip(worker.case), "failed"} : Result(skip, FALSE) \in Results
    BY DEF Skip, Result, Results, Reasons
  <2>3. worker' \in CaseWorkers
    <3>1. PICK skip \in {Skip(worker.case), "failed"} :
            worker' = [pc |-> IF skip = "none" THEN "admit" ELSE "record",
                       own |-> worker.own, bound |-> worker.bound, case |-> worker.case,
                       failures |-> worker.failures, result |-> Result(skip, FALSE),
                       touched |-> {}, refreshed |-> FALSE]
      BY <1>5 DEF TakeCase
    <3> HIDE DEF Cases
    <3> QED BY <2>1, <2>2, <3>1 DEF NextWorkers, CaseWorkers, CasePcs
  <2> QED BY <2>3, <1>1, <1>2, <1>5 DEF TypeInv, TakeCase, Step
<1>6. CASE Admit \/ Spawn \/ Poll \/ Reap \/ Record
  <2>1. worker \in CaseWorkers
    BY <1>1, <1>6, WorkerKinds DEF Admit, Spawn, Poll, Reap, Record, Step, CasePcs
  <2>2. Result("failed", FALSE) \in Results
    BY DEF Result, Results, Reasons
  <2>3. Rejected(worker) \in CaseWorkers
    BY <2>1, <2>2 DEF Rejected, CaseWorkers, CasePcs
  <2> HIDE DEF Cases
  <2>4. CASE Admit
    <3>1. worker' \in CaseWorkers
      BY <2>1, <2>3, <2>4 DEF Admit, CaseWorkers, CasePcs
    <3> QED BY <3>1, <1>1, <1>2, <2>4 DEF TypeInv, Admit, Step
  <2>5. CASE Spawn
    <3>0. worker.case \in Cases /\ worker.bound \in BOOLEAN
      BY <2>1 DEF CaseWorkers
    <3>5. \/ /\ child' = [state |-> "running", code |-> "none", clean |-> worker.bound,
                          wrote |-> FALSE]
             /\ ran' = [ran EXCEPT ![worker.case].times = @ + 1]
          \/ UNCHANGED <<child, ran>>
      BY <2>5, Zenon DEF Spawn
    <3>1. worker' \in CaseWorkers
      BY <2>1, <2>3, <2>5 DEF Spawn, CaseWorkers, CasePcs
    <3>2. child' \in IdleChildren \cup RunningChildren
      <4>1. [state |-> "running", code |-> "none", clean |-> worker.bound, wrote |-> FALSE]
              \in RunningChildren
        BY <3>0 DEF RunningChildren
      <4> QED BY <1>1, <3>5, <4>1 DEF TypeInv
    <3>3. ran' \in [Cases -> [times : Nat, sound : BOOLEAN]]
      <4>1. ran \in [Cases -> [times : Nat, sound : BOOLEAN]]
        BY <1>1 DEF TypeInv
      <4>2. [ran[worker.case] EXCEPT !.times = @ + 1] \in [times : Nat, sound : BOOLEAN]
        BY <3>0, <4>1
      <4>3. CASE ran' = [ran EXCEPT ![worker.case].times = @ + 1]
        BY <3>0, <4>1, <4>2, <4>3
      <4> QED BY <3>5, <4>1, <4>3
    <3> QED BY <3>1, <3>2, <3>3, <1>1, <1>2, <2>5 DEF TypeInv, Spawn, Step
  <2>6. CASE Poll
    <3>1. worker' \in CaseWorkers
      <4>1. [worker.result EXCEPT !.reason = "exited"] \in Results
            /\ [worker.result EXCEPT !.reason = "failed"] \in Results
        BY <2>1 DEF CaseWorkers, Results, Reasons
      <4>2. PICK r \in Results : worker' = [worker EXCEPT !.pc = "reap", !.result = r]
        BY <4>1, <2>1, <2>6 DEF Poll, CaseWorkers
      <4> QED BY <4>2, <2>1 DEF CaseWorkers, CasePcs
    <3> QED BY <3>1, <1>1, <1>2, <2>6 DEF TypeInv, Poll, Step
  <2>7. CASE Reap
    <3>1. child \in RunningChildren
      BY <1>1, <2>7, WorkerKinds DEF ChildSafe, Reap, Step
    <3>2. worker' \in CaseWorkers
      <4> DEFINE ok == child.code = "zero" /\ ValidSpec /\ Continuous
      <4>1. [worker.result EXCEPT !.ok = ok] \in Results
        BY <2>1 DEF CaseWorkers, Results
      <4>2. worker' = [worker EXCEPT !.pc = "record",
                                     !.result = [worker.result EXCEPT !.ok = ok],
                                     !.refreshed = child.wrote]
        BY <2>1, <2>7 DEF Reap, CaseWorkers
      <4> HIDE DEF ok
      <4> QED BY <2>1, <3>1, <4>1, <4>2 DEF CaseWorkers, CasePcs, RunningChildren
    <3>3. ran' \in [Cases -> [times : Nat, sound : BOOLEAN]]
      <4> DEFINE sound == child.code = "zero" /\ child.clean /\ child.wrote
      <4>1. ran \in [Cases -> [times : Nat, sound : BOOLEAN]] /\ worker.case \in Cases
        BY <1>1, <2>1 DEF TypeInv, CaseWorkers
      <4>2. [ran[worker.case] EXCEPT !.sound = sound] \in [times : Nat, sound : BOOLEAN]
        BY <4>1
      <4>3. ran' = [ran EXCEPT ![worker.case] = [@ EXCEPT !.sound = sound]]
        BY <2>7 DEF Reap
      <4> HIDE DEF sound
      <4> QED BY <4>1, <4>2, <4>3
    <3>4. child' \in IdleChildren
      BY <2>7 DEF Reap, NoChild, IdleChildren
    <3> QED BY <3>2, <3>3, <3>4, <1>1, <1>2, <2>7 DEF TypeInv, Reap, Step
  <2>8. CASE Record
    <3>1. [worker.result EXCEPT !.ok = @ /\ Refreshed] \in Results
      BY <2>1 DEF CaseWorkers, Results
    <3>2. results' \in Seq(Results)
      BY <3>1, <1>1, <2>8 DEF Record, TypeInv
    <3>3. worker' \in NextWorkers
      BY <2>1, <2>8 DEF Record, CaseWorkers, NextWorkers, TakeNext, Cases
    <3> QED BY <3>2, <3>3, <1>1, <1>2, <2>8 DEF TypeInv, Record, Step
  <2> QED BY <1>6, <2>4, <2>5, <2>6, <2>7, <2>8
<1>7. CASE Finish
  <2>1. worker' \in AbsentWorkers
    BY <1>1, <1>7, WorkerKinds DEF Finish, Gone, AbsentWorkers
  <2> QED BY <2>1, <1>1, <1>2, <1>7 DEF TypeInv, Finish, others
<1> QED BY <1>1, <1>3, <1>4, <1>5, <1>6, <1>7 DEF Worker

\* What happens to the worker, its child and the files they read.
Disturbance == Edit \/ WorkerLost \/ ChildWrites \/ ChildExits \/ OrphanEnds

\* Case edits and the deaths of the worker and its child keep the types.
LEMMA TypeDisturbed == TypeInv /\ Disturbance => TypeInv'
<1> USE SupervisorAssumption
<1>1. SUFFICES ASSUME TypeInv, Disturbance PROVE TypeInv'
  OBVIOUS
<1>2. UNCHANGED <<started, results, ran, observer, notified, launchFailed>>
  BY <1>1 DEF Disturbance, Edit, WorkerLost, ChildWrites, ChildExits, OrphanEnds, others,
    receipts
<1>3. CASE Edit
  <2>1. worker' \in StartingWorkers \cup NextWorkers \cup CaseWorkers
    <3>1. worker \in StartingWorkers \cup NextWorkers \cup CaseWorkers
      BY <1>1, <1>3, WorkerKinds DEF Edit
    <3>2. Examining => worker \in CaseWorkers
      BY <1>1, WorkerKinds DEF Examining, CasePcs
    <3>3. [worker EXCEPT !.bound = ~@] \in StartingWorkers \cup NextWorkers \cup CaseWorkers
      BY <3>1 DEF StartingWorkers, NextWorkers, CaseWorkers
    <3>4. ASSUME Examining, NEW kind \in {"edited", "moved"}
          PROVE  [worker EXCEPT !.bound = ~@, !.touched = {kind}] \in CaseWorkers
      BY <3>2, <3>4 DEF CaseWorkers
    <3> QED BY <1>3, <3>3, <3>4 DEF Edit
  <2>2. child' \in IdleChildren \cup RunningChildren
    <3>1. child.state = "running" => [child EXCEPT !.clean = FALSE] \in RunningChildren
      BY <1>1, WorkerKinds DEF RunningChildren
    <3> QED BY <1>1, <1>3, <3>1 DEF Edit, TypeInv
  <2> QED BY <1>1, <1>2, <2>1, <2>2 DEF TypeInv
<1>4. CASE WorkerLost
  <2>1. worker' \in AbsentWorkers
    BY <1>1, <1>4, WorkerKinds DEF WorkerLost, AbsentWorkers
  <2>2. child' \in IdleChildren
    BY <1>4 DEF WorkerLost, IdleChildren, NoChild
  <2> QED BY <1>1, <1>2, <2>1, <2>2 DEF TypeInv
<1>5. CASE ChildWrites \/ ChildExits \/ OrphanEnds
  <2>1. child' \in IdleChildren \cup RunningChildren
    <3>1. child.state = "running" =>
            /\ [child EXCEPT !.wrote = TRUE] \in RunningChildren
            /\ \A code \in {"zero", "other"} : [child EXCEPT !.code = code] \in RunningChildren
      BY <1>1, WorkerKinds DEF RunningChildren
    <3>2. NoChild \in IdleChildren
      BY DEF NoChild, IdleChildren
    <3> QED BY <1>5, <3>1, <3>2 DEF ChildWrites, ChildExits, OrphanEnds
  <2>2. worker' = worker
    BY <1>5 DEF ChildWrites, ChildExits, OrphanEnds
  <2> QED BY <1>1, <1>2, <2>1, <2>2 DEF TypeInv
<1> QED BY <1>1, <1>3, <1>4, <1>5 DEF Disturbance

\* Everybody else keeps them too.
LEMMA TypeBystanders == TypeInv /\ Bystander => TypeInv'
<1>1. SUFFICES ASSUME TypeInv, Bystander PROVE TypeInv'
  OBVIOUS
<1>2. UNCHANGED WorkersOwn
  BY <1>1, BystandersKeep
<1>3. launchFailed' \in BOOLEAN /\ notified' \in BOOLEAN
      /\ DOMAIN observer' = {"pc", "failures", "view"}
  BY <1>1 DEF TypeInv, Bystander, Launcher, Observer, UnitDies, ReusePid, ObserverFails,
    Request, StartObserver, StartWorker, Accept, Refuse, StopObserver, LauncherKilled,
    BeginPass, Look, Unregistered, Interrupt, Close, ProbeAgain, LookAgain, EndPass, Restart,
    At, receipts, others, Probe, Goto
<1> QED BY <1>1, <1>2, <1>3 DEF TypeInv, WorkersOwn

\* The three kinds of steps.
LEMMA NextSplit == [Next]_vars => \/ Begin \/ Worker
                                  \/ Disturbance
                                  \/ Bystander
                                  \/ UNCHANGED vars
BY DEF Next, Disturbance, Bystander

\* Every step keeps the types; ChildSafe says on which case a child works.
LEMMA TypeNext == TypeInv /\ ChildSafe /\ [Next]_vars => TypeInv'
<1>1. TypeInv /\ UNCHANGED vars => TypeInv'
  BY DEF TypeInv, vars, receipts
<1> QED BY <1>1, TypeWorker, TypeDisturbed, TypeBystanders, NextSplit

-----------------------------------------------------------------------------

\* A registered worker that is gone stays so, and what it left stays as it was:
\* nobody registers after it.
LEMMA GoneStays ==
  TypeInv /\ GoneForGood /\ [Next]_vars =>
    UNCHANGED <<started, results, terminal, worker, ran>>
<1>1. SUFFICES ASSUME TypeInv, GoneForGood, [Next]_vars
               PROVE  UNCHANGED <<started, results, terminal, worker, ran>>
  OBVIOUS
<1>2. ~Begin /\ ~Worker /\ ~Edit /\ ~WorkerLost
  BY <1>1 DEF GoneForGood, Alive, Begin, MayBegin, Worker, Register, TakeCase, Admit, Spawn,
    Poll, Reap, Record, Finish, Step, Edit, WorkerLost
<1>3. CASE Disturbance
  BY <1>2, <1>3 DEF Disturbance, ChildWrites, ChildExits, OrphanEnds
<1>4. CASE Bystander
  BY <1>4, BystandersKeep DEF WorkersOwn
<1>5. CASE UNCHANGED vars
  BY <1>5 DEF vars, receipts
<1> QED BY <1>1, <1>2, <1>3, <1>4, <1>5, NextSplit

\* One worker registers, and executes each case at most once, in turn.
LEMMA WorkerSafeNext ==
  TypeInv /\ WorkerSafe /\ ChildSafe /\ [Next]_vars => WorkerSafe'
<1> USE SupervisorAssumption
<1>1. SUFFICES ASSUME TypeInv, WorkerSafe, ChildSafe, [Next]_vars PROVE WorkerSafe'
  OBVIOUS
<1>2. CASE Begin
  BY <1>1, <1>2 DEF WorkerSafe, Begin, MayBegin, LockHeld, Alive, Working, CasePcs, others
<1>3. CASE Register
  BY <1>1, <1>3 DEF WorkerSafe, Register, Gone, TakeNext, Working, CasePcs, Ahead, others
<1>4. CASE TakeCase
  BY <1>1, <1>4 DEF WorkerSafe, TakeCase, Step, Working, CasePcs, Ahead, others
<1>5. CASE Admit
  BY <1>1, <1>5 DEF WorkerSafe, Admit, Step, Working, CasePcs, Ahead, others, Rejected
<1>6. CASE Spawn
  <2>1. /\ worker.pc = "spawn" /\ UNCHANGED <<started, results, terminal>>
        /\ \/ worker' = [worker EXCEPT !.pc = "running"]
           \/ worker' = Rejected(worker) /\ UNCHANGED <<child, ran>>
    <3>1. worker.pc = "spawn" /\ UNCHANGED <<started, results, terminal>>
      BY <1>6 DEF Spawn, Step
    <3>2. \/ worker' = [worker EXCEPT !.pc = "running"]
          \/ worker' = Rejected(worker) /\ UNCHANGED <<child, ran>>
      BY <1>6, Zenon DEF Spawn
    <3> QED BY <3>1, <3>2
  <2>2. worker \in CaseWorkers
    BY <1>1, <2>1, WorkerKinds DEF CasePcs
  <2>3. worker'.case = worker.case /\ worker'.pc \in {"running", "record"}
    BY <2>1, <2>2 DEF Rejected, CaseWorkers
  <2>4. \A c \in Cases : ran'[c].times = IF ran' # ran /\ c = worker.case
                                         THEN ran[c].times + 1 ELSE ran[c].times
    <3>1. ran \in [Cases -> [times : Nat, sound : BOOLEAN]] /\ worker.case \in Cases
      BY <1>1, <2>2 DEF TypeInv, CaseWorkers
    <3>2. CASE ran' = ran
      BY <3>2
    <3>3. CASE ran' = [ran EXCEPT ![worker.case].times = @ + 1]
      BY <3>1, <3>3
    <3>4. ran' = ran \/ ran' = [ran EXCEPT ![worker.case].times = @ + 1]
      BY <1>6, Zenon DEF Spawn
    <3> QED BY <3>2, <3>3, <3>4
  <2>5. \A c \in Cases : c > worker.case => ran'[c].times = 0
    BY <1>1, <2>1, <2>2, <2>4 DEF WorkerSafe, Working, CasePcs, CaseWorkers, Cases
  <2>6. \A c \in Cases : ran'[c].times <= 1
    BY <1>1, <2>1, <2>4 DEF WorkerSafe, Working, CasePcs, Ahead
  <2> QED BY <1>1, <2>1, <2>3, <2>5, <2>6 DEF WorkerSafe, Working, CasePcs, Ahead
<1>7. CASE Poll
  BY <1>1, <1>7 DEF WorkerSafe, Poll, Step, Working, CasePcs, Ahead, others
<1>8. CASE Reap
  BY <1>1, <1>8 DEF WorkerSafe, Reap, Step, Working, CasePcs, Ahead, others
<1>9. CASE Record
  <2>1. worker.pc = "record" /\ worker.case = Len(results) + 1 /\ worker.case \in Cases
    BY <1>1, <1>9, WorkerKinds DEF WorkerSafe, Record, Step, Working, CasePcs, CaseWorkers
  <2>2. Len(results') = Len(results) + 1
    BY <1>1, <1>9 DEF Record, TypeInv
  <2>3. worker'.pc = "next" /\ worker'.case = worker.case + 1
        /\ UNCHANGED <<started, terminal, ran>>
    BY <1>9 DEF Record, TakeNext, Step
  <2>4. \A c \in Cases : c >= worker'.case => ran[c].times = 0
    BY <1>1, <2>1, <2>3 DEF WorkerSafe, Working, CasePcs, Cases
  <2> QED BY <1>1, <2>1, <2>2, <2>3, <2>4 DEF WorkerSafe, Working, CasePcs, Ahead, Cases
<1>10. CASE Finish
  <2>1. worker.case \in 1..(N + 1) /\ worker.case = Len(results) + 1 /\ worker.case > N
    BY <1>1, <1>10, WorkerKinds DEF WorkerSafe, Finish, Working, NextWorkers
  <2>2. Len(results) = N /\ results # <<>>
    BY <1>1, <2>1 DEF TypeInv
  <2> QED BY <1>1, <1>10, <2>2 DEF WorkerSafe, Finish, Working, CasePcs, Ahead, others, Gone
<1>11. CASE Edit
  BY <1>1, <1>11 DEF WorkerSafe, Edit, Working, CasePcs, Ahead, receipts
<1>12. CASE WorkerLost
  BY <1>1, <1>12 DEF WorkerSafe, WorkerLost, Alive, Working, CasePcs, Ahead, others
<1>13. CASE UNCHANGED WorkersOwn
  BY <1>1, <1>13 DEF WorkerSafe, WorkersOwn, Working, CasePcs, Ahead
<1>14. CASE ChildWrites \/ ChildExits \/ OrphanEnds
  BY <1>1, <1>14 DEF WorkerSafe, ChildWrites, ChildExits, OrphanEnds, others
<1>15. UNCHANGED vars => UNCHANGED WorkersOwn
  BY DEF vars, receipts, WorkersOwn
<1> QED BY <1>1, <1>2, <1>3, <1>4, <1>5, <1>6, <1>7, <1>8, <1>9, <1>10, <1>11, <1>12, <1>13,
           <1>14, <1>15, NextSplit, BystandersKeep DEF Worker, Disturbance

\* An execution is watched from before its start to after its end.
LEMMA ChildSafeNext ==
  TypeInv /\ WorkerSafe /\ ChildSafe /\ [Next]_vars => ChildSafe'
<1> USE SupervisorAssumption
<1>1. SUFFICES ASSUME TypeInv, WorkerSafe, ChildSafe, [Next]_vars PROVE ChildSafe'
  OBVIOUS
<1>a. worker.pc \in CasePcs => worker \in CaseWorkers
  BY <1>1, WorkerKinds
<1>2. CASE Begin
  BY <1>1, <1>2 DEF ChildSafe, Begin, LockHeld, Alive
<1>3. CASE Register \/ Record \/ Finish
  BY <1>1, <1>3 DEF ChildSafe, Register, Record, Step, Finish, Gone, TakeNext
<1>4. CASE TakeCase
  BY <1>1, <1>4 DEF ChildSafe, TakeCase, Step, Result
<1>5. CASE Admit
  BY <1>1, <1>a, <1>5 DEF ChildSafe, Admit, Step, Rejected, ValidSpec, Continuous, CasePcs,
    CaseWorkers, Results, Result
<1>6. CASE Spawn
  <2>1. worker.pc = "spawn" /\ worker \in CaseWorkers
    BY <1>a, <1>6 DEF Spawn, Step, CasePcs
  <2>2. CASE worker' = Rejected(worker) /\ UNCHANGED <<child, ran>>
    BY <1>1, <2>1, <2>2 DEF ChildSafe, Rejected, Result, CaseWorkers
  <2>3. CASE /\ child' = [state |-> "running", code |-> "none", clean |-> worker.bound,
                          wrote |-> FALSE]
             /\ ran' = [ran EXCEPT ![worker.case].times = @ + 1]
             /\ worker' = [worker EXCEPT !.pc = "running"]
    <3>1. /\ worker'.pc = "running" /\ worker'.touched = worker.touched
          /\ worker'.bound = worker.bound /\ worker'.result = worker.result
          /\ worker'.case = worker.case
      BY <2>1, <2>3 DEF CaseWorkers
    <3>2. ran[worker.case].times = 0
      BY <1>1, <2>1 DEF WorkerSafe, Working, CasePcs, Ahead, CaseWorkers, Cases
    <3>3. ran'[worker.case].times = 1
      BY <1>1, <2>1, <2>3, <3>2 DEF TypeInv, CaseWorkers
    <3>4. child'.state = "running" /\ child'.clean = worker.bound
      BY <2>3
    <3> QED BY <1>1, <2>1, <3>1, <3>3, <3>4 DEF ChildSafe
  <2> QED BY <1>6, <2>2, <2>3, Zenon DEF Spawn
<1>7. CASE Poll
  BY <1>1, <1>a, <1>7 DEF ChildSafe, Poll, Step, CaseWorkers, CasePcs, Results
<1>8. CASE Reap
  BY <1>1, <1>a, <1>8 DEF ChildSafe, Reap, Step, CaseWorkers, CasePcs, NoChild
<1>9. CASE Edit
  <2>1. worker \in StartingWorkers \cup NextWorkers \cup CaseWorkers
    BY <1>1, <1>9, WorkerKinds DEF Edit
  <2>2. worker'.pc = worker.pc
    BY <1>9, <2>1 DEF Edit, StartingWorkers, NextWorkers, CaseWorkers
  <2>3. worker.pc \in CasePcs => /\ worker'.result = worker.result /\ worker'.case = worker.case
                                 /\ Examining => worker'.touched # {}
    BY <1>a, <1>9 DEF Edit, CaseWorkers
  <2>4. child'.state = child.state /\ ran' = ran
    BY <1>1, <1>9, WorkerKinds DEF Edit, RunningChildren
  <2> QED BY <1>1, <2>2, <2>3, <2>4 DEF ChildSafe, Examining, CasePcs
<1>10. CASE WorkerLost
  BY <1>1, <1>10 DEF ChildSafe, WorkerLost, NoChild
<1>11. CASE ChildWrites \/ ChildExits \/ OrphanEnds
  BY <1>1, <1>11, WorkerKinds DEF ChildSafe, ChildWrites, ChildExits, OrphanEnds,
    RunningChildren, NoChild
<1>12. CASE UNCHANGED WorkersOwn
  BY <1>1, <1>12 DEF ChildSafe, WorkersOwn
<1>13. UNCHANGED vars => UNCHANGED WorkersOwn
  BY DEF vars, receipts, WorkersOwn
<1> QED BY <1>1, <1>2, <1>3, <1>4, <1>5, <1>6, <1>7, <1>8, <1>9, <1>10, <1>11, <1>12, <1>13,
           NextSplit, BystandersKeep DEF Worker, Disturbance

\* What is accepted was executed soundly, and no execution is made over.
LEMMA ResultsSafeNext ==
  TypeInv /\ WorkerSafe /\ ChildSafe /\ ResultsSafe /\ [Next]_vars => ResultsSafe'
<1> USE SupervisorAssumption
<1>1. SUFFICES ASSUME TypeInv, WorkerSafe, ChildSafe, ResultsSafe, [Next]_vars
               PROVE  ResultsSafe'
  OBVIOUS
<1>a. worker.pc \in CasePcs => worker \in CaseWorkers
  BY <1>1, WorkerKinds
<1>b. worker.pc \in CasePcs => worker.case \notin DOMAIN results
  BY <1>1, <1>a DEF WorkerSafe, Working, TypeInv
<1>2. CASE Begin \/ Register \/ Finish
  BY <1>1, <1>2 DEF ResultsSafe, Sound, Begin, Register, Finish, Gone, TakeNext
<1>4. CASE TakeCase
  BY <1>1, <1>4 DEF ResultsSafe, Sound, TakeCase, Step, Result, Accepted
<1>5. CASE Admit
  BY <1>1, <1>a, <1>5 DEF ResultsSafe, Sound, Admit, Step, Rejected, CasePcs,
    CaseWorkers, Results, Result, Accepted
<1>6. CASE Spawn
  <2>1. worker.pc = "spawn" /\ worker \in CaseWorkers /\ results' = results
    BY <1>a, <1>6 DEF Spawn, Step, CasePcs
  <2>2. CASE worker' = Rejected(worker) /\ UNCHANGED <<child, ran>>
    BY <1>1, <2>1, <2>2 DEF ResultsSafe, Sound, Rejected, Result, CaseWorkers, Accepted
  <2>3. CASE /\ ran' = [ran EXCEPT ![worker.case].times = @ + 1]
             /\ worker' = [worker EXCEPT !.pc = "running"]
    <3>1. worker'.pc = "running"
      BY <2>1, <2>3 DEF CaseWorkers
    <3>2. \A c \in Cases : c # worker.case => ran'[c] = ran[c]
      BY <1>1, <2>3 DEF TypeInv
    <3> QED BY <1>1, <1>b, <2>1, <3>1, <3>2 DEF ResultsSafe, Sound, CasePcs
  <2> QED BY <1>6, <2>2, <2>3, Zenon DEF Spawn
<1>7. CASE Poll
  BY <1>1, <1>a, <1>7 DEF ResultsSafe, Sound, Poll, Step, CaseWorkers, CasePcs
<1>8. CASE Reap
  <2> DEFINE ok == child.code = "zero" /\ ValidSpec /\ Continuous
             sound == child.code = "zero" /\ child.clean /\ child.wrote
  <2>1. worker.pc = "reap" /\ worker \in CaseWorkers /\ results' = results
    BY <1>a, <1>8 DEF Reap, Step, CasePcs
  <2>2. worker' = [worker EXCEPT !.pc = "record", !.result = [worker.result EXCEPT !.ok = ok],
                                 !.refreshed = child.wrote]
    BY <1>8, <2>1 DEF Reap, CaseWorkers
  <2>3. ran' = [ran EXCEPT ![worker.case] = [ran[worker.case] EXCEPT !.sound = sound]]
    BY <1>8 DEF Reap
  <2>4. ok /\ child.wrote => sound
    BY <1>1, <2>1 DEF ChildSafe, Continuous
  <2>5. ran[worker.case].times = 1
    BY <1>1, <2>1 DEF ChildSafe
  <2> HIDE DEF ok, sound
  <2>6. \A c \in Cases : c # worker.case => ran'[c] = ran[c]
    BY <1>1, <2>3 DEF TypeInv
  <2>7. worker'.case = worker.case /\ worker'.refreshed = child.wrote /\ worker'.result.ok = ok
    BY <2>1, <2>2 DEF CaseWorkers, Results
  <2>8. ran'[worker.case].times = 1 /\ ran'[worker.case].sound = sound
    BY <1>1, <2>1, <2>3, <2>5 DEF TypeInv, CaseWorkers
  <2> QED BY <1>1, <1>b, <2>1, <2>4, <2>6, <2>7, <2>8
          DEF ResultsSafe, Sound, CasePcs, Accepted
<1>9. CASE Record
  <2>1. worker.pc = "record" /\ worker \in CaseWorkers /\ worker.case = Len(results) + 1
    BY <1>1, <1>a, <1>9 DEF Record, Step, CasePcs, WorkerSafe, Working
  <2> DEFINE added == [worker.result EXCEPT !.ok = @ /\ Refreshed]
  <2>2. results' = Append(results, added) /\ added \in Results /\ ran' = ran
        /\ worker'.pc = "next"
    BY <1>9, <2>1 DEF Record, CaseWorkers, Results, TakeNext
  <2>3. Accepted(added) => Sound(worker.case)
    BY <1>1, <2>1 DEF ResultsSafe, Accepted, Refreshed, CaseWorkers, Results
  <2> HIDE DEF added
  <2>4. /\ DOMAIN results' = 1..worker.case /\ results'[worker.case] = added
        /\ \A c \in DOMAIN results : results'[c] = results[c]
        /\ DOMAIN results = 1..(worker.case - 1)
    BY <1>1, <2>1, <2>2 DEF TypeInv
  <2>5. \A c \in DOMAIN results' : c = worker.case \/ c \in DOMAIN results
    BY <1>1, <2>1, <2>4 DEF TypeInv, CaseWorkers, Cases
  <2> QED BY <1>1, <2>1, <2>2, <2>3, <2>4, <2>5 DEF ResultsSafe, Sound, CaseWorkers
<1>10. CASE Edit
  BY <1>1, <1>10, WorkerKinds DEF ResultsSafe, Sound, Edit, Examining, CaseWorkers, CasePcs,
    StartingWorkers, NextWorkers, receipts
<1>11. CASE WorkerLost
  BY <1>1, <1>11 DEF ResultsSafe, Sound, WorkerLost
<1>12. CASE ChildWrites \/ ChildExits \/ OrphanEnds
  BY <1>1, <1>12 DEF ResultsSafe, Sound, ChildWrites, ChildExits, OrphanEnds
<1>13. CASE UNCHANGED WorkersOwn
  BY <1>1, <1>13 DEF ResultsSafe, Sound, WorkersOwn
<1>14. UNCHANGED vars => UNCHANGED WorkersOwn
  BY DEF vars, receipts, WorkersOwn
<1> QED BY <1>1, <1>2, <1>4, <1>5, <1>6, <1>7, <1>8, <1>9, <1>10, <1>11, <1>12, <1>13, <1>14,
           NextSplit, BystandersKeep DEF Worker, Disturbance

-----------------------------------------------------------------------------

\* The receipts that decide a verdict.
Deciding == <<results, terminal, interrupted, closing>>

\* The steps of the observer that write a lost worker's receipts; every other
\* step leaves them alone.
LEMMA OnlyTheObserverCloses ==
  [Next]_vars =>
    /\ interrupted' = interrupted \/ Interrupt
    /\ closing' = closing \/ Close
<1> DEFINE Kept == UNCHANGED <<interrupted, closing>>
<1>1. Begin \/ Worker => Kept
  BY DEF Begin, Worker, Register, TakeCase, Admit, Spawn, Poll, Reap, Record, Finish, Step,
    others
<1>2. Disturbance => Kept
  BY DEF Disturbance, WorkerLost, ChildWrites, ChildExits, OrphanEnds, Edit, receipts, others
<1>3. Launcher \/ UnitDies \/ ReusePid => Kept
  BY DEF Launcher, UnitDies, ReusePid, Request, StartObserver, StartWorker, Accept, Refuse,
    StopObserver, LauncherKilled, receipts, others
<1>4. Observer \/ ObserverFails => Kept \/ Interrupt \/ Close
  BY DEF Observer, ObserverFails, BeginPass, Look, Unregistered, ProbeAgain, LookAgain, EndPass,
    Restart
<1>5. UNCHANGED vars => Kept
  BY DEF vars, receipts
<1>6. Interrupt => closing' = closing
  BY DEF Interrupt
<1>7. Close => interrupted' = interrupted
  BY DEF Close
<1> QED BY <1>1, <1>2, <1>3, <1>4, <1>5, <1>6, <1>7, NextSplit DEF Bystander

\* A failed launch stays failed.
LEMMA LaunchFailedStays == launchFailed /\ [Next]_vars => launchFailed'
BY DEF Next, vars, Launcher, Worker, Observer, UnitDies, ReusePid, ObserverFails, Request,
  StartObserver, StartWorker, Accept, Refuse, StopObserver, LauncherKilled, BeginPass, Look,
  Unregistered, Interrupt, Close, ProbeAgain, LookAgain, EndPass, Restart, Begin, Register,
  TakeCase, Admit, Spawn, Poll, Reap, Record, Finish, Step, WorkerLost, ChildWrites,
  ChildExits, OrphanEnds, Edit, At, receipts, others, outside

\* Once the worker's receipts are sealed, by itself or in its place, they stay.
LEMMA SealedStays ==
  TypeInv /\ SafetyInv /\ (terminal # <<>> \/ Interrupted) /\ [Next]_vars =>
    UNCHANGED Deciding
<1>1. SUFFICES ASSUME TypeInv, SafetyInv, terminal # <<>> \/ Interrupted, [Next]_vars
               PROVE  UNCHANGED Deciding
  OBVIOUS
<1>2. GoneForGood
  BY <1>1 DEF SafetyInv, WorkerSafe, ReceiptsSafe, Interrupted, GoneForGood, LostForGood
<1>3. UNCHANGED <<results, terminal>>
  BY <1>1, <1>2, GoneStays
<1>4. ~Interrupt /\ ~Close
  BY <1>1 DEF SafetyInv, ObserverSafe, Interrupt, Close, At, LostForGood, Interrupted
<1> QED BY <1>1, <1>3, <1>4, OnlyTheObserverCloses DEF Deciding

\* A receipt of the end, or a loss being written, is not taken back.
LEMMA TerminalStays == TypeInv /\ SafetyInv /\ Terminal /\ [Next]_vars => Terminal'
BY SealedStays, LaunchFailedStays DEF Terminal, Interrupted, Deciding

\* What an observer's look goes by.
LEMMA SeenFields == /\ Seen.started = observer.view.started
                    /\ Seen.alive = observer.view.alive
                    /\ Seen.terminal = Terminal
                    /\ Seen.results = IF Interrupted THEN interrupted ELSE results
BY DEF Seen, Probed, Observed

\* A look records what was started and alive when it looked.
LEMMA ProbeSees ==
  ASSUME NEW pc, Probe(pc), TypeInv
  PROVE  /\ observer'.pc = pc /\ observer'.view.started = started
         /\ observer'.view.alive = (started /\ Alive)
<1>1. DOMAIN observer = {"pc", "failures", "view"}
  BY DEF TypeInv
<1>2. observer'.pc = pc /\ observer'.view = [f \in Probed |-> Observed[f]]
  BY <1>1 DEF Probe
<1> QED BY <1>2 DEF Probed, Observed, WorkerAlive

\* Nothing is written for a worker that may still publish.
LEMMA ReceiptsSafeNext == TypeInv /\ SafetyInv /\ [Next]_vars => ReceiptsSafe'
<1>1. SUFFICES ASSUME TypeInv, SafetyInv, [Next]_vars PROVE ReceiptsSafe'
  OBVIOUS
<1>2. LostForGood => LostForGood' /\ results' = results
  BY <1>1, GoneStays DEF GoneForGood, LostForGood
<1>3. CASE interrupted' = interrupted /\ closing' = closing
  BY <1>1, <1>2, <1>3 DEF SafetyInv, ReceiptsSafe
<1>4. CASE Interrupt
  <2>1. LostForGood /\ closing' = Absent /\ observer.view = results
    BY <1>1, <1>4 DEF SafetyInv, ObserverSafe, Interrupt, At
  <2>2. interrupted' = [c \in Cases |-> IF c <= Len(results) THEN results[c]
                                         ELSE Result("interrupted", FALSE)]
    BY <1>4, <2>1 DEF Interrupt
  <2>3. \A c \in Cases : Accepted(interrupted'[c]) =>
                           c \in DOMAIN results /\ interrupted'[c] = results[c]
    BY <1>1, <2>2, SupervisorAssumption DEF Accepted, Result, TypeInv, Cases
  <2> QED BY <1>2, <2>1, <2>2, <2>3 DEF ReceiptsSafe
<1>5. CASE Close
  <2>1. LostForGood /\ interrupted' = interrupted
    BY <1>1, <1>5 DEF SafetyInv, ObserverSafe, Close, At
  <2> QED BY <1>1, <1>2, <2>1 DEF SafetyInv, ReceiptsSafe
<1> QED BY <1>1, <1>3, <1>4, <1>5, OnlyTheObserverCloses DEF Interrupt, Close

\* The observer probes the worker before it reads the rest, and goes on only
\* with the receipts of one that is gone.
LEMMA ObserverSafeNext == TypeInv /\ SafetyInv /\ [Next]_vars => ObserverSafe'
<1>1. SUFFICES ASSUME TypeInv, SafetyInv, [Next]_vars PROVE ObserverSafe'
  OBVIOUS
<1>2. LostForGood => LostForGood' /\ results' = results
  BY <1>1, GoneStays DEF GoneForGood, LostForGood
<1>3. GoneForGood => GoneForGood'
  BY <1>1, GoneStays DEF GoneForGood
<1>4. Terminal => Terminal'
  BY <1>1, TerminalStays
<1>5. DOMAIN observer = {"pc", "failures", "view"}
  BY <1>1 DEF TypeInv
<1>6. CASE BeginPass \/ ProbeAgain
  <2>1. \E pc \in {"look", "look again"} : Probe(pc)
    BY <1>6 DEF BeginPass, ProbeAgain
  <2>2. UNCHANGED <<started, worker, notified>>
    BY <1>6 DEF BeginPass, ProbeAgain, At, outside
  <2>3. observer'.pc \in {"look", "look again"} /\ observer'.view.started = started
        /\ observer'.view.alive = (started /\ Alive)
    BY <1>1, <2>1, ProbeSees
  <2>4. started /\ ~Alive => GoneForGood
    BY <1>1 DEF SafetyInv, WorkerSafe, Alive, GoneForGood
  <2> QED BY <1>1, <1>4, <2>2, <2>3, <2>4 DEF SafetyInv, ObserverSafe, GoneForGood
<1>7. CASE Look
  <2> DEFINE lost == ~Seen.terminal /\ Seen.started /\ ~Seen.alive
  <2>1. observer.pc = "look" /\ UNCHANGED <<results, terminal, started, worker>>
        /\ UNCHANGED <<closing, interrupted, notified>>
    BY <1>7 DEF Look, At, outside
  <2>2. lost => GoneForGood /\ ~Terminal /\ Seen.results = results
    BY <1>1, <2>1, SeenFields DEF SafetyInv, ObserverSafe, Terminal
  <2>3. lost => LostForGood /\ closing = Absent
    BY <1>1, <2>2 DEF SafetyInv, WorkerSafe, GoneForGood, LostForGood, Terminal, Interrupted
  <2>4. /\ observer'.pc = CASE lost -> "interrupt"
                            [] ~Seen.terminal /\ ~Seen.started -> "unregistered"
                            [] OTHER -> "again"
        /\ observer'.view = IF lost THEN Seen.results ELSE <<>>
    BY <1>5, <1>7 DEF Look
  <2> HIDE DEF lost
  <2>5. observer'.pc \in {"interrupt", "unregistered", "again"}
        /\ observer'.pc = "interrupt" => lost
    BY <2>4
  <2> QED BY <1>1, <1>2, <1>4, <2>1, <2>2, <2>3, <2>4, <2>5 DEF SafetyInv, ObserverSafe
<1>8. CASE Interrupt
  <2>1. observer.pc = "interrupt" /\ observer'.pc = "close" /\ UNCHANGED <<closing, notified>>
    BY <1>5, <1>8 DEF Interrupt, At
  <2>2. interrupted' # <<>>
    <3>1. DOMAIN interrupted' = 1..N /\ N >= 1
      BY <1>8, SupervisorAssumption DEF Interrupt, Cases
    <3>2. 1 \in DOMAIN interrupted' /\ 1 \notin DOMAIN <<>>
      BY <3>1, SupervisorAssumption
    <3> QED BY <3>2
  <2> QED BY <1>1, <1>2, <1>4, <2>1, <2>2 DEF SafetyInv, ObserverSafe
<1>9. CASE LookAgain
  <2>1. observer'.pc = "end" /\ observer'.view.terminal = Terminal /\ notified' = notified
    BY <1>5, <1>9, SeenFields DEF LookAgain
  <2> QED BY <1>1, <1>4, <2>1 DEF SafetyInv, ObserverSafe
<1>10. CASE EndPass
  <2>1. observer.pc = "end" /\ observer'.pc \in {"left", "idle"}
        /\ notified' = (notified \/ observer.view.terminal)
    BY <1>5, <1>10 DEF EndPass, At
  <2> QED BY <1>1, <1>4, <2>1 DEF SafetyInv, ObserverSafe
<1>11. CASE Close \/ Unregistered \/ ObserverFails \/ Restart \/ StartObserver \/ StopObserver
  <2>1. observer'.pc \in {"again", "failed", "idle", "stopped"} \/ observer' = observer
    <3>0. ObserverFails => observer'.pc = "failed"
      BY DEF ObserverFails
    <3>1. Close \/ Restart => observer'.pc \in {"again", "idle"}
      BY <1>5 DEF Close, Restart
    <3>2. Unregistered => observer'.pc \in {"again", "failed"}
      BY <1>5 DEF Unregistered, Goto
    <3>3. StartObserver \/ StopObserver =>
            observer'.pc \in {"idle", "stopped"} \/ observer' = observer
      BY <1>5 DEF StartObserver, StopObserver
    <3> QED BY <1>11, <3>0, <3>1, <3>2, <3>3
  <2>2. notified' = notified /\ (observer' = observer => UNCHANGED <<closing, interrupted>>)
    BY <1>5, <1>11 DEF Close, Unregistered, ObserverFails, Restart, StartObserver, StopObserver,
      receipts, At, Goto
  <2> QED BY <1>1, <1>2, <1>3, <1>4, <2>1, <2>2 DEF SafetyInv, ObserverSafe
<1>12. CASE UNCHANGED <<observer, notified, closing, interrupted>>
  BY <1>1, <1>2, <1>3, <1>4, <1>12 DEF SafetyInv, ObserverSafe
<1>13. \/ Observer \/ ObserverFails \/ StartObserver \/ StopObserver
       \/ UNCHANGED <<observer, notified, closing, interrupted>>
  BY <1>1 DEF Next, vars, Launcher, Worker, UnitDies, ReusePid, Request, StartWorker, Accept,
    Refuse, LauncherKilled, Begin, Register, TakeCase, Admit, Spawn, Poll, Reap, Record, Finish,
    Step, WorkerLost, ChildWrites, ChildExits, OrphanEnds, Edit, receipts, others
<1> QED BY <1>6, <1>7, <1>8, <1>9, <1>10, <1>11, <1>12, <1>13 DEF Observer

\* The inductive step.
LEMMA SafetyNext == TypeInv /\ SafetyInv /\ [Next]_vars => SafetyInv'
BY WorkerSafeNext, ChildSafeNext, ResultsSafeNext, ReceiptsSafeNext, ObserverSafeNext
   DEF SafetyInv

-----------------------------------------------------------------------------

\* Worst is the verdict of the highest rank: it is passed only if all are.
LEMMA WorstPassed ==
  ASSUME NEW verdicts, verdicts \subseteq {"passed", "incomplete", "indeterminate", "failed"},
         "passed" \in verdicts, Worst(verdicts) = "passed"
  PROVE  verdicts = {"passed"}
<1> DEFINE IsWorst(v) == \A other \in verdicts : Rank[other] <= Rank[v]
<1>1. /\ Rank["passed"] = 0 /\ Rank["incomplete"] = 1
      /\ Rank["indeterminate"] = 2 /\ Rank["failed"] = 3
  BY DEF Rank
<1>2. \E v \in verdicts : IsWorst(v)
  <2>1. CASE "failed" \in verdicts
    BY <1>1, <2>1
  <2>2. CASE "failed" \notin verdicts /\ "indeterminate" \in verdicts
    BY <1>1, <2>2
  <2>3. CASE verdicts \subseteq {"passed", "incomplete"} /\ "incomplete" \in verdicts
    BY <1>1, <2>3
  <2>4. CASE verdicts \subseteq {"passed"}
    BY <1>1, <2>4
  <2> QED BY <2>1, <2>2, <2>3, <2>4
<1>3. IsWorst(Worst(verdicts))
  BY <1>2 DEF Worst
<1>4. \A other \in verdicts : Rank[other] <= 0
  BY <1>1, <1>3
<1>5. ASSUME NEW v \in verdicts PROVE v = "passed"
  <2>1. v \in {"passed", "incomplete", "indeterminate", "failed"} /\ Rank[v] <= 0
    BY <1>4
  <2> QED BY <1>1, <2>1
<1> QED BY <1>5

\* What a run that passed says of each of its cases.
LEMMA PassedAccepts ==
  ASSUME TypeInv, SafetyInv, ReceiptVerdict = "passed"
  PROVE  \A c \in Cases : c \in DOMAIN results /\ Accepted(results[c])
<1> DEFINE rs == IF Interrupted THEN interrupted ELSE results
           sealed == IF Interrupted THEN closing.results ELSE terminal
<1>1. \A r : CaseVerdict(r) \in {"passed", "incomplete", "failed"}
             /\ (CaseVerdict(r) = "passed" => Accepted(r))
  BY DEF CaseVerdict
<1>2. Verdicts \subseteq {"passed", "incomplete", "indeterminate", "failed"}
  BY <1>1 DEF Verdicts, CaseVerdicts
<1>3. Verdicts \cup {"passed"} = {"passed"}
  <2>1. Worst(Verdicts \cup {"passed"}) = "passed"
    BY DEF ReceiptVerdict
  <2> QED BY <1>2, <2>1, WorstPassed
<1>4. "incomplete" \notin Verdicts /\ "indeterminate" \notin Verdicts
  BY <1>3
<1>5. rs # <<>> /\ sealed # <<>> /\ Len(rs) = N
  BY <1>4 DEF Verdicts
<1>6. Verdicts = CaseVerdicts(rs)
  BY <1>4 DEF Verdicts
<1>7. \A c \in DOMAIN rs : Accepted(rs[c])
  BY <1>1, <1>3, <1>6 DEF CaseVerdicts
<1>8. CASE Interrupted
  BY <1>5, <1>7, <1>8 DEF SafetyInv, ReceiptsSafe
<1>9. CASE ~Interrupted
  <2>1. DOMAIN results = Cases
    BY <1>5, <1>9 DEF TypeInv, Cases
  <2> QED BY <1>7, <1>9, <2>1
<1> QED BY <1>8, <1>9

\* The inductive invariant holds.
LEMMA Inductive == Spec => [](TypeInv /\ SafetyInv)
<1>1. TypeInv /\ SafetyInv /\ [Next]_vars => (TypeInv /\ SafetyInv)'
  BY TypeNext, SafetyNext DEF SafetyInv
<1> QED BY InitSafe, <1>1, PTL DEF Spec

\* Whatever is killed, whenever the operator starts another worker and whatever
\* the observer reads in between, the state of the run has its type.
THEOREM TypeCorrect == Spec => []TypeInv
BY Inductive, PTL

\* The receipts of a lost worker are written for a lost worker only
\* (status_with_probe, interrupt_lost_worker): the worker is probed before the
\* rest is read, and a worker that was gone then publishes nothing afterwards.
THEOREM InterruptsTheLost == Spec => []NoFalseInterrupt
<1>1. TypeInv /\ SafetyInv => NoFalseInterrupt
  BY DEF SafetyInv, ReceiptsSafe, LostForGood, NoFalseInterrupt
<1> QED BY <1>1, Inductive, PTL

\* No case is executed twice: started.json is published once, by whoever holds
\* worker.lock first, and no worker begins after it.
THEOREM RunsOnce == Spec => []NeverReruns
<1>1. TypeInv /\ SafetyInv => NeverReruns
  BY DEF SafetyInv, WorkerSafe, NeverReruns
<1> QED BY <1>1, Inductive, PTL

\* A verdict that passes is the verdict of a run whose every case was executed,
\* to exit 0, on the bound files, with its artifact written.
THEOREM PassedRan == Spec => []PassedMeansRan
<1>1. TypeInv /\ SafetyInv => PassedMeansRan
  BY PassedAccepts DEF SafetyInv, ResultsSafe, Sound, PassedMeansRan
<1> QED BY <1>1, Inductive, PTL

\* What was notified is final: after the receipts are sealed no step changes
\* one that decides the verdict, other than marking the launch failed.
THEOREM NotifiedIsFinal == Spec => ReportFinal
<1>1. TypeInv /\ SafetyInv /\ [Next]_vars =>
        [notified => ReceiptVerdict' = ReceiptVerdict \/ launchFailed']_vars
  <2>1. SUFFICES ASSUME TypeInv, SafetyInv, [Next]_vars, notified, ~launchFailed'
                 PROVE  ReceiptVerdict' = ReceiptVerdict
    OBVIOUS
  <2>2. ~launchFailed
    BY <2>1, LaunchFailedStays
  <2>3. terminal # <<>> \/ Interrupted
    BY <2>1, <2>2 DEF SafetyInv, ObserverSafe, Terminal
  <2>4. UNCHANGED Deciding
    BY <2>1, <2>3, SealedStays
  <2>5. Verdicts' = Verdicts
    BY <2>4 DEF Deciding, Verdicts, Interrupted
  <2> QED BY <2>1, <2>2, <2>5 DEF ReceiptVerdict
<1> QED BY <1>1, Inductive, PTL DEF Spec, ReportFinal
=============================================================================
