----------------------- MODULE BackupRepositoryProofs -----------------------
(***************************************************************************)
(* Theorems about the physical backup repository, for any number of bases, *)
(* segments and slot losses, any segment size above one byte, and any      *)
(* retention.  LossesStay and HealthIsEnough assume that no marker is      *)
(* written inside the comparison of recover_clearing (~MayRaceRecovery):   *)
(* without it TLC finds LossKept violated (README, "Disagreements").       *)
(*                                                                         *)
(* The inductive invariant says who works (Locked), how times are ordered  *)
(* (Clocks), what the marker and its orphans are while the job handles     *)
(* them (Orphans, Marked), what the running job has established so far     *)
(* (Candidate, Finalized), what prune may still delete (Plan), and how     *)
(* trees, sidecars, BASE_FLOOR and GENERATION agree (Order, Signed,        *)
(* Floors, Epochs).                                                        *)
(*                                                                         *)
(* The last part is about the verdict of `health` over several timelines:  *)
(* its invariant ArchiveSound says what an archive, its histories, a base  *)
(* and a target may be (FilesKnown, PartialLast, HistoriesSound, BaseSound,*)
(* TargetSound), and the verdict is compared with the reference            *)
(* definition of replayability leg by leg.                                 *)
(***************************************************************************)
EXTENDS BackupRepository, MCWalChain, WellFoundedInduction, FiniteSetTheorems, TLAPS

\* The first segment a tree needs.
First(id) == Segment(trees[id].start)

JobSteps == {"idle", "copy", "point", "wait", "stamp", "recover", "restore", "floor",
             "rotate", "meta", "success", "remove", "compare", "unlink", "done"}
Times == 1..MaxClock
JobType == [step : JobSteps, id : 0..MaxBases, started : 0..MaxClock, goal : 0..MaxSegment,
            seen : {None} \cup Times, orphan : {None} \cup Times, newer : BOOLEAN]
PruneType == [step : {"idle", "trees"}, expired : SUBSET Ids,
              doomed : SUBSET (0..(MaxSegment - 1))]
SourceType == [head : 0..MaxSegment, keep : 0..MaxSegment, restart : 0..MaxSegment,
               slot : {"present", "missing", LostSlot}, lost : 0..MaxLosses]
TreeType == [start : Nat, stop : Nat, published : Times]
SidecarType == [epoch : Nat, goal : Nat, started : 0..MaxClock]

\* BACKUP_LOCK is held by the program that works, and by no other.
Locked ==
  /\ lock \in {"job", "prune", "free"}
  /\ lock = "job" <=> job.step # "idle"
  /\ lock = "prune" <=> prune.step # "idle"
  /\ job.step # "idle" => job.id \in Ids
  /\ job.step = "idle" => job = Idle
  /\ prune.step = "idle" => prune = Asleep

TypeInv ==
  /\ mode \in Modes /\ clock \in 1..MaxClock /\ source \in SourceType
  /\ wal \subseteq 0..(MaxSegment - 1) /\ open \subseteq 0..MaxSegment
  /\ rcv \in {"down", "scan", "mark", "create", "receive"}
  /\ gap \in {None} \cup Times /\ clearing \subseteq Times
  /\ floor \in 0..MaxClock /\ epoch \in Nat
  /\ trees \in [DOMAIN trees -> TreeType] /\ DOMAIN trees \subseteq Ids
  /\ sidecars \in [DOMAIN sidecars -> SidecarType] /\ DOMAIN sidecars \subseteq Ids
  /\ last \in {None, Stamp} \cup Ids
  /\ job \in JobType /\ prune \in PruneType
  /\ losses \subseteq Times /\ lastStart \in 0..MaxClock /\ disturbed \in BOOLEAN
  /\ Locked

\* The steps of remove_gap, and of recover_clearing.
Removing == {"remove", "compare", "unlink"}
Recovering == {"recover", "restore"}

\* Nothing is dated after the clock; a job starts after the last one that
\* succeeded, and only clears what was detected before it started.
Clocks ==
  /\ losses \subseteq 1..clock /\ clearing \subseteq 1..clock
  /\ gap <= clock /\ job.orphan <= clock /\ lastStart <= clock
  /\ job.step # "idle" =>
       job.started <= clock /\ lastStart <= job.started /\ job.seen < job.started
  /\ job.step \in Removing \/ (mode = "legacy" /\ job.step \in Recovering \cup {"rotate", "floor"})
       => lastStart = job.started

\* What the job compared still holds when it acts on it: the marker only moves on.
Orphans ==
  /\ job.step = "restore" => (job.newer <=> job.orphan > gap)
  /\ job.step = "compare" => job.orphan # None /\ (gap = None \/ gap >= job.orphan)
  /\ job.step = "unlink" => job.orphan # None /\ (job.orphan = job.seen \/ gap >= job.orphan)

\* Which steps belong to which kind of root.
Modal ==
  /\ job.step \in {"point", "wait", "meta", "success"} => mode = "meta"
  /\ job.step = "stamp" => mode = "legacy"

\* From wait_for_wal to the sidecar the job relies on the WAL it waited for.
Vouching == job.step \in Recovering \cup {"floor", "rotate", "meta"} /\ mode = "meta"

Candidate ==
  /\ job.step = "copy" => job.id \notin DOMAIN trees
  /\ job.step \in {"point", "wait"} \/ Vouching => job.id \in DOMAIN trees
  /\ Vouching => First(job.id)..job.goal \subseteq wal
  /\ job.step = "success" => job.id \in DOMAIN sidecars

\* What prune has yet to delete is what no tree it keeps needs.
Plan ==
  /\ prune.expired \subseteq DOMAIN trees /\ last \notin prune.expired
  /\ \A id \in DOMAIN trees \ prune.expired, s \in prune.doomed : s < First(id)

\* The archive is one run of segments up to the open one, below it only what
\* prune is deleting, and the trees prune keeps start inside the run.
Whole(h, lo) ==
  /\ open = {h} /\ source.head >= h /\ source.restart <= h /\ source.keep <= h
  /\ wal = (lo..(h - 1)) \cup prune.doomed /\ prune.doomed \subseteq 0..(lo - 1)
  /\ \A id \in DOMAIN trees \ prune.expired : lo <= First(id)
  /\ job.step = "copy" => lo <= job.goal

Continuous ==
  ~disturbed =>
    /\ losses = {} /\ source.slot = "present" /\ rcv # "mark"
    /\ \E h \in 0..MaxSegment : \E lo \in 0..h : Whole(h, lo)

\* A marker or an orphan at least as new as t; any marker or orphan at all.
Recorded(t) == gap >= t \/ \E orphan \in clearing : orphan >= t
Pending == gap # None \/ clearing # {}

\* The newest segment is the one being received.
Top == \E newest \in open : \A s \in Received : s <= newest

\* Trees are numbered, started and published in one order.
Order ==
  /\ \A a, b \in DOMAIN trees :
       a < b => First(a) <= First(b) /\ trees[a].published <= trees[b].published
  /\ \A a \in DOMAIN trees : trees[a].published <= clock /\ First(a) <= source.head
  /\ job.step = "copy" => /\ \A a \in DOMAIN trees : a < job.id /\ First(a) <= job.goal
                          /\ job.goal <= source.head

\* What a sidecar says agrees with its tree, with GENERATION and with LAST_SUCCESS.
Signed ==
  /\ mode = "legacy" => DOMAIN sidecars = {}
  /\ \A id \in DOMAIN sidecars :
       sidecars[id].epoch <= epoch /\ sidecars[id].started <= trees[id].published
  /\ last \in DOMAIN sidecars => lastStart = sidecars[last].started
  /\ job.step \in {"copy", "point", "wait", "meta", "success"} \/ Vouching => last < job.id
  /\ job.step \in {"point", "wait"} \/ Vouching => job.started <= trees[job.id].published

\* The sidecar the job has written is its own, and remove_gap comes after LAST_SUCCESS.
Finalized ==
  /\ mode = "meta" /\ job.step \in {"success"} \cup Removing
       => /\ job.id \in DOMAIN sidecars
          /\ sidecars[job.id].epoch = epoch /\ sidecars[job.id].started = job.started
  /\ mode = "meta" /\ job.step \in Removing => last = job.id

\* The marker the job saw is there until remove_gap, or a newer one is; after the
\* rotation no other sidecar has the current generation.
Marked ==
  /\ job.step \in {"floor", "rotate"} \cup Removing => job.seen # None
  /\ job.step \in {"floor", "rotate", "meta", "success", "remove"} => gap >= job.seen
  /\ job.step \in {"meta", "success"} \cup Removing /\ job.seen # None
       => \A id \in DOMAIN sidecars \ {job.id} : sidecars[id].epoch < epoch

\* BASE_FLOOR passes LAST_SUCCESS only over an open marker.
Floors ==
  /\ floor <= clock /\ (job.step # "idle" => floor <= job.started)
  /\ mode = "meta" => floor <= lastStart \/ Pending

\* A base from before a loss is of an older generation once the loss is off
\* record, and LAST_SUCCESS is then of the current one.
Epochs ==
  /\ \A id \in DOMAIN sidecars, t \in losses :
       sidecars[id].started <= t => sidecars[id].epoch < epoch \/ Recorded(t)
  /\ last \in DOMAIN sidecars => sidecars[last].epoch = epoch \/ Pending

-----------------------------------------------------------------------------
(* Types and who runs.                                                      *)

\* Adding or removing an entry of trees or sidecars keeps their records typed.
LEMMA PutTyped ==
  ASSUME NEW S, NEW f, f \in [DOMAIN f -> S], NEW k
  PROVE  /\ \A v \in S : Put(f, k, v) \in [DOMAIN Put(f, k, v) -> S]
         /\ Without(f, k) \in [DOMAIN Without(f, k) -> S]
BY DEF Put, Without

\* The type of each field of job, prune and source, for the steps below.
LEMMA Fields ==
  ASSUME TypeInv
  PROVE  /\ job \in JobType /\ job.step \in JobSteps /\ job.id \in 0..MaxBases
         /\ job.started \in 0..MaxClock /\ job.goal \in 0..MaxSegment
         /\ job.seen \in {None} \cup Times /\ job.orphan \in {None} \cup Times
              /\ job.newer \in BOOLEAN
         /\ prune.step \in {"idle", "trees"} /\ prune.expired \subseteq Ids
         /\ prune.doomed \subseteq 0..(MaxSegment - 1)
         /\ source.head \in 0..MaxSegment /\ source.keep \in 0..MaxSegment
         /\ source.restart \in 0..MaxSegment /\ source.slot \in {"present", "missing", LostSlot}
         /\ source.lost \in 0..MaxLosses
         /\ \A id \in DOMAIN trees : trees[id] \in TreeType
         /\ \A id \in DOMAIN sidecars : sidecars[id] \in SidecarType
BY DEF TypeInv, SourceType, JobType, PruneType

\* The typing the proofs use gives the type invariant the runs check.
LEMMA TypeImplies ==
  ASSUME TypeInv
  PROVE  TypeOK
BY DEF TypeInv, TypeOK, Locked, SourceType, Times

\* A repository in service, with nothing running.
LEMMA TypeInit ==
  ASSUME Init
  PROVE  TypeInv
<1> USE RepositoryAssumption
<1>1. job \in JobType /\ prune \in PruneType /\ job.step = "idle" /\ prune.step = "idle"
  BY DEF Init, Idle, Asleep, JobType, PruneType, JobSteps, Times, Ids, None
<1>2. DOMAIN <<>> = {} /\ <<>> \in [{} -> TreeType] /\ <<>> \in [{} -> SidecarType]
  OBVIOUS
<1>3. source \in SourceType
  BY DEF Init, SourceType, LostSlot
<1>4. trees \in [DOMAIN trees -> TreeType] /\ DOMAIN trees \subseteq Ids
  BY <1>2 DEF Init
<1>5. sidecars \in [DOMAIN sidecars -> SidecarType] /\ DOMAIN sidecars \subseteq Ids
  BY <1>2 DEF Init
<1>6. Locked
  BY <1>1 DEF Init, Locked
<1>7. wal \subseteq 0..(MaxSegment - 1) /\ open \subseteq 0..MaxSegment
  BY DEF Init
<1>8. mode \in Modes /\ clock \in 1..MaxClock /\ floor \in 0..MaxClock
        /\ lastStart \in 0..MaxClock /\ epoch \in Nat
  BY DEF Init
<1> QED
  BY <1>1, <1>3, <1>4, <1>5, <1>6, <1>7, <1>8 DEF Init, TypeInv

\* Every operation keeps the types, and takes or releases BACKUP_LOCK as it starts or ends.
LEMMA TypeNext ==
  ASSUME TypeInv, [Next]_vars
  PROVE  TypeInv'
<1> USE RepositoryAssumption
<1>1. /\ \A s \in JobSteps : /\ [job EXCEPT !.step = s] \in JobType
                             /\ [job EXCEPT !.step = s].step = s
                             /\ [job EXCEPT !.step = s].id = job.id
  BY Fields DEF JobType
<1>2. /\ Idle \in JobType /\ Idle.step = "idle"
      /\ Asleep \in PruneType /\ Asleep.step = "idle"
  BY DEF Idle, Asleep, JobType, PruneType, JobSteps, Times, Ids, None
<1>3. ASSUME NEW id \in Ids, NEW t \in 0..MaxClock, NEW g \in 0..MaxSegment,
             job' = [Idle EXCEPT !.step = "copy", !.id = id, !.started = t, !.goal = g]
      PROVE  job' \in JobType /\ job'.step = "copy" /\ job'.id = id
  <2>1. job' = [step |-> "copy", id |-> id, started |-> t, goal |-> g, seen |-> None,
          orphan |-> None,
                newer |-> FALSE]
    BY <1>3 DEF Idle
  <2> QED
    BY <2>1 DEF JobType, JobSteps, Ids
<1>4. ReadClock => clock' \in 1..MaxClock /\ clock' \in Times /\ clock' >= clock
  BY DEF ReadClock, TypeInv, Times
<1>5. WriteMarker => /\ clock' \in 1..MaxClock /\ gap' \in {None} \cup Times
                     /\ losses' \subseteq Times
  BY <1>4 DEF WriteMarker, TypeInv
<1>6. CASE UNCHANGED vars
  BY <1>6 DEF vars, disk, ghosts, TypeInv, Locked
<1>7. WriteWal \/ LoseSlot => TypeInv'
  <2>1. WriteWal \/ LoseSlot => source' \in SourceType
    <3>1. WriteWal => source' \in SourceType
      BY Fields DEF WriteWal, TypeInv, SourceType
    <3>2. LoseSlot => source' \in SourceType
      <4>1. ASSUME NEW kind \in {"missing", LostSlot, "present"}, source.lost < MaxLosses
            PROVE  [source EXCEPT !.slot = kind, !.keep = source.head, !.restart = source.head,
                     !.lost = @ + 1]
                     \in SourceType
        <5>1. source \in SourceType /\ source.lost + 1 \in 0..MaxLosses
                /\ source.head \in 0..MaxSegment
          BY <4>1, Fields DEF TypeInv
        <5>2. kind \in {"present", "missing", LostSlot}
          BY <4>1
        <5> QED
          BY <5>1, <5>2 DEF SourceType
      <4> QED
        BY <4>1 DEF LoseSlot
    <3> QED
      BY <3>1, <3>2
  <2> QED
    BY <2>1 DEF WriteWal, LoseSlot, TypeInv, Locked, disk, ghosts
<1>8. Probe \/ ProbeDeferred => TypeInv'
  <2>1. Probe \/ ProbeDeferred => source' \in SourceType
    BY DEF Probe, ProbeDeferred, TypeInv, SourceType, LostSlot
  <2> QED
    BY <2>1 DEF Probe, ProbeDeferred, TypeInv, Locked, disk, ghosts
<1>9. MarkMissing \/ Scan => TypeInv'
  BY <1>5 DEF MarkMissing, Scan, TypeInv, Locked, disk, ghosts
<1>10. Connect => TypeInv'
  <2>1. Connect => source' \in SourceType
    BY Fields DEF Connect, TypeInv, SourceType, LostSlot
  <2>2. ASSUME NEW a \in 0..MaxSegment, NEW b \in 0..MaxSegment
        PROVE  HighestOf({a, b}) \in 0..MaxSegment
    <3>1. \E s \in {a, b} : \A x \in {a, b} : s >= x
      OBVIOUS
    <3> QED
      BY <3>1 DEF HighestOf
  <2>3. Connect => open' \subseteq 0..MaxSegment
    <3>1. \A s \in Received : s + (IF s \in wal THEN 1 ELSE 0) \in 0..MaxSegment
      BY DEF TypeInv, Received
    <3>2. Connect => source'.keep \in 0..MaxSegment
      BY <2>1 DEF SourceType
    <3>3. Connect => \E newest \in Received :
                       open' = open \cup {HighestOf({newest + (IF newest \in wal THEN 1 ELSE 0),
                         source'.keep})}
      BY DEF Connect
    <3>4. open \subseteq 0..MaxSegment
      BY DEF TypeInv
    <3> SUFFICES ASSUME Connect PROVE open' \subseteq 0..MaxSegment
      OBVIOUS
    <3>5. PICK newest \in Received :
             open' = open \cup {HighestOf({newest + (IF newest \in wal THEN 1 ELSE 0),
               source'.keep})}
      BY <3>3
    <3>6. PICK a : a = newest + (IF newest \in wal THEN 1 ELSE 0)
      OBVIOUS
    <3>7. HighestOf({a, source'.keep}) \in 0..MaxSegment
      BY <2>2, <3>1, <3>2, <3>6
    <3> QED
      BY <3>4, <3>5, <3>6, <3>7
  <2> QED
    BY <2>1, <2>3 DEF Connect, TypeInv, Locked, disk, ghosts
<1>11. Receive => TypeInv'
  <2>1. ASSUME NEW segment \in open, segment < source.head
        PROVE  /\ segment \in 0..(MaxSegment - 1) /\ segment + 1 \in 0..MaxSegment
               /\ HighestOf({source.keep, segment}) \in 0..MaxSegment
    <3>1. segment \in 0..(MaxSegment - 1) /\ segment + 1 \in 0..MaxSegment
            /\ source.keep \in 0..MaxSegment
      BY <2>1, Fields DEF TypeInv
    <3>2. \E s \in {source.keep, segment} : \A x \in {source.keep, segment} : s >= x
      BY <3>1
    <3> QED
      BY <3>1, <3>2 DEF HighestOf
  <2>2. Receive => /\ source' \in SourceType /\ wal' \subseteq 0..(MaxSegment - 1)
                   /\ open' \subseteq 0..MaxSegment
    <3> SUFFICES ASSUME Receive
                 PROVE  /\ source' \in SourceType /\ wal' \subseteq 0..(MaxSegment - 1)
                        /\ open' \subseteq 0..MaxSegment
      OBVIOUS
    <3>1. PICK segment \in open :
            /\ segment < source.head
            /\ wal' = wal \cup {segment} /\ open' = (open \ {segment}) \cup {segment + 1}
            /\ source' = [source EXCEPT !.restart = segment + 1, !.keep = HighestOf({@, segment})]
      BY DEF Receive
    <3>2. source' \in SourceType
      BY <2>1, <3>1 DEF TypeInv, SourceType
    <3> QED
      BY <2>1, <3>1, <3>2 DEF TypeInv
  <2> QED
    BY <2>2 DEF Receive, TypeInv, Locked, disk, ghosts
<1>12. StopReceiver => TypeInv'
  BY DEF StopReceiver, TypeInv, Locked, disk, ghosts
<1>13. Start => TypeInv'
  <2> SUFFICES ASSUME Start PROVE TypeInv'
    OBVIOUS
  <2>1. PICK id \in Ids :
           job' = [Idle EXCEPT !.step = "copy", !.id = id, !.started = clock',
            !.goal = source.head]
    BY DEF Start
  <2>2. clock' \in 1..MaxClock /\ clock' \in 0..MaxClock
    BY <1>4 DEF Start
  <2>3. job' \in JobType /\ job'.step = "copy" /\ job'.id = id
    BY <1>3, <2>1, <2>2, Fields
  <2>4. UNCHANGED <<mode, rcv, prune, source, wal, open, gap, clearing, floor, epoch, trees,
                    sidecars, last, losses, lastStart, disturbed>> /\ lock' = "job" /\ lock = "free"
    BY DEF Start, UnchangedByReader, ghosts
  <2> QED
    BY <2>2, <2>3, <2>4 DEF TypeInv, Locked
<1>14. ASSUME NEW s \in JobSteps \ {"idle"}, job.step # "idle", job' \in JobType, job'.step = s,
                job'.id = job.id,
              UNCHANGED <<mode, rcv, prune, lock, disturbed>>,
              clock' \in 1..MaxClock, source' \in SourceType, UNCHANGED <<wal, open>>,
              gap' \in {None} \cup Times, clearing' \subseteq Times, floor' \in 0..MaxClock,
                epoch' \in Nat,
              trees' \in [DOMAIN trees' -> TreeType], DOMAIN trees' \subseteq Ids,
              sidecars' \in [DOMAIN sidecars' -> SidecarType], DOMAIN sidecars' \subseteq Ids,
              last' \in {None, Stamp} \cup Ids, losses' = losses, lastStart' \in 0..MaxClock
       PROVE  TypeInv'
  BY <1>14 DEF TypeInv, Locked
<1>15. Publish => TypeInv'
  <2> SUFFICES ASSUME Publish PROVE TypeInv'
    OBVIOUS
  <2>1. clock' \in 1..MaxClock /\ clock' \in Times /\ job.step = "copy"
    BY <1>4 DEF Publish, JobIs
  <2>2. [start |-> SegBytes * job.goal, stop |-> SegBytes * source.head, published |-> clock']
          \in TreeType
    <3>1. SegBytes * job.goal \in Nat /\ SegBytes * source.head \in Nat
      BY Fields, SegBytesPositive
    <3> QED
      BY <2>1, <3>1 DEF TreeType
  <2>3. trees' \in [DOMAIN trees' -> TreeType] /\ DOMAIN trees' \subseteq Ids
    <3>1. job.id \in Ids
      BY <2>1 DEF TypeInv, Locked
    <3>2. PICK r \in TreeType : trees' = Put(trees, job.id, r)
      BY <2>2 DEF Publish
    <3>3. trees \in [DOMAIN trees -> TreeType] /\ DOMAIN trees \subseteq Ids
      BY DEF TypeInv
    <3>4. Put(trees, job.id, r) \in [DOMAIN Put(trees, job.id, r) -> TreeType]
      BY <3>3, PutTyped
    <3>5. DOMAIN Put(trees, job.id, r) = DOMAIN trees \cup {job.id}
      BY DEF Put
    <3> QED
      BY <3>1, <3>2, <3>3, <3>4, <3>5
  <2>4. PICK s \in {"point", "stamp"} : job' = [job EXCEPT !.step = s]
    BY DEF Publish
  <2>5. s \in JobSteps \ {"idle"}
    BY DEF JobSteps
  <2>6. job' \in JobType /\ job'.step = s /\ job'.id = job.id
    BY <1>1, <2>4, <2>5
  <2>7. UNCHANGED <<mode, rcv, prune, source, lock, wal, open, gap, clearing, floor, epoch,
                    sidecars, last, losses, lastStart, disturbed>>
    BY DEF Publish, UnchangedByReader, ghosts
  <2> QED
    BY <1>14, <2>1, <2>3, <2>5, <2>6, <2>7 DEF TypeInv
<1>16. ASSUME NEW s \in JobSteps \ {"idle"}, job.step # "idle",
              job' = [job EXCEPT !.step = s],
              UNCHANGED <<mode, rcv, prune, lock, disturbed, clock, source, wal, open, losses>>,
              gap' \in {None} \cup Times, clearing' \subseteq Times, floor' \in 0..MaxClock,
                epoch' \in Nat,
              trees' = trees,
              sidecars' \in [DOMAIN sidecars' -> SidecarType], DOMAIN sidecars' \subseteq Ids,
              last' \in {None, Stamp} \cup Ids, lastStart' \in 0..MaxClock
       PROVE  TypeInv'
  <2>1. job' \in JobType /\ job'.step = s /\ job'.id = job.id
    BY <1>1, <1>16
  <2> QED
    BY <1>14, <1>16, <2>1 DEF TypeInv
<1>17. RestorePoint => TypeInv'
  <2> SUFFICES ASSUME RestorePoint PROVE TypeInv'
    OBVIOUS
  <2>1. "wait" \in JobSteps \ {"idle"} /\ job.step # "idle" /\ source.head \in 0..MaxSegment
    BY Fields DEF JobSteps, RestorePoint, JobIs
  <2>2. job' \in JobType /\ job'.step = "wait" /\ job'.id = job.id
    BY <2>1, Fields DEF RestorePoint, JobType
  <2>3. source' \in SourceType
    BY Fields DEF RestorePoint, TypeInv, SourceType
  <2> QED
    BY <1>14, <2>1, <2>2, <2>3 DEF RestorePoint, TypeInv, UnchangedByJob, disk, ghosts
<1>18. WaitWal \/ SetFloor \/ Rotate => TypeInv'
  <2>1. WaitWal \/ SetFloor \/ Rotate =>
          /\ \E s
               \in {"recover", "rotate", "remove", "meta", "floor"} : job' = [job EXCEPT !.step = s]
          /\ job.step # "idle"
    BY DEF WaitWal, SetFloor, Rotate, JobIs
  <2>2. {"recover", "rotate", "remove", "meta", "floor"} \subseteq JobSteps \ {"idle"}
    BY DEF JobSteps
  <2>3. SetFloor => floor' \in 0..MaxClock
    BY Fields DEF SetFloor
  <2>4. Rotate => epoch' \in Nat
    BY DEF Rotate, TypeInv
  <2> QED
    BY <1>16, <2>1, <2>2, <2>3, <2>4
       DEF WaitWal, SetFloor, Rotate, TypeInv, UnchangedByJob, disk, ghosts
<1>19. StampSuccess => TypeInv'
  <2>1. DOMAIN <<>> = {} /\ <<>> \in [{} -> SidecarType]
    OBVIOUS
  <2>2. "recover" \in JobSteps \ {"idle"}
    BY DEF JobSteps
  <2> QED
    BY <1>16, <2>1, <2>2, Fields DEF StampSuccess, JobIs, TypeInv, UnchangedByJob
<1>20. CompareOrphan => TypeInv'
  <2> SUFFICES ASSUME CompareOrphan PROVE TypeInv'
    OBVIOUS
  <2>1. PICK o \in clearing,
          b \in BOOLEAN : job' = [job EXCEPT !.step = "restore", !.orphan = o, !.newer = b]
    <3>1. \A o : (o > gap) \in BOOLEAN
      OBVIOUS
    <3> QED
      BY <3>1, Zenon DEF CompareOrphan
  <2>2. "restore" \in JobSteps \ {"idle"} /\ o \in {None} \cup Times
    BY DEF JobSteps, TypeInv
  <2>3. job' \in JobType /\ job'.step = "restore" /\ job'.id = job.id
    BY <2>1, <2>2, Fields DEF JobType, None, Times
  <2> QED
    BY <1>14, <2>2, <2>3 DEF CompareOrphan, JobIs, TypeInv, UnchangedByJob, disk, ghosts
<1>21. RestoreOrphan => TypeInv'
  <2> SUFFICES ASSUME RestoreOrphan PROVE TypeInv'
    OBVIOUS
  <2>1. job' = [job EXCEPT !.step = "recover", !.orphan = None, !.newer = FALSE]
    BY DEF RestoreOrphan
  <2>2. "recover" \in JobSteps \ {"idle"}
    BY DEF JobSteps
  <2>3. job' \in JobType /\ job'.step = "recover" /\ job'.id = job.id
    BY <2>1, <2>2, Fields DEF JobType, None, Times
  <2>4. gap' \in {None} \cup Times /\ clearing' \subseteq Times
    BY Fields DEF RestoreOrphan, TypeInv
  <2> QED
    BY <1>14, <2>2, <2>3, <2>4 DEF RestoreOrphan, JobIs, TypeInv, UnchangedByJob, ghosts
<1>22. CheckGap => TypeInv'
  <2> SUFFICES ASSUME CheckGap PROVE TypeInv'
    OBVIOUS
  <2>1. PICK o \in {gap, None}, s \in {"meta", "floor", "done", "rotate"} :
           job' = [job EXCEPT !.seen = o, !.step = s]
    BY DEF CheckGap
  <2>2. s \in JobSteps \ {"idle"} /\ o \in {None} \cup Times
    BY DEF JobSteps, TypeInv
  <2>3. job' \in JobType /\ job'.step = s /\ job'.id = job.id
    BY <2>1, <2>2, Fields DEF JobType, None, Times
  <2> QED
    BY <1>14, <2>2, <2>3 DEF CheckGap, JobIs, TypeInv, UnchangedByJob, disk, ghosts
<1>23. WriteMeta => TypeInv'
  <2> SUFFICES ASSUME WriteMeta PROVE TypeInv'
    OBVIOUS
  <2>1. [epoch |-> epoch, goal |-> SegBytes * job.goal + 1, started |-> job.started] \in SidecarType
    <3>1. SegBytes * job.goal + 1 \in Nat
      BY Fields, SegBytesPositive
    <3> QED
      BY <3>1, Fields DEF SidecarType, TypeInv
  <2>2. PICK r \in SidecarType : sidecars' = Put(sidecars, job.id, r)
    BY <2>1 DEF WriteMeta
  <2>3. sidecars \in [DOMAIN sidecars -> SidecarType] /\ DOMAIN sidecars \subseteq Ids
    BY DEF TypeInv
  <2>4. Put(sidecars, job.id, r) \in [DOMAIN Put(sidecars, job.id, r) -> SidecarType]
    BY <2>3, PutTyped
  <2>5. DOMAIN Put(sidecars, job.id, r) = DOMAIN sidecars \cup {job.id}
    BY DEF Put
  <2>6. job.id \in Ids /\ "success" \in JobSteps \ {"idle"}
    BY DEF WriteMeta, JobIs, TypeInv, Locked, JobSteps
  <2>7. sidecars' \in [DOMAIN sidecars' -> SidecarType] /\ DOMAIN sidecars' \subseteq Ids
    BY <2>2, <2>3, <2>4, <2>5, <2>6
  <2> QED
    BY <1>16, <2>6, <2>7 DEF WriteMeta, JobIs, TypeInv, UnchangedByJob, ghosts
<1>24. WriteSuccess \/ CompareMarker \/ UnlinkMarker => TypeInv'
  <2>1. WriteSuccess \/ CompareMarker \/ UnlinkMarker =>
          /\ \E s \in {"done", "remove", "unlink"} : job' = [job EXCEPT !.step = s]
          /\ job.step # "idle"
    BY DEF WriteSuccess, CompareMarker, UnlinkMarker, JobIs
  <2>2. {"done", "remove", "unlink"} \subseteq JobSteps \ {"idle"}
    BY DEF JobSteps
  <2>3. job.step # "idle" => job.id \in Ids
    BY DEF TypeInv, Locked
  <2>4. CompareMarker => gap' \in {None} \cup Times
    BY Fields DEF CompareMarker, TypeInv
  <2> QED
    BY <1>16, <2>1, <2>2, <2>3, <2>4, Fields
       DEF WriteSuccess, CompareMarker, UnlinkMarker, TypeInv, UnchangedByJob, ghosts
<1>25. TakeMarker => TypeInv'
  <2> SUFFICES ASSUME TakeMarker PROVE TypeInv'
    OBVIOUS
  <2>1. PICK s \in {"done", "compare"} : job' = [job EXCEPT !.step = s]
          \/ job' = [job EXCEPT !.step = s, !.orphan = gap]
    BY DEF TakeMarker
  <2>2. s \in JobSteps \ {"idle"} /\ gap \in {None} \cup Times
    BY DEF JobSteps, TypeInv
  <2>3. job' \in JobType /\ job'.step = s /\ job'.id = job.id
    BY <2>1, <2>2, Fields DEF JobType, None, Times
  <2>4. gap' \in {None} \cup Times /\ clearing' \subseteq Times
    BY DEF TakeMarker, TypeInv
  <2> QED
    BY <1>14, <2>2, <2>3, <2>4 DEF TakeMarker, JobIs, TypeInv, UnchangedByJob, ghosts
<1>26. EndJob => TypeInv'
  BY <1>2 DEF EndJob, TypeInv, Locked, UnchangedByJob, disk, ghosts
<1>27. PlanPrune => TypeInv'
  <2> SUFFICES ASSUME PlanPrune PROVE TypeInv'
    OBVIOUS
  <2>1. PICK e \in SUBSET DOMAIN trees, w \in SUBSET wal :
           prune' = [step |-> "trees", expired |-> e, doomed |-> w]
    BY DEF PlanPrune
  <2>2. prune' \in PruneType /\ prune'.step = "trees"
    BY <2>1 DEF PruneType, TypeInv
  <2> QED
    BY <2>2 DEF PlanPrune, TypeInv, Locked, disk, ghosts
<1>28. ExpireSidecar \/ ExpireTree => TypeInv'
  <2> SUFFICES ASSUME ExpireSidecar \/ ExpireTree PROVE TypeInv'
    OBVIOUS
  <2>1. /\ trees \in [DOMAIN trees -> TreeType] /\ sidecars \in [DOMAIN sidecars -> SidecarType]
        /\ DOMAIN trees \subseteq Ids /\ DOMAIN sidecars \subseteq Ids
    BY DEF TypeInv
  <2>2. trees' \in [DOMAIN trees' -> TreeType] /\ DOMAIN trees' \subseteq Ids
    <3>1. UNCHANGED trees \/ \E id : trees' = Without(trees, id)
      BY DEF ExpireSidecar, ExpireTree
    <3>2. ASSUME NEW id, trees' = Without(trees, id) PROVE trees' \in [DOMAIN trees' -> TreeType]
                   /\ DOMAIN trees' \subseteq Ids
      <4>1. Without(trees, id) \in [DOMAIN Without(trees, id) -> TreeType]
        BY <2>1, PutTyped
      <4>2. DOMAIN Without(trees, id) = DOMAIN trees \ {id}
        BY DEF Without
      <4> QED
        BY <2>1, <3>2, <4>1, <4>2
    <3> QED
      BY <2>1, <3>1, <3>2
  <2>3. sidecars' \in [DOMAIN sidecars' -> SidecarType] /\ DOMAIN sidecars' \subseteq Ids
    <3>1. UNCHANGED sidecars \/ \E id : sidecars' = Without(sidecars, id)
      BY DEF ExpireSidecar, ExpireTree
    <3>2. ASSUME NEW id,
                   sidecars' = Without(sidecars, id) PROVE sidecars'
                     \in [DOMAIN sidecars' -> SidecarType] /\ DOMAIN sidecars' \subseteq Ids
      <4>1. Without(sidecars, id) \in [DOMAIN Without(sidecars, id) -> SidecarType]
        BY <2>1, PutTyped
      <4>2. DOMAIN Without(sidecars, id) = DOMAIN sidecars \ {id}
        BY DEF Without
      <4> QED
        BY <2>1, <3>2, <4>1, <4>2
    <3> QED
      BY <2>1, <3>1, <3>2
  <2>4. prune' \in PruneType /\ prune'.step = prune.step /\ prune.step = "trees"
    BY DEF ExpireSidecar, ExpireTree, PruneType, TypeInv
  <2> QED
    BY <2>2, <2>3, <2>4 DEF ExpireSidecar, ExpireTree, TypeInv, Locked, ghosts
<1>29. DeleteSegment => TypeInv'
  <2>1. DeleteSegment => prune' \in PruneType /\ prune'.step = "trees" /\ prune.step = "trees"
    BY DEF DeleteSegment, PruneType, TypeInv
  <2> QED
    BY <2>1 DEF DeleteSegment, TypeInv, Locked, ghosts
<1>30. EndPrune \/ KillPrune => TypeInv'
  BY <1>2 DEF EndPrune, KillPrune, TypeInv, Locked, disk, ghosts
<1> QED
  BY <1>6, <1>7, <1>8, <1>9, <1>10, <1>11, <1>12, <1>13, <1>15, <1>17, <1>18, <1>19, <1>20,
     <1>21, <1>22, <1>23,
     <1>24, <1>25, <1>26, <1>27, <1>28, <1>29, <1>30 DEF Next

\* Every step of a job but its start keeps its tree and its start time.
Keeps == job'.id = job.id /\ job'.started = job.started

\* What every operation does to the record of the job, field by field.
LEMMA JobMoves ==
  ASSUME TypeInv
  PROVE  /\ Start
           => /\ job'.step = "copy" /\ job'.id \in Ids \ DOMAIN trees /\ job'.started = clock'
                     /\ job'.goal = source.head /\ job'.seen = None /\ job = Idle
                     /\ clock' \in 1..MaxClock /\ clock' >= clock
         /\ Publish => /\ job.step = "copy" /\ Keeps /\ job'.seen = job.seen /\ job'.goal = job.goal
                       /\ job'.step = (IF mode = "meta" THEN "point" ELSE "stamp")
                       /\ clock' \in 1..MaxClock /\ clock' >= clock
         /\ RestorePoint => /\ job.step = "point" /\ job'.step = "wait" /\ Keeps
                            /\ job'.seen = job.seen /\ job'.goal = source.head
         /\ WaitWal => /\ job.step = "wait" /\ job'.step = "recover" /\ Keeps
                       /\ job'.seen = job.seen /\ job'.goal = job.goal
         /\ StampSuccess => /\ job.step = "stamp" /\ job'.step = "recover" /\ Keeps
                            /\ job'.seen = job.seen /\ job'.goal = job.goal
         /\ CompareOrphan => /\ job.step = "recover" /\ job'.step = "restore" /\ Keeps
                             /\ job'.seen = job.seen /\ job'.goal = job.goal
                             /\ job'.orphan \in clearing /\ (job'.newer <=> job'.orphan > gap)
         /\ RestoreOrphan => /\ job.step = "restore" /\ job'.step = "recover" /\ Keeps
                             /\ job'.seen = job.seen /\ job'.goal = job.goal
         /\ CheckGap => /\ job.step = "recover" /\ Keeps /\ job'.goal = job.goal
                        /\ job'.seen = (IF gap < job.started THEN gap ELSE None)
                        /\ job'.step \in {"meta", "floor", "done", "rotate"}
                        /\ job'.step \in {"meta", "floor"} => mode = "meta"
                        /\ job'.step \in {"rotate"} => mode = "legacy"
         /\ SetFloor
              => /\ job.step = "floor" /\ Keeps /\ job'.seen = job.seen /\ job'.goal = job.goal
                        /\ job'.step = (IF mode = "meta" THEN "rotate" ELSE "remove")
         /\ Rotate
              => /\ job.step = "rotate" /\ Keeps /\ job'.seen = job.seen /\ job'.goal = job.goal
                      /\ job'.step = (IF mode = "meta" THEN "meta" ELSE "floor")
         /\ WriteMeta => /\ job.step = "meta" /\ job'.step = "success" /\ Keeps
                         /\ job'.seen = job.seen /\ job'.goal = job.goal
         /\ WriteSuccess => /\ job.step = "success" /\ job'.step \in {"done", "remove"} /\ Keeps
                            /\ job'.seen = job.seen /\ job'.goal = job.goal
         /\ TakeMarker => /\ job.step = "remove" /\ job'.step \in {"done", "compare"} /\ Keeps
                          /\ job'.seen = job.seen /\ job'.goal = job.goal
                          /\ job'.step = "compare" => job'.orphan = gap /\ gap # None
         /\ CompareMarker => /\ job.step = "compare" /\ job'.step = "unlink" /\ Keeps
                             /\ job'.seen = job.seen /\ job'.goal = job.goal
                                  /\ job'.orphan = job.orphan
         /\ UnlinkMarker => /\ job.step = "unlink" /\ job'.step = "done" /\ Keeps
                            /\ job'.seen = job.seen /\ job'.goal = job.goal
         /\ EndJob => job' = Idle
<1>1. \A s : LET j == [job EXCEPT !.step = s]
             IN  /\ j.step = s /\ j.id = job.id /\ j.started = job.started /\ j.goal = job.goal
                 /\ j.seen = job.seen /\ j.orphan = job.orphan /\ j.newer = job.newer
  BY Fields DEF JobType
<1>2. ReadClock => clock' \in 1..MaxClock /\ clock' >= clock
  BY DEF ReadClock, TypeInv
<1>3. mode \in {"meta", "legacy"}
  BY RepositoryAssumption DEF TypeInv
<1>4. Start => /\ job'.step = "copy" /\ job'.id \in Ids \ DOMAIN trees /\ job'.started = clock'
               /\ job'.goal = source.head /\ job'.seen = None /\ job = Idle
               /\ clock' \in 1..MaxClock /\ clock' >= clock
  <2> SUFFICES ASSUME Start
               PROVE  /\ job'.step = "copy" /\ job'.id \in Ids \ DOMAIN trees
                        /\ job'.started = clock'
                      /\ job'.goal = source.head /\ job'.seen = None /\ job = Idle
                      /\ clock' \in 1..MaxClock /\ clock' >= clock
    OBVIOUS
  <2>1. PICK id \in Ids : /\ \A used \in DOMAIN trees : used < id
                          /\ job' = [Idle EXCEPT !.step = "copy", !.id = id, !.started = clock',
                               !.goal = source.head]
    BY DEF Start
  <2>2. job' = [step |-> "copy", id |-> id, started |-> clock', goal |-> source.head, seen |-> None,
                orphan |-> None, newer |-> FALSE]
    BY <2>1 DEF Idle
  <2>3. id \notin DOMAIN trees
    BY <2>1 DEF Ids
  <2>4. job = Idle /\ ReadClock
    BY DEF Start, JobIs, TypeInv, Locked
  <2> QED
    BY <1>2, <2>2, <2>3, <2>4
<1>5. /\ Publish => /\ job.step = "copy" /\ Keeps /\ job'.seen = job.seen /\ job'.goal = job.goal
                    /\ job'.step = (IF mode = "meta" THEN "point" ELSE "stamp")
                    /\ clock' \in 1..MaxClock /\ clock' >= clock
      /\ WaitWal => /\ job.step = "wait" /\ job'.step = "recover" /\ Keeps
                    /\ job'.seen = job.seen /\ job'.goal = job.goal
      /\ StampSuccess => /\ job.step = "stamp" /\ job'.step = "recover" /\ Keeps
                         /\ job'.seen = job.seen /\ job'.goal = job.goal
      /\ SetFloor => /\ job.step = "floor" /\ Keeps /\ job'.seen = job.seen /\ job'.goal = job.goal
                     /\ job'.step = (IF mode = "meta" THEN "rotate" ELSE "remove")
      /\ Rotate => /\ job.step = "rotate" /\ Keeps /\ job'.seen = job.seen /\ job'.goal = job.goal
                   /\ job'.step = (IF mode = "meta" THEN "meta" ELSE "floor")
      /\ WriteMeta => /\ job.step = "meta" /\ job'.step = "success" /\ Keeps
                      /\ job'.seen = job.seen /\ job'.goal = job.goal
  <2>1. ASSUME NEW s, job' = [job EXCEPT !.step = s]
        PROVE  /\ job'.step = s /\ Keeps /\ job'.goal = job.goal /\ job'.seen = job.seen
               /\ job'.orphan = job.orphan
    BY <1>1, <2>1 DEF Keeps
  <2>2. Publish
          => \E s : s = (IF mode = "meta" THEN "point" ELSE "stamp")
            /\ job' = [job EXCEPT !.step = s]
    BY DEF Publish
  <2>3. SetFloor
          => \E s : s = (IF mode = "meta" THEN "rotate" ELSE "remove")
            /\ job' = [job EXCEPT !.step = s]
    BY DEF SetFloor
  <2>4. Rotate
          => \E s : s = (IF mode = "meta" THEN "meta" ELSE "floor")
            /\ job' = [job EXCEPT !.step = s]
    BY DEF Rotate
  <2>5. Publish => job.step = "copy" /\ ReadClock
    BY DEF Publish, JobIs
  <2>6. (SetFloor => job.step = "floor") /\ (Rotate => job.step = "rotate")
    BY DEF SetFloor, Rotate, JobIs
  <2>7. /\ WaitWal => job.step = "wait" /\ job' = [job EXCEPT !.step = "recover"]
        /\ StampSuccess => job.step = "stamp" /\ job' = [job EXCEPT !.step = "recover"]
        /\ WriteMeta => job.step = "meta" /\ job' = [job EXCEPT !.step = "success"]
    BY DEF WaitWal, StampSuccess, WriteMeta, JobIs
  <2> QED
    BY <1>2, <2>1, <2>2, <2>3, <2>4, <2>5, <2>6, <2>7
<1>6. /\ WriteSuccess => /\ job.step = "success" /\ job'.step \in {"done", "remove"} /\ Keeps
                         /\ job'.seen = job.seen /\ job'.goal = job.goal
      /\ CompareMarker => /\ job.step = "compare" /\ job'.step = "unlink" /\ Keeps
                          /\ job'.seen = job.seen /\ job'.goal = job.goal
                               /\ job'.orphan = job.orphan
      /\ UnlinkMarker => /\ job.step = "unlink" /\ job'.step = "done" /\ Keeps
                         /\ job'.seen = job.seen /\ job'.goal = job.goal
      /\ EndJob => job' = Idle
  <2>1. ASSUME NEW s, job' = [job EXCEPT !.step = s]
        PROVE  /\ job'.step = s /\ Keeps /\ job'.goal = job.goal /\ job'.seen = job.seen
               /\ job'.orphan = job.orphan
    BY <1>1, <2>1 DEF Keeps
  <2>2. WriteSuccess
          => job.step = "success" /\ \E s \in {"done", "remove"} : job' = [job EXCEPT !.step = s]
    BY DEF WriteSuccess, JobIs
  <2>3. /\ CompareMarker => job.step = "compare" /\ job' = [job EXCEPT !.step = "unlink"]
        /\ UnlinkMarker => job.step = "unlink" /\ job' = [job EXCEPT !.step = "done"]
        /\ EndJob => job' = Idle
    BY DEF CompareMarker, UnlinkMarker, EndJob, JobIs
  <2> QED
    BY <2>1, <2>2, <2>3
<1>7. /\ RestorePoint => /\ job.step = "point" /\ job'.step = "wait" /\ Keeps
                         /\ job'.seen = job.seen /\ job'.goal = source.head
      /\ RestoreOrphan => /\ job.step = "restore" /\ job'.step = "recover" /\ Keeps
                          /\ job'.seen = job.seen /\ job'.goal = job.goal
  BY Fields DEF RestorePoint, RestoreOrphan, JobIs, Keeps, JobType
<1>8. CompareOrphan => /\ job.step = "recover" /\ job'.step = "restore" /\ Keeps
                       /\ job'.seen = job.seen /\ job'.goal = job.goal
                       /\ job'.orphan \in clearing /\ (job'.newer <=> job'.orphan > gap)
  <2> SUFFICES ASSUME CompareOrphan
               PROVE  /\ job.step = "recover" /\ job'.step = "restore" /\ Keeps
                      /\ job'.seen = job.seen /\ job'.goal = job.goal
                      /\ job'.orphan \in clearing /\ (job'.newer <=> job'.orphan > gap)
    OBVIOUS
  <2>1. PICK o \in clearing, b \in BOOLEAN : /\ b <=> (o > gap)
                                             /\ job' = [job EXCEPT !.step = "restore",
                                                  !.orphan = o, !.newer = b]
    <3>1. \A o : (o > gap) \in BOOLEAN
      OBVIOUS
    <3> QED
      BY <3>1, Zenon DEF CompareOrphan
  <2>2. /\ job'.step = "restore" /\ Keeps /\ job'.seen = job.seen /\ job'.goal = job.goal
        /\ job'.orphan = o /\ job'.newer = b
    BY <2>1, Fields DEF JobType, Keeps
  <2> QED
    BY <2>1, <2>2 DEF CompareOrphan, JobIs
<1>9. CheckGap => /\ job.step = "recover" /\ Keeps /\ job'.goal = job.goal
                  /\ job'.seen = (IF gap < job.started THEN gap ELSE None)
                  /\ job'.step \in {"meta", "floor", "done", "rotate"}
                  /\ job'.step \in {"meta", "floor"} => mode = "meta"
                  /\ job'.step \in {"rotate"} => mode = "legacy"
  <2> SUFFICES ASSUME CheckGap
               PROVE  /\ job.step = "recover" /\ Keeps /\ job'.goal = job.goal
                      /\ job'.seen = (IF gap < job.started THEN gap ELSE None)
                      /\ job'.step \in {"meta", "floor", "done", "rotate"}
                      /\ job'.step \in {"meta", "floor"} => mode = "meta"
                      /\ job'.step \in {"rotate"} => mode = "legacy"
    OBVIOUS
  <2>1. PICK o, s : /\ o = (IF gap < job.started THEN gap ELSE None)
                    /\ s \in {"meta", "floor", "done", "rotate"}
                    /\ s \in {"meta", "floor"} => mode = "meta"
                    /\ s \in {"rotate"} => mode = "legacy"
                    /\ job' = [job EXCEPT !.seen = o, !.step = s]
    BY <1>3 DEF CheckGap
  <2>2. job'.step = s /\ Keeps /\ job'.seen = o /\ job'.goal = job.goal
    BY <2>1, Fields DEF JobType, Keeps
  <2> QED
    BY <2>1, <2>2 DEF CheckGap, JobIs
<1>10. TakeMarker => /\ job.step = "remove" /\ job'.step \in {"done", "compare"} /\ Keeps
                     /\ job'.seen = job.seen /\ job'.goal = job.goal
                     /\ job'.step = "compare" => job'.orphan = gap /\ gap # None
  BY Fields DEF TakeMarker, JobIs, Keeps, JobType
<1> QED
  BY <1>4, <1>5, <1>6, <1>7, <1>8, <1>9, <1>10

\* A step of the source, of the receiver or of prune.
OtherStep == \/ WriteWal \/ LoseSlot \/ Probe \/ ProbeDeferred \/ MarkMissing \/ Scan \/ Connect
             \/ Receive \/ StopReceiver \/ PlanPrune \/ ExpireSidecar \/ ExpireTree \/ DeleteSegment
             \/ EndPrune \/ KillPrune \/ UNCHANGED vars

\* The source, the receiver and prune change neither the job nor the mode.
LEMMA OthersLeaveJob ==
  ASSUME OtherStep
  PROVE  UNCHANGED <<job, mode>>
BY
   DEF OtherStep, WriteWal, LoseSlot, Probe, ProbeDeferred, MarkMissing, Scan, Connect,
       Receive, StopReceiver,
       PlanPrune, ExpireSidecar, ExpireTree, DeleteSegment, EndPrune, KillPrune, vars

-----------------------------------------------------------------------------
(* Losses.                                                                  *)

\* finalize runs in recoveryMeta roots and clear_gap in legacy ones.
LEMMA ModalNext ==
  ASSUME TypeInv, Modal, [Next]_vars
  PROVE  Modal' /\ mode' = mode
<1>1. Start \/ Publish \/ RestorePoint \/ WaitWal \/ StampSuccess \/ CompareOrphan \/ RestoreOrphan
        \/ CheckGap \/ SetFloor \/ Rotate \/ WriteMeta \/ WriteSuccess
        \/ TakeMarker \/ CompareMarker \/ UnlinkMarker \/ EndJob => mode' = mode
  BY
     DEF Start, Publish, RestorePoint, WaitWal, StampSuccess, CompareOrphan, RestoreOrphan,
         CheckGap, SetFloor,
         Rotate, WriteMeta, WriteSuccess, TakeMarker, CompareMarker, UnlinkMarker, EndJob,
         UnchangedByJob, UnchangedByReader
<1>2. mode \in {"meta", "legacy"} /\ Idle.step = "idle"
  BY RepositoryAssumption DEF TypeInv, Idle
<1>3. OtherStep => Modal' /\ mode' = mode
  BY OthersLeaveJob DEF Modal
<1>4. Start \/ Publish \/ RestorePoint \/ WaitWal \/ StampSuccess \/ CompareOrphan \/ RestoreOrphan
        \/ CheckGap \/ SetFloor \/ Rotate \/ WriteMeta \/ WriteSuccess
        \/ TakeMarker \/ CompareMarker \/ UnlinkMarker \/ EndJob => Modal'
  BY <1>1, <1>2, JobMoves DEF Modal
<1> QED
  BY <1>1, <1>3, <1>4 DEF Next, OtherStep


\* The orphan the job works on comes from clearing/, or is the marker it took.
LEMMA OrphanMoves ==
  ASSUME TypeInv, [Next]_vars
  PROVE  \/ job'.orphan = job.orphan
         \/ job'.orphan = None
         \/ job'.orphan \in clearing
         \/ TakeMarker /\ gap # None /\ job'.orphan = gap
<1>1. CASE OtherStep
  BY <1>1, OthersLeaveJob
<1>2. CASE Start \/ EndJob
  <2>1. Start => job'.orphan = None
    <3>1. ASSUME NEW id, NEW t, NEW g,
                   job' = [Idle EXCEPT !.step = "copy", !.id = id, !.started = t, !.goal = g]
          PROVE  job'.orphan = None
      BY <3>1 DEF Idle
    <3> QED
      BY <3>1 DEF Start
  <2>2. EndJob => job'.orphan = None
    BY DEF EndJob, Idle
  <2> QED
    BY <1>2, <2>1, <2>2
<1>3. CASE \/ Publish \/ RestorePoint \/ WaitWal \/ StampSuccess \/ RestoreOrphan \/ CheckGap
             \/ SetFloor
           \/ Rotate \/ WriteMeta \/ WriteSuccess \/ CompareMarker \/ UnlinkMarker
  <2>1. job \in JobType
    BY Fields
  <2>2. ASSUME NEW s, NEW g, NEW o
        PROVE  /\ [job EXCEPT !.step = s].orphan = job.orphan
               /\ [job EXCEPT !.step = s, !.goal = g].orphan = job.orphan
               /\ [job EXCEPT !.seen = o, !.step = s].orphan = job.orphan
               /\ [job EXCEPT !.step = s, !.orphan = None, !.newer = FALSE].orphan = None
    BY <2>1 DEF JobType
  <2>3. \/ \E s : job' = [job EXCEPT !.step = s]
        \/ \E s, g : job' = [job EXCEPT !.step = s, !.goal = g]
        \/ \E s, o : job' = [job EXCEPT !.seen = o, !.step = s]
        \/ \E s : job' = [job EXCEPT !.step = s, !.orphan = None, !.newer = FALSE]
    BY <1>3
       DEF Publish, RestorePoint, WaitWal, StampSuccess, RestoreOrphan, CheckGap, SetFloor,
           Rotate, WriteMeta,
                WriteSuccess, CompareMarker, UnlinkMarker
  <2>4. ASSUME NEW s, job' = [job EXCEPT !.step = s] PROVE job'.orphan = job.orphan
    BY <2>2, <2>4
  <2>5. ASSUME NEW s, NEW g,
                 job' = [job EXCEPT !.step = s, !.goal = g] PROVE job'.orphan = job.orphan
    BY <2>2, <2>5
  <2>6. ASSUME NEW s, NEW o,
                 job' = [job EXCEPT !.seen = o, !.step = s] PROVE job'.orphan = job.orphan
    BY <2>2, <2>6
  <2>7. ASSUME NEW s,
                 job' = [job EXCEPT !.step = s, !.orphan = None,
                   !.newer = FALSE] PROVE job'.orphan = None
    BY <2>2, <2>7
  <2> QED
    BY <2>3, <2>4, <2>5, <2>6, <2>7
<1>4. CASE CompareOrphan
  BY <1>4, JobMoves
<1>5. CASE TakeMarker
  BY <1>5, Fields DEF TakeMarker, JobType
<1> QED
  BY <1>1, <1>2, <1>3, <1>4, <1>5 DEF Next, OtherStep

\* The clock orders losses, starts and successes (base_started_ms, detected_ms).
LEMMA ClocksNext ==
  ASSUME TypeInv, Modal, Clocks, [Next]_vars
  PROVE  Clocks'
<1>1. clock \in 1..MaxClock /\ (gap = -1 \/ gap \in 1..MaxClock) /\ job.started \in 0..MaxClock
      /\ lastStart \in 0..MaxClock /\ losses \subseteq 1..MaxClock /\ mode \in {"meta", "legacy"}
      /\ Idle.step = "idle" /\ clearing \subseteq 1..MaxClock /\ None = -1 /\ MaxClock \in Nat
      /\ (job.seen = -1 \/ job.seen \in 1..MaxClock)
           /\ (job.orphan = -1 \/ job.orphan \in 1..MaxClock) /\ (job.step = "idle" => job = Idle)
  BY Fields, RepositoryAssumption DEF TypeInv, Idle, None, Times, Locked
<1>2. ASSUME clock' \in 1..MaxClock, clock' >= clock PROVE losses \subseteq 1..clock'
               /\ clearing \subseteq 1..clock' /\ job.orphan <= clock'
  BY <1>1, <1>2 DEF Clocks
<1>11. job'.orphan <= clock /\ (job'.orphan = -1 \/ job'.orphan \in 1..MaxClock)
  <2>1. \A o \in clearing : o <= clock /\ o \in 1..MaxClock
    BY <1>1 DEF Clocks
  <2>2. gap <= clock /\ job.orphan <= clock /\ None <= clock
    BY <1>1 DEF Clocks
  <2>3. \/ job'.orphan = -1
        \/ job'.orphan \in 1..MaxClock
    BY <1>1, <2>1, OrphanMoves
  <2> QED
    BY <1>1, <2>1, <2>2, <2>3, OrphanMoves
<1>3. CASE OtherStep
  <2>1. UNCHANGED <<job, mode, lastStart>>
    BY <1>3, OthersLeaveJob
       DEF OtherStep, WriteWal, LoseSlot, Probe, ProbeDeferred, MarkMissing, Scan, Connect,
       Receive, StopReceiver, PlanPrune, ExpireSidecar, ExpireTree, DeleteSegment, EndPrune,
         KillPrune, vars, ghosts
  <2>2. /\ \/ UNCHANGED <<clock, gap, losses>>
           \/ WriteMarker
        /\ clearing' = clearing
    BY <1>3
       DEF OtherStep, WriteWal, LoseSlot, Probe, ProbeDeferred, MarkMissing, Scan, Connect,
       Receive, StopReceiver, PlanPrune, ExpireSidecar, ExpireTree, DeleteSegment, EndPrune,
         KillPrune, vars,
       disk, ghosts
  <2>3. CASE UNCHANGED <<clock, gap, losses>>
    BY <1>11, <2>1, <2>2, <2>3 DEF Clocks
  <2>4. CASE WriteMarker
    <3>1. clock' \in 1..MaxClock /\ clock' >= clock /\ gap' = clock'
            /\ losses' = losses \cup {clock'}
      BY <1>1, <2>4 DEF WriteMarker, ReadClock
    <3>2. losses' \subseteq 1..clock' /\ clearing' \subseteq 1..clock' /\ job'.orphan <= clock'
      BY <1>2, <2>1, <2>2, <3>1
    <3> QED
      BY <1>1, <2>1, <3>1, <3>2 DEF Clocks
  <2> QED
    BY <2>2, <2>3, <2>4
<1>4. ASSUME UNCHANGED <<mode, losses, lastStart>>, Keeps, job.step # "idle",
               clock' \in 1..MaxClock, clock' >= clock,
             gap' = -1
               \/ gap' <= clock', clearing' \subseteq 1..clock', job'.orphan <= clock',
                 job'.seen = job.seen \/ job'.seen < job.started,
             job'.step \in Removing
               \/ (mode = "legacy" /\ job'.step \in Recovering \cup {"rotate", "floor"})
               => job.step \in Removing
                 \/ (mode = "legacy" /\ job.step \in Recovering \cup {"rotate", "floor"})
      PROVE  Clocks'
  <2>1. /\ losses' \subseteq 1..clock' /\ clearing' \subseteq 1..clock' /\ lastStart' <= clock'
             /\ gap' <= clock'
        /\ job'.orphan <= clock'
    BY <1>1, <1>2, <1>11, <1>4 DEF Clocks
  <2>2. job'.started <= clock' /\ lastStart' <= job'.started /\ job'.seen < job'.started
    BY <1>1, <1>4 DEF Clocks, Keeps
  <2>3. job'.step \in Removing
          \/ (mode' = "legacy" /\ job'.step \in Recovering \cup {"rotate", "floor"})
          => lastStart' = job'.started
    BY <1>4 DEF Clocks, Keeps
  <2> QED
    BY <2>1, <2>2, <2>3 DEF Clocks
<1>5. CASE Start
  <2>1. UNCHANGED <<mode, gap, clearing, losses, lastStart>>
    BY <1>5 DEF Start, UnchangedByReader, ghosts
  <2>2. job'.step = "copy" /\ job'.started = clock' /\ job'.seen = -1 /\ clock' \in 1..MaxClock
          /\ clock' >= clock
    BY <1>1, <1>5, JobMoves
  <2>3. losses' \subseteq 1..clock' /\ clearing' \subseteq 1..clock' /\ job'.orphan <= clock'
          /\ gap' <= clock' /\ lastStart' <= clock' /\ lastStart' <= job'.started
        /\ job'.started <= clock' /\ job'.seen < job'.started
    BY <1>1, <1>2, <1>11, <2>1, <2>2 DEF Clocks
  <2>4. "copy" \notin Removing /\ "copy" \notin Recovering \cup {"rotate", "floor"}
    BY DEF Removing, Recovering
  <2> QED
    BY <2>2, <2>3, <2>4 DEF Clocks
<1>6. CASE Publish
  <2>1. UNCHANGED <<mode, gap, clearing, losses, lastStart>>
    BY <1>6 DEF Publish, UnchangedByReader, ghosts
  <2>2. /\ job.step = "copy" /\ Keeps /\ job'.seen = job.seen /\ clock' \in 1..MaxClock
             /\ clock' >= clock
        /\ job'.step \in {"point", "stamp"}
    BY <1>6, JobMoves
  <2>3. gap' = -1 \/ gap' <= clock'
    BY <1>1, <2>1, <2>2 DEF Clocks
  <2>4. clearing' \subseteq 1..clock' /\ job'.orphan <= clock'
    BY <1>1, <1>2, <1>11, <2>1, <2>2
  <2> QED
    BY <1>4, <2>1, <2>2, <2>3, <2>4 DEF Removing, Recovering
<1>7. CASE StampSuccess \/ WriteSuccess
  <2>1. UNCHANGED <<mode, clock, gap, clearing, losses>> /\ lastStart' = job.started
    BY <1>7 DEF StampSuccess, WriteSuccess, UnchangedByJob
  <2>2. job.step # "idle" /\ Keeps /\ job'.seen = job.seen
    BY <1>7, JobMoves
  <2> QED
    BY <1>1, <1>11, <2>1, <2>2 DEF Clocks, Keeps
<1>8. CASE RestoreOrphan \/ TakeMarker \/ CompareMarker
  <2>1. UNCHANGED <<mode, clock, losses, lastStart>>
    BY <1>8 DEF RestoreOrphan, TakeMarker, CompareMarker, UnchangedByJob, ghosts
  <2>2. /\ job.step # "idle" /\ Keeps /\ job'.seen = job.seen
        /\ \/ job.step \in Removing
           \/ job.step = "restore" /\ job'.step = "recover"
        /\ job'.step \in {"recover", "done", "compare", "unlink"}
    BY <1>8, JobMoves DEF Removing
  <2>3. gap' = gap \/ gap' = -1 \/ gap' = job.orphan
    BY <1>1, <1>8 DEF RestoreOrphan, TakeMarker, CompareMarker
  <2>4. gap' = -1 \/ gap' <= clock
    BY <1>1, <2>3 DEF Clocks
  <2>5. clearing' \subseteq 1..clock
    <3>1. clearing' \subseteq clearing \cup {gap} /\ (clearing' \subseteq clearing \/ gap # None)
      BY <1>8 DEF RestoreOrphan, TakeMarker, CompareMarker
    <3> QED
      BY <1>1, <3>1 DEF Clocks
  <2> QED
    BY <1>1, <1>11, <1>4, <2>1, <2>2, <2>4, <2>5 DEF Removing, Recovering
<1>9. CASE RestorePoint \/ WaitWal \/ CompareOrphan \/ CheckGap \/ SetFloor \/ Rotate \/ WriteMeta
             \/ UnlinkMarker
  <2>1. UNCHANGED <<mode, clock, losses, lastStart, gap>> /\ clearing' \subseteq clearing
    BY <1>9
       DEF RestorePoint, WaitWal, CompareOrphan, CheckGap, SetFloor, Rotate, WriteMeta,
           UnlinkMarker,
                UnchangedByJob, disk, ghosts
  <2>2. job.step # "idle" /\ Keeps
          /\ (job'.seen = job.seen \/ job'.seen = (IF gap < job.started THEN gap ELSE None))
    BY <1>9, JobMoves
  <2>3. job'.seen = job.seen \/ job'.seen < job.started
    BY <1>1, <2>2 DEF Clocks
  <2>4. job'.step \in Removing
          \/ (mode = "legacy" /\ job'.step \in Recovering \cup {"rotate", "floor"})
               => job.step \in Removing
                 \/ (mode = "legacy" /\ job.step \in Recovering \cup {"rotate", "floor"})
    <3>1. CASE RestorePoint \/ WaitWal
      BY <1>1, <3>1, JobMoves DEF Removing, Recovering, Modal
    <3>2. CASE CompareOrphan \/ CheckGap
      BY <1>1, <3>2, JobMoves DEF Removing, Recovering
    <3>3. CASE SetFloor \/ Rotate
      BY <1>1, <3>3, JobMoves DEF Removing, Recovering, Modal
    <3>4. CASE WriteMeta \/ UnlinkMarker
      BY <1>1, <3>4, JobMoves DEF Removing, Recovering
    <3> QED
      BY <1>9, <3>1, <3>2, <3>3, <3>4
  <2> QED
    BY <1>1, <1>11, <1>4, <2>1, <2>2, <2>3, <2>4 DEF Clocks
<1>10. CASE EndJob
  <2>1. UNCHANGED <<mode, clock, losses, lastStart, gap>> /\ clearing' \subseteq clearing
          /\ job' = Idle
    BY <1>10 DEF EndJob, UnchangedByJob, disk, ghosts
  <2>2. /\ losses' \subseteq 1..clock' /\ clearing' \subseteq 1..clock' /\ gap' <= clock'
             /\ lastStart' <= clock'
        /\ job'.orphan <= clock'
    BY <1>1, <1>11, <2>1 DEF Clocks
  <2>3. job'.step \notin Removing /\ job'.step \notin Recovering \cup {"rotate", "floor"}
    BY <1>1, <2>1 DEF Removing, Recovering
  <2> QED
    BY <1>1, <2>1, <2>2, <2>3 DEF Clocks
<1> QED
  BY <1>3, <1>5, <1>6, <1>7, <1>8, <1>9, <1>10 DEF Next, OtherStep

\* Who touches the marker: remove_gap and recover_clearing under the lock, and
\* the receiver, which reads the clock for it.
LEMMA MarkerMoves ==
  ASSUME TypeInv, ~MayRaceRecovery, [Next]_vars
  PROVE  \/ UNCHANGED <<gap, clearing, losses>>
         \/ RestoreOrphan \/ TakeMarker \/ CompareMarker
         \/ /\ UNCHANGED <<gap, losses>> /\ UnlinkMarker
         \/ /\ UNCHANGED <<clearing, job, lastStart>> /\ job.step # "restore" /\ OtherStep
            /\ gap' \in clock..MaxClock /\ losses' = losses \cup {gap'}
<1>1. CASE MarkMissing \/ Scan
  <2>1. \/ UNCHANGED <<gap, clearing, losses>>
        \/ WriteMarker /\ UNCHANGED <<clearing, job, lastStart>> /\ job.step # "restore"
    BY <1>1, Fields DEF MarkMissing, Scan, TypeInv, Locked
  <2> QED
    BY <1>1, <2>1 DEF WriteMarker, ReadClock, OtherStep
<1>2. CASE \/ WriteWal \/ LoseSlot \/ Probe \/ ProbeDeferred \/ Connect \/ Receive \/ StopReceiver
             \/ PlanPrune
           \/ ExpireSidecar \/ ExpireTree \/ DeleteSegment \/ EndPrune \/ KillPrune
             \/ UNCHANGED vars
  BY <1>2
     DEF WriteWal, LoseSlot, Probe, ProbeDeferred, Connect, Receive, StopReceiver,
         PlanPrune, ExpireSidecar,
              ExpireTree, DeleteSegment, EndPrune, KillPrune, vars, disk, ghosts
<1>3. CASE \/ Start \/ Publish \/ RestorePoint \/ WaitWal \/ StampSuccess \/ CompareOrphan
             \/ CheckGap \/ SetFloor
           \/ Rotate \/ WriteMeta \/ WriteSuccess \/ EndJob
  BY <1>3
     DEF Start, Publish, RestorePoint, WaitWal, StampSuccess, CompareOrphan, CheckGap,
         SetFloor, Rotate,
              WriteMeta, WriteSuccess, EndJob, UnchangedByJob, UnchangedByReader, disk, ghosts
<1>4. CASE UnlinkMarker
  BY <1>4 DEF UnlinkMarker, ghosts
<1> QED
  BY <1>1, <1>2, <1>3, <1>4 DEF Next

\* Between the comparison of an orphan and its removal the marker only moves on.
LEMMA OrphansNext ==
  ASSUME TypeInv, Clocks, Orphans, ~MayRaceRecovery, [Next]_vars
  PROVE  Orphans'
<1>1. /\ clock \in 1..MaxClock /\ (gap = -1 \/ gap \in 1..MaxClock) /\ None = -1 /\ MaxClock \in Nat
      /\ (job.orphan = -1 \/ job.orphan \in 1..MaxClock) /\ Idle.step = "idle"
           /\ job.step \in JobSteps
      /\ job.orphan <= clock
  BY Fields, RepositoryAssumption DEF TypeInv, Idle, None, Times, Clocks
<1>2. CASE OtherStep
  <2>1. UNCHANGED job
    BY <1>2, OthersLeaveJob
  <2>2. \/ gap' = gap
        \/ job.step # "restore" /\ gap' \in clock..MaxClock
    <3>1. ~RestoreOrphan /\ ~TakeMarker /\ ~CompareMarker
      BY <2>1, JobMoves, "restore" # "recover", "remove" # "done", "remove" # "compare",
         "compare" # "unlink"
    <3> QED
      BY <3>1, MarkerMoves
  <2> QED
    BY <1>1, <2>1, <2>2 DEF Orphans
<1>3. CASE RestoreOrphan \/ UnlinkMarker \/ EndJob
  BY <1>1, <1>3, JobMoves DEF Orphans
<1>4. CASE CompareOrphan
  <2>1. gap' = gap
    BY <1>4 DEF CompareOrphan, disk
  <2> QED
    BY <1>4, <2>1, JobMoves DEF Orphans
<1>5. CASE TakeMarker
  <2>1. job'.step = "compare" => gap' = None
    BY <1>5, JobMoves, Fields DEF TakeMarker, JobType
  <2> QED
    BY <1>5, <2>1, JobMoves DEF Orphans
<1>6. CASE CompareMarker
  <2>1. gap' = IF job.orphan # job.seen /\ gap = None THEN job.orphan ELSE gap
    BY <1>6 DEF CompareMarker
  <2>2. job.step = "compare" /\ job'.step = "unlink" /\ job'.seen = job.seen
          /\ job'.orphan = job.orphan
    BY <1>6, JobMoves
  <2>3. job.orphan # None /\ (gap = None \/ gap >= job.orphan)
    BY <2>2 DEF Orphans
  <2>4. job.orphan = job.seen \/ gap' >= job.orphan
    BY <1>1, <2>1, <2>3
  <2> QED
    BY <2>2, <2>3, <2>4 DEF Orphans
<1>7. CASE \/ Start \/ Publish \/ RestorePoint \/ WaitWal \/ StampSuccess \/ CheckGap \/ SetFloor
           \/ Rotate \/ WriteMeta \/ WriteSuccess
  <2>1. job'.step \notin {"restore", "compare", "unlink"}
    BY <1>7, JobMoves
  <2> QED
    BY <2>1 DEF Orphans
<1> QED
  BY <1>2, <1>3, <1>4, <1>5, <1>6, <1>7 DEF Next, OtherStep

\* LAST_SUCCESS is only ever written for a base that started later.
LEMMA LastStartGrows ==
  ASSUME TypeInv, Clocks, [Next]_vars
  PROVE  lastStart' >= lastStart /\ lastStart \in Nat
<1>1. lastStart \in Nat /\ job.started \in Nat
  BY Fields DEF TypeInv
<1>2. StampSuccess \/ WriteSuccess => lastStart' = job.started /\ lastStart <= job.started
  BY JobMoves DEF StampSuccess, WriteSuccess, Clocks
<1>3. \/ StampSuccess \/ WriteSuccess
      \/ lastStart' = lastStart
  BY
     DEF Next, WriteWal, LoseSlot, Probe, ProbeDeferred, MarkMissing, Scan, Connect,
         Receive, StopReceiver, Start,
         Publish, RestorePoint, WaitWal, CompareOrphan, RestoreOrphan, CheckGap, SetFloor, Rotate,
           WriteMeta,
         TakeMarker, CompareMarker, UnlinkMarker, EndJob, PlanPrune, ExpireSidecar, ExpireTree,
           DeleteSegment,
         EndPrune, KillPrune, vars, ghosts
<1> QED
  BY <1>1, <1>2, <1>3

\* A marker over a loss, or the orphan it became, goes only when remove_gap
\* unlinks the very marker the job saw.
LEMMA RecordedMoves ==
  ASSUME TypeInv, Clocks, Orphans, ~MayRaceRecovery, [Next]_vars, NEW t \in 1..clock, Recorded(t)
  PROVE  Recorded(t)' \/ (UnlinkMarker /\ job.step = "unlink" /\ job.seen >= t)
<1>1. /\ clock \in 1..MaxClock /\ (gap = -1 \/ gap \in 1..MaxClock) /\ None = -1 /\ MaxClock \in Nat
      /\ (job.orphan = -1 \/ job.orphan \in 1..MaxClock)
      /\ (job.seen = -1 \/ job.seen \in 1..MaxClock) /\ (\A o \in clearing : o \in 1..MaxClock)
  BY Fields, RepositoryAssumption DEF TypeInv, None, Times
<1>2. t \in 1..MaxClock /\ t <= clock /\ (gap >= t \/ \E orphan \in clearing : orphan >= t)
  BY <1>1 DEF Recorded
<1>3. CASE UNCHANGED <<gap, clearing, losses>>
  BY <1>3 DEF Recorded
<1>4. CASE gap' \in clock..MaxClock
  BY <1>1, <1>2, <1>4 DEF Recorded
<1>5. CASE RestoreOrphan
  <2>1. /\ gap' = (IF job.newer THEN job.orphan ELSE gap) /\ clearing' = clearing \ {job.orphan}
        /\ (job.newer <=> job.orphan > gap)
    BY <1>5 DEF RestoreOrphan, Orphans, JobIs
  <2> QED
    BY <1>1, <1>2, <2>1 DEF Recorded
<1>6. CASE TakeMarker
  <2>1. \/ UNCHANGED <<gap, clearing>>
        \/ gap' = None /\ clearing' = clearing \cup {gap}
    BY <1>6 DEF TakeMarker
  <2> QED
    BY <1>1, <1>2, <2>1 DEF Recorded
<1>7. CASE CompareMarker
  <2>1. /\ gap' = gap \/ (gap = None /\ gap' = job.orphan)
        /\ clearing' = clearing
    BY <1>7 DEF CompareMarker
  <2> QED
    BY <1>1, <1>2, <2>1 DEF Recorded
<1>8. CASE UNCHANGED <<gap, losses>> /\ UnlinkMarker
  <2>1. clearing' = clearing \ {job.orphan} /\ job.step = "unlink"
    BY <1>8 DEF UnlinkMarker, JobIs
  <2>2. job.orphan = job.seen \/ gap >= job.orphan
    BY <2>1 DEF Orphans
  <2> QED
    BY <1>1, <1>2, <1>8, <2>1, <2>2 DEF Recorded
<1> QED
  BY <1>3, <1>4, <1>5, <1>6, <1>7, <1>8, MarkerMoves

\* A recorded loss survives every step: LossKept is inductive with Clocks and Orphans.
LEMMA LossKeptNext ==
  ASSUME TypeInv, Clocks, Orphans, LossKept, ~MayRaceRecovery, [Next]_vars
  PROVE  LossKept'
<1>1. /\ clock \in 1..MaxClock /\ job.started \in 0..MaxClock /\ lastStart \in Nat
           /\ lastStart' \in Nat
      /\ (job.seen = -1 \/ job.seen \in 1..MaxClock)
           /\ (\A t \in losses : t \in 1..clock /\ t \in Nat)
      /\ lastStart' >= lastStart
  <2>1. lastStart' \in Nat
    BY TypeNext DEF TypeInv
  <2> QED
    BY <2>1, Fields, LastStartGrows DEF TypeInv, None, Times, Clocks
<1> SUFFICES ASSUME NEW t \in losses'
             PROVE  lastStart' > t \/ Recorded(t)'
  BY DEF LossKept, Recorded
<1>2. t \in losses \/ Recorded(t)'
  <2>1. losses' = losses \/ (losses' = losses \cup {gap'} /\ gap' \in clock..MaxClock)
    BY MarkerMoves DEF RestoreOrphan, TakeMarker, CompareMarker, ghosts
  <2> QED
    BY <1>1, <2>1 DEF Recorded
<1>3. CASE t \in losses /\ lastStart > t
  BY <1>1, <1>3
<1>4. CASE t \in losses /\ Recorded(t)
  <2>1. Recorded(t)' \/ (UnlinkMarker /\ job.step = "unlink" /\ job.seen >= t)
    BY <1>1, <1>4, RecordedMoves
  <2>2. job.step = "unlink" => job.seen < job.started /\ lastStart = job.started
    BY DEF Clocks, Removing
  <2> QED
    BY <1>1, <1>4, <2>1, <2>2
<1> QED
  BY <1>2, <1>3, <1>4 DEF LossKept, Recorded

-----------------------------------------------------------------------------
(* Finalized trees.                                                         *)

\* A restore point one byte into a segment lies in that segment.
LEMMA SegmentOf ==
  ASSUME NEW n \in Nat
  PROVE  Segment(SegBytes * n) = n /\ Segment(SegBytes * n + 1) = n
<1>1. SegBytes \in Nat /\ SegBytes > 1
  BY SegBytesPositive, RepositoryAssumption
<1>2. \A b \in Nat : b > 1 => (b * n) \div b = n /\ (b * n + 1) \div b = n
  OBVIOUS
<1> QED
  BY <1>1, <1>2 DEF Segment

\* While the job runs nobody else touches the trees, and WAL is only added.
LEMMA JobAlone ==
  ASSUME TypeInv, OtherStep, job.step # "idle"
  PROVE  UNCHANGED <<trees, sidecars, last, prune>> /\ wal \subseteq wal'
<1>1. lock = "job" /\ prune.step = "idle"
  BY DEF TypeInv, Locked
<1>2. ~PlanPrune /\ ~ExpireSidecar /\ ~ExpireTree /\ ~DeleteSegment /\ ~EndPrune /\ ~KillPrune
  BY <1>1 DEF PlanPrune, ExpireSidecar, ExpireTree, DeleteSegment, EndPrune, KillPrune
<1>3. Receive => UNCHANGED <<trees, sidecars, last, prune>> /\ wal \subseteq wal'
  BY DEF Receive
<1>4. WriteWal \/ LoseSlot \/ Probe \/ ProbeDeferred \/ MarkMissing \/ Scan \/ Connect
        \/ StopReceiver \/ UNCHANGED vars
        => UNCHANGED <<trees, sidecars, last, prune, wal>>
  BY
     DEF WriteWal, LoseSlot, Probe, ProbeDeferred, MarkMissing, Scan, Connect, StopReceiver,
         vars, disk
<1> QED
  BY <1>2, <1>3, <1>4 DEF OtherStep

\* While the job runs prune has no plan, and each step of the job leaves it.
LEMMA PruneAlone ==
  ASSUME TypeInv, Next, ~OtherStep
  PROVE  /\ prune = Asleep /\ prune' = prune /\ prune.expired = {} /\ prune.doomed = {}
         /\ wal' = wal
<1>1. \/ Start \/ Publish \/ RestorePoint \/ WaitWal \/ StampSuccess \/ CompareOrphan
        \/ RestoreOrphan \/ CheckGap
      \/ SetFloor \/ Rotate \/ WriteMeta \/ WriteSuccess \/ TakeMarker \/ CompareMarker
        \/ UnlinkMarker \/ EndJob
  BY DEF Next, OtherStep
<1>2. lock = "free" \/ job.step # "idle"
  BY <1>1, JobMoves DEF Start, EndJob
<1>3. prune = Asleep
  BY <1>2, Fields DEF TypeInv, Locked
<1>4. prune' = prune /\ wal' = wal
  BY <1>1
     DEF Start, Publish, RestorePoint, WaitWal, StampSuccess, CompareOrphan, RestoreOrphan,
         CheckGap, SetFloor,
     Rotate, WriteMeta, WriteSuccess, TakeMarker, CompareMarker, UnlinkMarker, EndJob,
       UnchangedByJob,
     UnchangedByReader, disk
<1> QED
  BY <1>3, <1>4 DEF Asleep

\* What wait_for_wal waits for.
LEMMA WaitedFor ==
  ASSUME NEW lo, NEW hi, Contiguous(Archive, 1, lo, hi, FALSE)
  PROVE  lo..hi \subseteq wal
<1> SUFFICES ASSUME NEW s \in lo..hi PROVE s \in wal
  OBVIOUS
<1>1. <<1, s>> \in DOMAIN Archive /\ ~Archive[<<1, s>>].partial
  BY DEF Contiguous
<1>2. DOMAIN Archive = {1} \X Received
  BY DEF Archive
<1>3. Archive[<<1, s>>] = [partial |-> s \notin wal, cluster |-> OurCluster]
  BY <1>1, <1>2 DEF Archive
<1>4. PICK b \in BOOLEAN : Archive[<<1, s>>] = [partial |-> b, cluster |-> OurCluster]
        /\ b = (s \notin wal)
  BY <1>3, Zenon
<1>5. Archive[<<1, s>>].partial = b
  BY <1>4
<1>6. b = FALSE
  BY <1>1, <1>5, Zenon
<1> QED
  BY <1>4, <1>6, Zenon

\* The tree of the running job, and the WAL its sidecar will vouch for.
LEMMA CandidateNext ==
  ASSUME TypeInv, Modal, Candidate, [Next]_vars
  PROVE  Candidate'
<1>1. mode' = mode /\ mode \in {"meta", "legacy"} /\ Idle.step = "idle"
  BY ModalNext, RepositoryAssumption DEF TypeInv, Idle
<1>2. CASE OtherStep
  <2>1. UNCHANGED job
    BY <1>2, OthersLeaveJob
  <2>2. CASE job.step = "idle"
    BY <2>1, <2>2 DEF Candidate, Vouching, Recovering
  <2>3. CASE job.step # "idle"
    <3>1. UNCHANGED <<trees, sidecars>> /\ wal \subseteq wal'
      BY <1>2, <2>3, JobAlone
    <3> QED
      BY <1>1, <2>1, <3>1 DEF Candidate, Vouching, First
  <2> QED
    BY <2>2, <2>3
<1>3. CASE Start
  <2>1. job'.step = "copy" /\ job'.id \notin DOMAIN trees /\ trees' = trees
    BY <1>3, JobMoves DEF Start
  <2> QED
    BY <2>1 DEF Candidate, Vouching, Recovering
<1>4. CASE Publish
  <2>1. job'.step \in {"point", "stamp"} /\ job'.id = job.id
    BY <1>4, JobMoves DEF Keeps
  <2>2. job.id \in DOMAIN trees'
    BY <1>4 DEF Publish, Put
  <2> QED
    BY <2>1, <2>2 DEF Candidate, Vouching, Recovering
<1>5. CASE RestorePoint
  <2>1. job.step = "point" /\ job'.step = "wait" /\ job'.id = job.id /\ trees' = trees
    BY <1>5, JobMoves DEF RestorePoint, disk, Keeps
  <2> QED
    BY <2>1 DEF Candidate, Vouching, Recovering
<1>6. CASE WaitWal
  <2>1. job.step = "wait" /\ job'.step = "recover" /\ Keeps /\ job'.goal = job.goal
          /\ UNCHANGED <<trees, wal>>
    BY <1>6, JobMoves DEF WaitWal, disk
  <2>2. First(job.id)..job.goal \subseteq wal
    BY <1>6, WaitedFor DEF WaitWal, First
  <2> QED
    BY <2>1, <2>2 DEF Candidate, Vouching, First, Keeps
<1>7. CASE StampSuccess
  <2>1. mode = "legacy" /\ job'.step = "recover"
    BY <1>7, JobMoves DEF Modal
  <2> QED
    BY <1>1, <2>1 DEF Candidate, Vouching
<1>8. CASE CompareOrphan \/ RestoreOrphan \/ CheckGap \/ SetFloor \/ Rotate
  <2>1. /\ job.step \in Recovering \cup {"floor", "rotate"} /\ Keeps /\ job'.goal = job.goal
        /\ job'.step \notin {"copy", "point", "wait", "success"}
    BY <1>1, <1>8, JobMoves DEF Recovering
  <2>2. UNCHANGED <<trees, wal>>
    BY <1>8 DEF CompareOrphan, RestoreOrphan, CheckGap, SetFloor, Rotate, disk
  <2>3. mode = "meta" => Vouching
    BY <2>1 DEF Vouching
  <2> QED
    BY <1>1, <2>1, <2>2, <2>3 DEF Candidate, Vouching, First, Keeps
<1>9. CASE WriteMeta
  <2>1. job'.step = "success" /\ job'.id = job.id
    BY <1>9, JobMoves DEF Keeps
  <2>2. job.id \in DOMAIN sidecars'
    BY <1>9 DEF WriteMeta, Put
  <2> QED
    BY <2>1, <2>2 DEF Candidate, Vouching, Recovering
<1>10. CASE WriteSuccess \/ TakeMarker \/ CompareMarker \/ UnlinkMarker \/ EndJob
  <2>1. job'.step \in {"done", "remove", "compare", "unlink", "idle"}
    BY <1>1, <1>10, JobMoves
  <2> QED
    BY <2>1 DEF Candidate, Vouching, Recovering
<1> QED
  BY <1>2, <1>3, <1>4, <1>5, <1>6, <1>7, <1>8, <1>9, <1>10 DEF Next, OtherStep

\* What prune plans to delete is what no tree it keeps needs.
LEMMA PlanNext ==
  ASSUME TypeInv, Plan, [Next]_vars
  PROVE  Plan'
<1>1. CASE Next /\ ~OtherStep
  BY <1>1, PruneAlone DEF Plan
<1>2. CASE WriteWal \/ LoseSlot \/ Probe \/ ProbeDeferred \/ MarkMissing \/ Scan \/ Connect
             \/ Receive
             \/ StopReceiver \/ ExpireSidecar \/ UNCHANGED vars
  <2>1. UNCHANGED <<prune, trees, last>>
    BY <1>2
       DEF WriteWal, LoseSlot, Probe, ProbeDeferred, MarkMissing, Scan, Connect, Receive,
           StopReceiver,
                ExpireSidecar, vars, disk
  <2> QED
    BY <2>1 DEF Plan, First
<1>3. CASE PlanPrune
  <2>1. PICK newest \in SUBSET DOMAIN trees, cutoff \in 1..clock, below \in 0..MaxSegment :
           /\ \A id \in Retained(newest, cutoff) : below <= First(id)
           /\ prune' = [step |-> "trees", expired |-> DOMAIN trees \ Retained(newest, cutoff),
                        doomed |-> {s \in wal : s < below}]
    BY <1>3 DEF PlanPrune, First
  <2>2. UNCHANGED <<trees, last>>
    BY <1>3 DEF PlanPrune, disk
  <2>3. last \notin prune'.expired
    BY <2>1 DEF Retained
  <2>4. ASSUME NEW id \in DOMAIN trees \ prune'.expired, NEW s \in prune'.doomed
        PROVE  s < First(id)
    <3>3. prune'.expired = DOMAIN trees \ Retained(newest, cutoff)
            /\ prune'.doomed = {x \in wal : x < below}
      BY <2>1
    <3>4. id \in Retained(newest, cutoff) /\ s \in wal /\ s < below
      BY <2>4, <3>3
    <3>1. below <= First(id) /\ s < below /\ s \in Int
      BY <2>1, <3>4 DEF TypeInv
    <3>2. First(id) \in Int
      BY Fields, SegBytesPositive DEF First, Segment, TreeType
    <3> QED
      BY <3>1, <3>2
  <2> QED
    BY <2>1, <2>2, <2>3, <2>4 DEF Plan, First
<1>4. CASE ExpireTree
  <2>1. PICK id \in prune.expired \ DOMAIN sidecars :
           /\ trees' = Without(trees, id)
           /\ prune' = [prune EXCEPT !.expired = @ \ {id}]
    BY <1>4 DEF ExpireTree
  <2>2. prune'.expired = prune.expired \ {id} /\ prune'.doomed = prune.doomed
    BY <2>1, Fields DEF TypeInv, PruneType
  <2>3. DOMAIN trees' = DOMAIN trees \ {id} /\ \A x \in DOMAIN trees' : trees'[x] = trees[x]
    BY <2>1 DEF Without
  <2>4. last' = last
    BY <1>4 DEF ExpireTree
  <2> QED
    BY <2>2, <2>3, <2>4 DEF Plan, First
<1>5. CASE DeleteSegment
  <2>1. PICK s \in prune.doomed : prune' = [prune EXCEPT !.doomed = @ \ {s}]
    BY <1>5 DEF DeleteSegment
  <2>2. prune'.expired = prune.expired /\ prune'.doomed = prune.doomed \ {s}
    BY <2>1, Fields DEF TypeInv, PruneType
  <2>3. UNCHANGED <<trees, last>>
    BY <1>5 DEF DeleteSegment
  <2> QED
    BY <2>2, <2>3 DEF Plan, First
<1>6. CASE EndPrune \/ KillPrune
  BY <1>6 DEF EndPrune, KillPrune, Asleep, Plan
<1> QED
  BY <1>1, <1>2, <1>3, <1>4, <1>5, <1>6 DEF OtherStep, Next

\* A finalized tree stays restorable through every step of the job and of prune.
LEMMA RestorableNext ==
  ASSUME TypeInv, Modal, Candidate, Plan, FinalizedRestorable, [Next]_vars
  PROVE  FinalizedRestorable'
<1>2. CASE /\ UNCHANGED <<trees, sidecars>> /\ wal \subseteq wal'
           /\ last' = last \/ last' \in DOMAIN sidecars
  BY <1>2 DEF FinalizedRestorable
<1>3. CASE Publish
  <2>1. /\ DOMAIN trees' = DOMAIN trees \cup {job.id} /\ job.id \notin DOMAIN trees
        /\ \A x \in DOMAIN trees : trees'[x] = trees[x]
        /\ UNCHANGED <<sidecars, last, wal>>
    BY <1>3 DEF Publish, Put, Candidate, JobIs
  <2> QED
    BY <2>1 DEF FinalizedRestorable
<1>4. CASE StampSuccess
  BY <1>4 DEF StampSuccess, FinalizedRestorable, Stamp, Ids
<1>5. CASE WriteMeta
  <2>1. /\ DOMAIN sidecars' = DOMAIN sidecars \cup {job.id}
        /\ \A x \in DOMAIN sidecars : x # job.id => sidecars'[x] = sidecars[x]
        /\ sidecars'[job.id].goal = SegBytes * job.goal + 1
        /\ UNCHANGED <<trees, last, wal>>
    BY <1>5 DEF WriteMeta, Put
  <2>2. job.id \in DOMAIN trees /\ First(job.id)..job.goal \subseteq wal
    BY <1>5 DEF WriteMeta, JobIs, Modal, Candidate, Vouching
  <2>3. Segment(sidecars'[job.id].goal) = job.goal
    BY <2>1, SegmentOf, Fields
  <2> QED
    BY <2>1, <2>2, <2>3 DEF FinalizedRestorable, First
<1>6. CASE ExpireSidecar
  <2>1. PICK id \in prune.expired : /\ DOMAIN sidecars' = DOMAIN sidecars \ {id}
                                    /\ \A x \in DOMAIN sidecars' : sidecars'[x] = sidecars[x]
    BY <1>6 DEF ExpireSidecar, Without
  <2>2. last # id /\ UNCHANGED <<trees, last, wal>>
    BY <1>6 DEF ExpireSidecar, Plan
  <2> QED
    BY <2>1, <2>2 DEF FinalizedRestorable
<1>7. CASE ExpireTree
  <2>1. PICK id : /\ id \notin DOMAIN sidecars /\ DOMAIN trees' = DOMAIN trees \ {id}
                  /\ \A x \in DOMAIN trees' : trees'[x] = trees[x]
    BY <1>7 DEF ExpireTree, Without
  <2>2. UNCHANGED <<sidecars, last, wal>>
    BY <1>7 DEF ExpireTree
  <2> QED
    BY <2>1, <2>2 DEF FinalizedRestorable
<1>8. CASE DeleteSegment
  <2>1. PICK s \in prune.doomed : wal' = wal \ {s}
    BY <1>8 DEF DeleteSegment
  <2>2. prune.expired = {} /\ UNCHANGED <<trees, sidecars, last>>
    BY <1>8 DEF DeleteSegment
  <2>3. ASSUME NEW id \in DOMAIN sidecars
        PROVE  First(id)..Segment(sidecars[id].goal) \subseteq wal'
    <3>1. id \in DOMAIN trees /\ First(id)..Segment(sidecars[id].goal) \subseteq wal
      BY <2>3 DEF FinalizedRestorable, First
    <3>2. s < First(id)
      BY <2>2, <3>1 DEF Plan
    <3>3. First(id) \in Int /\ s \in Int
      BY <3>1, Fields, SegBytesPositive DEF First, Segment, TreeType
    <3>4. s \notin First(id)..Segment(sidecars[id].goal)
      BY <3>2, <3>3
    <3> QED
      BY <2>1, <3>1, <3>4
  <2> QED
    BY <2>2, <2>3 DEF FinalizedRestorable, First
<1>9. CASE WriteWal \/ LoseSlot \/ Probe \/ ProbeDeferred \/ MarkMissing \/ Scan \/ Connect
             \/ Receive
             \/ StopReceiver \/ PlanPrune \/ EndPrune \/ KillPrune \/ UNCHANGED vars
  BY <1>2, <1>9
     DEF WriteWal, LoseSlot, Probe, ProbeDeferred, MarkMissing, Scan, Connect, Receive,
         StopReceiver,
                    PlanPrune, EndPrune, KillPrune, vars, disk
<1>10. CASE Start \/ RestorePoint \/ WaitWal \/ CompareOrphan \/ RestoreOrphan \/ CheckGap
              \/ SetFloor \/ Rotate
              \/ TakeMarker \/ CompareMarker \/ UnlinkMarker \/ EndJob
  BY <1>2, <1>10
     DEF Start, RestorePoint, WaitWal, CompareOrphan, RestoreOrphan, CheckGap, SetFloor,
         Rotate,
                     TakeMarker, CompareMarker, UnlinkMarker, EndJob, disk
<1>11. CASE WriteSuccess
  <2>1. job.id \in DOMAIN sidecars
    BY <1>11 DEF WriteSuccess, JobIs, Candidate
  <2> QED
    BY <1>2, <1>11, <2>1 DEF WriteSuccess
<1> QED
  BY <1>3, <1>4, <1>5, <1>6, <1>7, <1>8, <1>9, <1>10, <1>11 DEF Next

-----------------------------------------------------------------------------
(* No invented gap.                                                         *)

\* The last of the segments read from the directory.
LEMMA HighestIs ==
  ASSUME NEW S, NEW m \in Int, m \in S, \A x \in S : x \in Int /\ x <= m
  PROVE  HighestOf(S) = m
<1>1. \A x \in S : m >= x
  OBVIOUS
<1>2. ASSUME NEW y \in S, \A x \in S : y >= x
      PROVE  y = m
  BY <1>2
<1> QED
  BY <1>1, <1>2 DEF HighestOf

\* The first one of them likewise.
LEMMA LowestIs ==
  ASSUME NEW S, NEW m \in Int, m \in S, \A x \in S : x \in Int /\ m <= x
  PROVE  LowestOf(S) = m
<1>1. ASSUME NEW y \in S, \A x \in S : y <= x
      PROVE  y = m
  BY <1>1
<1> QED
  BY <1>1 DEF LowestOf

\* What mark_gap reads of an archive without a hole, with the open segment last.
LEMMA ScanFindsNothing ==
  ASSUME TypeInv, NEW h \in Nat, NEW lo \in 0..h, open = {h}, wal = lo..(h - 1),
           source.restart <= h,
         \A id \in DOMAIN trees : lo <= First(id)
  PROVE  Covered
<1>1. Received = lo..h
  BY DEF Received
<1>12. /\ h \in Int /\ lo \in Int /\ h \in lo..h /\ lo \in lo..h
       /\ \A x \in lo..h : x \in Int /\ x <= h /\ lo <= x
  OBVIOUS
<1>13. HighestOf(lo..h) = h /\ LowestOf(lo..h) = lo
  <2>1. HighestOf(lo..h) = h
    BY <1>12, HighestIs
  <2>2. LowestOf(lo..h) = lo
    BY <1>12, LowestIs
  <2> QED
    BY <2>1, <2>2
<1>2. HighestOf(Received) = h
  BY <1>1, <1>13
<1>3. DOMAIN Archive = {1} \X (lo..h)
  BY <1>1 DEF Archive
<1>4. TimelinesOf(Archive) = {1}
  <2>1. \A c \in {1} \X (lo..h) : c[1] = 1
    OBVIOUS
  <2>2. <<1, h>> \in {1} \X (lo..h) /\ <<1, h>>[1] = 1
    BY <1>12
  <2> QED
    BY <1>3, <2>1, <2>2 DEF TimelinesOf
<1>5. On(Archive, 1) = lo..h
  BY <1>3 DEF On
<1>6. LowestOf(On(Archive, 1)) = lo /\ HighestOf(On(Archive, 1)) = h
  BY <1>5, <1>13
<1>7. Contiguous(Archive, 1, lo, h, TRUE)
  <2> SUFFICES ASSUME NEW s \in lo..h
               PROVE  <<1, s>> \in DOMAIN Archive /\ (~Archive[<<1, s>>].partial \/ (TRUE /\ s = h))
    BY DEF Contiguous
  <2>1. <<1, s>> \in DOMAIN Archive
    BY <1>3
  <2>2. Archive[<<1, s>>] = [partial |-> s \notin wal, cluster |-> OurCluster]
    BY <1>1, <2>1 DEF Archive
  <2>3. PICK b \in BOOLEAN : Archive[<<1, s>>] = [partial |-> b, cluster |-> OurCluster]
          /\ b = (s \notin wal)
    BY <2>2, Zenon
  <2>4. Archive[<<1, s>>].partial = b
    BY <2>3
  <2>5. s = h \/ s \in wal
    OBVIOUS
  <2>6. s \in wal => b = FALSE
    BY <2>3, Zenon
  <2> QED
    BY <2>1, <2>4, <2>5, <2>6, Zenon
<1>8. ~HasHole(Archive)
  BY <1>4, <1>6, <1>7 DEF HasHole
<1>9. OldestBase = None \/ OldestBase \in DOMAIN trees
  BY DEF OldestBase, Oldest, Anchors
<1>10. OldestBase \in DOMAIN trees => ~LeadingGap(Archive, 1, Segment(trees[OldestBase].start))
  <2> SUFFICES ASSUME OldestBase \in DOMAIN trees
               PROVE  ~LeadingGap(Archive, 1, First(OldestBase))
    BY DEF First
  <2>1. lo <= First(OldestBase)
    OBVIOUS
  <2>2. First(OldestBase) \in Int
    BY Fields, SegBytesPositive DEF First, Segment, TreeType
  <2> QED
    <3>1. On(Archive, 1) # {}
      BY <1>5, <1>12
    <3>2. ~(lo > First(OldestBase))
      BY <1>12, <2>1, <2>2
    <3>3. ~(LowestOf(On(Archive, 1)) > First(OldestBase))
      BY <1>6, <3>2
    <3> QED
      BY <3>1, <3>3, Zenon DEF LeadingGap
<1>11. source.restart <= HighestOf(Received) + 1
  BY <1>2, Fields
<1> QED
  BY <1>8, <1>9, <1>10, <1>11 DEF Covered

\* Without a lost slot or a killed prune the archive stays one run of segments,
\* and the coverage scan has nothing to report.
LEMMA ContinuousNext ==
  ASSUME TypeInv, Continuous, [Next]_vars
  PROVE  Continuous'
<1> SUFFICES ASSUME ~disturbed'
             PROVE  /\ losses' = {} /\ source'.slot = "present" /\ rcv' # "mark"
                    /\ \E h \in 0..MaxSegment : \E lo \in 0..h : Whole(h, lo)'
  BY DEF Continuous
<1>1. ~disturbed /\ ~LoseSlot /\ ~KillPrune
  <2>1. disturbed = disturbed' \/ LoseSlot \/ KillPrune
    BY
       DEF Next, WriteWal, LoseSlot, Probe, ProbeDeferred, MarkMissing, Scan, Connect,
           Receive, StopReceiver, Start,
         Publish, RestorePoint, WaitWal, StampSuccess, CompareOrphan, RestoreOrphan, CheckGap,
           SetFloor, Rotate,
         WriteMeta, WriteSuccess, TakeMarker, CompareMarker, UnlinkMarker, EndJob, PlanPrune,
           ExpireSidecar,
         ExpireTree, DeleteSegment, EndPrune, KillPrune, vars, ghosts
  <2>2. LoseSlot \/ KillPrune => disturbed'
    BY Zenon DEF LoseSlot, KillPrune
  <2>3. ~LoseSlot /\ ~KillPrune
    BY <2>2, Zenon
  <2>4. disturbed = disturbed'
    BY <2>1, <2>3, Zenon
  <2>5. CASE disturbed
    BY <2>4, <2>5
  <2> QED
    BY <2>3, <2>5, Zenon
<1>2. /\ losses = {} /\ source.slot = "present" /\ rcv # "mark"
  BY <1>1 DEF Continuous
<1>3. PICK h \in 0..MaxSegment : \E lo \in 0..h : Whole(h, lo)
  BY <1>1 DEF Continuous
<1>4. PICK lo \in 0..h : Whole(h, lo)
  BY <1>3
<1>5. /\ MaxSegment \in Nat /\ h \in Nat /\ lo \in Nat /\ lo <= h /\ h <= MaxSegment
      /\ source.head \in 0..MaxSegment /\ source.restart \in 0..MaxSegment
           /\ source.keep \in 0..MaxSegment
  BY RepositoryAssumption, Fields
<1>6. ASSUME UNCHANGED <<source, open, wal, trees>>, prune' = prune, job'.step # "copy"
               \/ job' = job
      PROVE  source'.slot = "present" /\ Whole(h, lo)'
  BY <1>2, <1>4, <1>6 DEF Whole, First
<1>7. CASE Next /\ ~OtherStep
  <2>1. UNCHANGED <<rcv, losses>> /\ prune' = prune /\ wal' = wal /\ prune = Asleep
    <3>1. \/ Start \/ Publish \/ RestorePoint \/ WaitWal \/ StampSuccess \/ CompareOrphan
            \/ RestoreOrphan
          \/ CheckGap \/ SetFloor \/ Rotate \/ WriteMeta \/ WriteSuccess \/ TakeMarker
            \/ CompareMarker
          \/ UnlinkMarker \/ EndJob
      BY <1>7 DEF Next, OtherStep
    <3>2. UNCHANGED <<rcv, losses>>
      BY <3>1
         DEF Start, Publish, RestorePoint, WaitWal, StampSuccess, CompareOrphan,
             RestoreOrphan, CheckGap,
         SetFloor, Rotate, WriteMeta, WriteSuccess, TakeMarker, CompareMarker, UnlinkMarker,
           EndJob, UnchangedByJob,
         UnchangedByReader, disk, ghosts
    <3> QED
      BY <1>7, <3>2, PruneAlone
  <2>2. CASE Start
    <3>1. UNCHANGED <<source, open, trees>> /\ job'.goal = source.head
      BY <2>2, JobMoves DEF Start
    <3> QED
      BY <1>2, <1>4, <1>5, <2>1, <3>1 DEF Whole, First
  <2>3. CASE Publish
    <3>1. /\ UNCHANGED <<source, open>> /\ job.step = "copy" /\ job'.step # "copy"
      BY <2>3, JobMoves DEF Publish
    <3>2. /\ DOMAIN trees' = DOMAIN trees \cup {job.id}
          /\ \A x \in DOMAIN trees : x # job.id => trees'[x] = trees[x]
          /\ trees'[job.id].start = SegBytes * job.goal
      BY <2>3 DEF Publish, Put
    <3>3. Segment(SegBytes * job.goal) = job.goal /\ lo <= job.goal
      BY <1>4, <3>1, SegmentOf, Fields DEF Whole
    <3>4. \A id \in DOMAIN trees' \ prune'.expired : lo <= First(id)'
      BY <1>4, <2>1, <3>2, <3>3 DEF Whole, First
    <3> QED
      BY <1>2, <1>4, <2>1, <3>1, <3>4 DEF Whole
  <2>4. CASE RestorePoint
    <3>1. UNCHANGED <<open, trees>> /\ source' = [source EXCEPT !.head = @ + 1]
            /\ job'.step # "copy"
      BY <2>4, JobMoves DEF RestorePoint, disk
    <3>2. /\ source'.head = source.head + 1 /\ source'.restart = source.restart
               /\ source'.keep = source.keep
          /\ source'.slot = source.slot
      BY <3>1 DEF TypeInv, SourceType
    <3> QED
      BY <1>2, <1>4, <1>5, <2>1, <3>1, <3>2 DEF Whole, First
  <2>5. CASE \/ WaitWal \/ StampSuccess \/ CompareOrphan \/ RestoreOrphan \/ CheckGap \/ SetFloor
               \/ Rotate
             \/ WriteMeta \/ WriteSuccess \/ TakeMarker \/ CompareMarker \/ UnlinkMarker \/ EndJob
    <3>1. UNCHANGED <<source, open, trees>>
      BY <2>5
         DEF WaitWal, StampSuccess, CompareOrphan, RestoreOrphan, CheckGap, SetFloor,
             Rotate, WriteMeta,
                  WriteSuccess, TakeMarker, CompareMarker, UnlinkMarker, EndJob, disk
    <3>2. job'.step # "copy"
      BY <2>5, JobMoves DEF Idle
    <3> QED
      BY <1>2, <1>6, <2>1, <3>1, <3>2
  <2> QED
    BY <1>7, <2>2, <2>3, <2>4, <2>5 DEF Next, OtherStep
<1>8. CASE WriteWal
  <2>1. /\ UNCHANGED <<open, wal, trees, prune, job, rcv, losses>>
        /\ source'.head = source.head + 1 /\ source'.restart = source.restart
             /\ source'.keep = source.keep
        /\ source'.slot = source.slot
    BY <1>8 DEF WriteWal, TypeInv, SourceType, disk, ghosts
  <2> QED
    BY <1>2, <1>4, <1>5, <2>1 DEF Whole, First
<1>9. CASE Probe \/ ProbeDeferred \/ StopReceiver \/ ExpireSidecar \/ UNCHANGED vars
  <2>1. UNCHANGED <<open, wal, trees, prune, job, losses>> /\ rcv' # "mark"
    BY <1>2, <1>9 DEF Probe, ProbeDeferred, StopReceiver, ExpireSidecar, vars, disk, ghosts
  <2>2. source' = source
    BY <1>2, <1>9 DEF Probe, ProbeDeferred, StopReceiver, ExpireSidecar, vars, LostSlot
  <2> QED
    BY <1>2, <1>6, <2>1, <2>2
<1>10. CASE Scan
  <2>1. UNCHANGED <<source, open, wal, trees, prune, job>> /\ rcv' = "create"
    BY <1>10 DEF Scan
  <2>2. lock = "free" => Covered
    <3> SUFFICES ASSUME lock = "free" PROVE Covered
      OBVIOUS
    <3>1. prune.expired = {} /\ prune.doomed = {}
      BY Fields DEF TypeInv, Locked, Asleep
    <3>2. open = {h} /\ wal = lo..(h - 1) /\ source.restart <= h
            /\ \A id \in DOMAIN trees : lo <= First(id)
      BY <1>4, <3>1 DEF Whole
    <3> QED
      BY <1>5, <3>2, ScanFindsNothing
  <2>3. losses' = losses
    BY <1>10, <2>2 DEF Scan
  <2> QED
    BY <1>2, <1>6, <2>1, <2>3
<1>11. CASE Connect
  <2>1. source' = source /\ UNCHANGED <<wal, trees, prune, job, losses>> /\ rcv' = "receive"
    BY <1>2, <1>11 DEF Connect, ghosts
  <2>2. PICK newest \in Received :
           /\ \A s \in Received : s <= newest
           /\ open' = open \cup {HighestOf({newest + (IF newest \in wal THEN 1 ELSE 0),
                source'.keep})}
    BY <1>11 DEF Connect
  <2>3. newest = h /\ h \notin wal
    BY <1>4, <1>5, <2>2 DEF Whole, Received
  <2>4. HighestOf({h, source.keep}) = h
    <3>1. h \in {h, source.keep} /\ h \in Int /\ \A x \in {h, source.keep} : x \in Int /\ x <= h
      BY <1>4, <1>5 DEF Whole
    <3> QED
      BY <3>1, HighestIs
  <2>5. open' = open
    BY <1>4, <1>5, <2>1, <2>2, <2>3, <2>4 DEF Whole
  <2> QED
    BY <1>2, <1>6, <2>1, <2>5
<1>12. CASE Receive
  <2>1. PICK segment \in open :
           /\ segment < source.head
           /\ wal' = wal \cup {segment}
           /\ open' = (open \ {segment}) \cup {segment + 1}
           /\ source' = [source EXCEPT !.restart = segment + 1, !.keep = HighestOf({@, segment})]
    BY <1>12 DEF Receive
  <2>2. segment = h /\ h < source.head
    BY <1>4, <2>1 DEF Whole
  <2>3. HighestOf({source.keep, h}) = h
    BY <1>4, <1>5, HighestIs DEF Whole
  <2>4. /\ source'.head = source.head /\ source'.restart = h + 1 /\ source'.keep = h
             /\ source'.slot = source.slot
    BY <2>1, <2>2, <2>3 DEF TypeInv, SourceType
  <2>5. open' = {h + 1} /\ wal' = wal \cup {h} /\ h + 1 \in 0..MaxSegment /\ lo \in 0..(h + 1)
    BY <1>4, <1>5, <2>1, <2>2 DEF Whole
  <2>6. wal' = (lo..((h + 1) - 1)) \cup prune.doomed
    BY <1>4, <1>5, <2>5 DEF Whole
  <2>7. UNCHANGED <<trees, prune, job, losses>> /\ rcv' = rcv
    BY <1>12 DEF Receive, ghosts
  <2>8. Whole(h + 1, lo)'
    BY <1>4, <1>5, <2>2, <2>4, <2>5, <2>6, <2>7 DEF Whole, First
  <2> QED
    BY <1>2, <2>4, <2>5, <2>7, <2>8
<1>13. CASE PlanPrune
  <2>1. PICK newest \in SUBSET DOMAIN trees, cutoff \in 1..clock, below \in 0..MaxSegment :
           /\ \A id \in Retained(newest, cutoff) : below <= First(id)
           /\ prune' = [step |-> "trees", expired |-> DOMAIN trees \ Retained(newest, cutoff),
                        doomed |-> {s \in wal : s < below}]
    BY <1>13 DEF PlanPrune, First
  <2>2. prune'.expired = DOMAIN trees \ Retained(newest, cutoff)
          /\ prune'.doomed = {s \in wal : s < below}
    BY <2>1
  <2>3. UNCHANGED <<source, rcv, job, wal, open, trees, losses>>
    BY <1>13 DEF PlanPrune, disk, ghosts
  <2>4. prune.expired = {} /\ prune.doomed = {} /\ wal = lo..(h - 1)
    BY <1>4, <1>13 DEF PlanPrune, TypeInv, Locked, Asleep, Whole
  <2>5. PICK low \in 0..h : low = (IF below <= lo THEN lo ELSE IF below <= h THEN below ELSE h)
    BY <1>5, <2>1
  <2>6. wal' = (low..(h - 1)) \cup prune'.doomed /\ prune'.doomed \subseteq 0..(low - 1)
    BY <1>5, <2>1, <2>2, <2>3, <2>4, <2>5
  <2>7. ASSUME NEW id \in DOMAIN trees \ prune'.expired
        PROVE  low <= First(id)
    <3>1. below <= First(id) /\ lo <= First(id)
      BY <1>4, <2>1, <2>2, <2>4 DEF Whole
    <3>2. First(id) \in Int
      BY Fields, SegBytesPositive DEF First, Segment, TreeType
    <3> QED
      BY <1>5, <2>1, <2>5, <3>1, <3>2
  <2>8. job'.step # "copy"
    BY <1>13, <2>3 DEF PlanPrune, TypeInv, Locked
  <2>9. Whole(h, low)'
    BY <1>4, <2>3, <2>6, <2>7, <2>8 DEF Whole, First
  <2> QED
    BY <1>2, <2>3, <2>9
<1>14. CASE ExpireTree
  <2>1. PICK id \in prune.expired : /\ trees' = Without(trees, id)
                                    /\ prune' = [prune EXCEPT !.expired = @ \ {id}]
    BY <1>14 DEF ExpireTree
  <2>2. prune'.expired = prune.expired \ {id} /\ prune'.doomed = prune.doomed
    BY <2>1, Fields DEF TypeInv, PruneType
  <2>3. DOMAIN trees' = DOMAIN trees \ {id} /\ \A x \in DOMAIN trees' : trees'[x] = trees[x]
    BY <2>1 DEF Without
  <2>4. UNCHANGED <<source, rcv, job, wal, open, losses>>
    BY <1>14 DEF ExpireTree, ghosts
  <2> QED
    BY <1>2, <1>4, <2>2, <2>3, <2>4 DEF Whole, First
<1>15. CASE DeleteSegment
  <2>1. PICK s \in prune.doomed : wal' = wal \ {s} /\ prune' = [prune EXCEPT !.doomed = @ \ {s}]
    BY <1>15 DEF DeleteSegment
  <2>2. prune'.expired = prune.expired /\ prune'.doomed = prune.doomed \ {s}
    BY <2>1, Fields DEF TypeInv, PruneType
  <2>3. UNCHANGED <<source, rcv, job, open, trees, losses>>
    BY <1>15 DEF DeleteSegment, ghosts
  <2>4. wal' = (lo..(h - 1)) \cup prune'.doomed /\ prune'.doomed \subseteq 0..(lo - 1)
    BY <1>4, <1>5, <2>1, <2>2 DEF Whole
  <2> QED
    BY <1>2, <1>4, <2>2, <2>3, <2>4 DEF Whole, First
<1>16. CASE EndPrune
  <2>1. prune.expired = {} /\ prune.doomed = {} /\ prune'.expired = {} /\ prune'.doomed = {}
    BY <1>16 DEF EndPrune, Asleep
  <2>2. UNCHANGED <<source, rcv, job, wal, open, trees, losses>>
    BY <1>16 DEF EndPrune, disk, ghosts
  <2> QED
    BY <1>2, <1>4, <2>1, <2>2 DEF Whole, First
<1>17. ~MarkMissing
  BY <1>2 DEF MarkMissing
<1> QED
  BY <1>1, <1>7, <1>8, <1>9, <1>10, <1>11, <1>12, <1>13, <1>14, <1>15, <1>16, <1>17
     DEF Next, OtherStep

-----------------------------------------------------------------------------
(* Health.                                                                  *)

\* What only grows: the clock, the WAL the source has written, the generation.
LEMMA Grows ==
  ASSUME TypeInv, [Next]_vars
  PROVE  /\ clock' >= clock /\ source'.head >= source.head /\ epoch' >= epoch
         /\ clock' \in Nat /\ clock \in Nat /\ source.head \in Nat /\ source'.head \in Nat
         /\ epoch \in Nat /\ epoch' \in Nat
<1>1. TypeInv'
  BY TypeNext
<1>2. /\ clock' \in Nat /\ clock \in Nat /\ source.head \in Nat /\ source'.head \in Nat
      /\ epoch \in Nat /\ epoch' \in Nat
  BY <1>1 DEF TypeInv, SourceType
<1>3. clock' >= clock
  <2>1. clock' = clock \/ ReadClock
    BY
       DEF Next, WriteWal, LoseSlot, Probe, ProbeDeferred, MarkMissing, Scan, Connect,
           Receive, StopReceiver, Start,
       Publish, RestorePoint, WaitWal, StampSuccess, CompareOrphan, RestoreOrphan, CheckGap,
         SetFloor, Rotate,
       WriteMeta, WriteSuccess, TakeMarker, CompareMarker, UnlinkMarker, EndJob, PlanPrune,
         ExpireSidecar,
       ExpireTree, DeleteSegment, EndPrune, KillPrune, vars, UnchangedByJob, WriteMarker
  <2> QED
    BY <1>2, <2>1 DEF ReadClock
<1>4. source'.head >= source.head
  <2>1. \/ source'.head = source.head
        \/ source'.head = source.head + 1
    <3>1. CASE WriteWal \/ RestorePoint
      BY <3>1 DEF WriteWal, RestorePoint, TypeInv, SourceType
    <3>2. CASE LoseSlot \/ Probe \/ Connect \/ Receive
      BY <3>2 DEF LoseSlot, Probe, Connect, Receive, TypeInv, SourceType
    <3>3. CASE ~(WriteWal \/ RestorePoint \/ LoseSlot \/ Probe \/ Connect \/ Receive)
      <4>1. source' = source
        BY <3>3
           DEF Next, ProbeDeferred, MarkMissing, Scan, StopReceiver, Start, Publish,
               WaitWal, StampSuccess,
           CompareOrphan, RestoreOrphan, CheckGap, SetFloor, Rotate, WriteMeta, WriteSuccess,
             TakeMarker,
           CompareMarker, UnlinkMarker, EndJob, PlanPrune, ExpireSidecar, ExpireTree,
             DeleteSegment, EndPrune,
           KillPrune, vars
      <4> QED
        BY <4>1
    <3> QED
      BY <3>1, <3>2, <3>3
  <2> QED
    BY <1>2, <2>1
<1>5. epoch' = epoch \/ epoch' = epoch + 1
  BY
     DEF Next, WriteWal, LoseSlot, Probe, ProbeDeferred, MarkMissing, Scan, Connect,
         Receive, StopReceiver, Start,
     Publish, RestorePoint, WaitWal, StampSuccess, CompareOrphan, RestoreOrphan, CheckGap,
       SetFloor, Rotate,
     WriteMeta, WriteSuccess, TakeMarker, CompareMarker, UnlinkMarker, EndJob, PlanPrune,
       ExpireSidecar,
     ExpireTree, DeleteSegment, EndPrune, KillPrune, vars, disk
<1> QED
  BY <1>2, <1>3, <1>4, <1>5

\* What the trees, the sidecars and LAST_SUCCESS go through.
LEMMA TreeMoves ==
  ASSUME TypeInv, [Next]_vars
  PROVE  /\ trees' = trees \/ Publish \/ ExpireTree
         /\ UNCHANGED <<sidecars, last, lastStart>> \/ StampSuccess \/ WriteMeta \/ WriteSuccess
              \/ ExpireSidecar
         /\ StampSuccess \/ WriteMeta \/ WriteSuccess \/ ExpireSidecar => trees' = trees
         /\ floor' = floor \/ SetFloor
         /\ epoch' = epoch \/ Rotate
         /\ OtherStep => UNCHANGED <<lastStart, floor, epoch>>
<1>1. CASE Next /\ ~OtherStep
  <2>1. \/ Start \/ Publish \/ RestorePoint \/ WaitWal \/ StampSuccess \/ CompareOrphan
          \/ RestoreOrphan \/ CheckGap
        \/ SetFloor \/ Rotate \/ WriteMeta \/ WriteSuccess \/ TakeMarker \/ CompareMarker
          \/ UnlinkMarker \/ EndJob
    BY <1>1 DEF Next, OtherStep
  <2>2. ~ExpireSidecar
    BY <1>1 DEF OtherStep
  <2> QED
    BY <1>1, <2>1, <2>2
       DEF Start, Publish, RestorePoint, WaitWal, StampSuccess, CompareOrphan,
           RestoreOrphan,
       CheckGap, SetFloor, Rotate, WriteMeta, WriteSuccess, TakeMarker, CompareMarker,
         UnlinkMarker, EndJob, disk,
       ghosts
<1>2. CASE OtherStep
  <2>1. ~StampSuccess /\ ~WriteMeta /\ ~WriteSuccess
    BY <1>2, OthersLeaveJob, JobMoves
  <2> QED
    BY <1>2, <2>1
       DEF OtherStep, WriteWal, LoseSlot, Probe, ProbeDeferred, MarkMissing, Scan, Connect,
           Receive,
       StopReceiver, PlanPrune, ExpireSidecar, ExpireTree, DeleteSegment, EndPrune, KillPrune,
         vars, disk, ghosts
<1> QED
  BY <1>1, <1>2 DEF OtherStep

\* Trees are numbered, published and started in one order.
LEMMA OrderNext ==
  ASSUME TypeInv, Order, [Next]_vars
  PROVE  Order'
<1>1. /\ clock' >= clock /\ source'.head >= source.head /\ clock \in Nat /\ clock' \in Nat
           /\ source.head \in Nat
      /\ source'.head \in Nat /\ DOMAIN trees \subseteq Nat
      /\ \A a \in DOMAIN trees : trees[a].published \in Nat /\ First(a) \in Int
      /\ job.goal \in Nat /\ job.id \in Nat
  <2>1. \A a \in DOMAIN trees : trees[a].published \in Nat /\ First(a) \in Int
    BY Fields, SegBytesPositive DEF First, Segment, TreeType, Times
  <2> QED
    BY <2>1, Grows, Fields DEF TypeInv, Ids
<1>2. CASE UNCHANGED trees /\ (job'.step = "copy" => job' = job)
  BY <1>1, <1>2 DEF Order, First
<1>3. CASE Start
  <2>1. PICK id \in Ids : /\ \A used \in DOMAIN trees : used < id
                          /\ job' = [Idle EXCEPT !.step = "copy", !.id = id, !.started = clock',
                               !.goal = source.head]
    BY <1>3 DEF Start
  <2>2. job'.id = id /\ job'.goal = source.head
    BY <2>1 DEF Idle
  <2>3. trees' = trees /\ source' = source
    BY <1>3 DEF Start
  <2> QED
    BY <1>1, <2>1, <2>2, <2>3 DEF Order, First
<1>4. CASE Publish
  <2>8. PICK j \in Nat : j = job.id
    BY <1>1
  <2>1. /\ DOMAIN trees' = DOMAIN trees \cup {j} /\ \A x \in DOMAIN trees : x # j
             => trees'[x] = trees[x]
        /\ trees'[j].start = SegBytes * job.goal /\ trees'[j].published = clock'
        /\ job.step = "copy" /\ source' = source
    BY <1>4, <2>8 DEF Publish, Put, JobIs
  <2>2. Segment(SegBytes * job.goal) = job.goal
    BY <1>1, SegmentOf
  <2>3. job'.step # "copy"
    BY <1>4, JobMoves
  <2>4. /\ \A a \in DOMAIN trees : a < j /\ First(a) <= job.goal /\ trees[a].published <= clock'
        /\ job.goal <= source.head
    BY <1>1, <2>1, <2>8 DEF Order
  <2>5. First(j)' = job.goal /\ \A x \in DOMAIN trees : First(x)' = First(x) /\ trees'[x] = trees[x]
    BY <1>1, <2>1, <2>2, <2>4 DEF First
  <2>6. \A a \in DOMAIN trees' : trees'[a].published <= clock' /\ First(a)' <= source'.head
    BY <1>1, <2>1, <2>4, <2>5 DEF Order
  <2>7. \A a, b \in DOMAIN trees' : a < b
          => First(a)' <= First(b)' /\ trees'[a].published <= trees'[b].published
    <3> SUFFICES ASSUME NEW a \in DOMAIN trees', NEW b \in DOMAIN trees', a < b
                 PROVE  First(a)' <= First(b)' /\ trees'[a].published <= trees'[b].published
      OBVIOUS
    <3>1. a \in DOMAIN trees
      BY <1>1, <2>1, <2>4
    <3>2. CASE b = j
      BY <1>1, <2>1, <2>4, <2>5, <3>1, <3>2
    <3>3. CASE b \in DOMAIN trees
      BY <2>5, <3>1, <3>3 DEF Order
    <3> QED
      BY <2>1, <3>2, <3>3
  <2> QED
    BY <2>3, <2>6, <2>7 DEF Order
<1>5. CASE ExpireTree
  <2>1. PICK id : /\ DOMAIN trees' = DOMAIN trees \ {id}
                  /\ \A x \in DOMAIN trees' : trees'[x] = trees[x]
    BY <1>5 DEF ExpireTree, Without
  <2>2. UNCHANGED <<clock, source, job>>
    BY <1>5 DEF ExpireTree
  <2> QED
    BY <2>1, <2>2 DEF Order, First
<1> QED
  <2>1. OtherStep => job' = job
    BY OthersLeaveJob
  <2>2. job'.step = "copy" => job' = job \/ Start
    <3>1. Idle.step # "copy"
      BY DEF Idle
    <3> QED
      BY <2>1, <3>1, JobMoves DEF Next, OtherStep
  <2> QED
    BY <1>2, <1>3, <1>4, <1>5, <2>2, TreeMoves

\* What the job knows of the marker after gap_closed_by, and when remove_gap runs.
LEMMA SeenMoves ==
  ASSUME TypeInv
  PROVE  /\ CheckGap => /\ job'.step \in {"floor", "rotate"} => job'.seen # None
                        /\ job'.step = "meta" => job'.seen = None
                        /\ gap >= job'.seen
         /\ WriteSuccess => (job'.step = "remove" => job.seen # None)
<1>1. (gap = -1 \/ gap \in 1..MaxClock) /\ None = -1 /\ MaxClock \in Nat
        /\ mode \in {"meta", "legacy"}
      /\ job \in JobType
  BY Fields, RepositoryAssumption DEF TypeInv, Times, None
<1>2. CheckGap => /\ job'.step \in {"floor", "rotate"} => job'.seen # None
                  /\ job'.step = "meta" => job'.seen = None
                  /\ gap >= job'.seen
  <2> SUFFICES ASSUME CheckGap
               PROVE  /\ job'.step \in {"floor", "rotate"} => job'.seen # None
                      /\ job'.step = "meta" => job'.seen = None
                      /\ gap >= job'.seen
    OBVIOUS
  <2>1. PICK o, s : /\ o = (IF gap < job.started THEN gap ELSE None)
                    /\ s = (CASE mode = "meta" /\ o = None -> "meta"
                              [] mode = "meta" /\ o # None -> "floor"
                              [] mode = "legacy" /\ o = None -> "done"
                              [] OTHER -> "rotate")
                    /\ job' = [job EXCEPT !.seen = o, !.step = s]
    BY DEF CheckGap
  <2>2. job'.seen = o /\ job'.step = s
    BY <1>1, <2>1 DEF JobType
  <2>3. s \in {"floor", "rotate"} => o # None
    BY <1>1, <2>1
  <2>4. s = "meta" => o = None
    BY <1>1, <2>1
  <2>5. gap >= o
    BY <1>1, <2>1
  <2> QED
    BY <2>2, <2>3, <2>4, <2>5
<1>3. WriteSuccess => (job'.step = "remove" => job.seen # None)
  <2>1. WriteSuccess
          => \E s : s = (IF job.seen = None THEN "done" ELSE "remove")
            /\ job' = [job EXCEPT !.step = s]
    BY DEF WriteSuccess
  <2>2. ASSUME NEW s, job' = [job EXCEPT !.step = s] PROVE job'.step = s
    BY <1>1, <2>2 DEF JobType
  <2> QED
    BY <2>1, <2>2
<1> QED
  BY <1>2, <1>3

\* A sidecar is signed by one job: its start, its generation and LAST_SUCCESS agree.
LEMMA SignedNext ==
  ASSUME TypeInv, Modal, Clocks, Candidate, Plan, FinalizedRestorable, Finalized, Signed,
           [Next]_vars
  PROVE  Signed'
<1>1. /\ mode' = mode /\ mode \in {"meta", "legacy"} /\ Idle.step = "idle" /\ job.id \in Nat
      /\ job.started \in Nat /\ last \in Int /\ DOMAIN sidecars \subseteq DOMAIN trees
      /\ epoch' >= epoch /\ epoch \in Nat /\ epoch' \in Nat /\ clock \in Nat /\ clock' \in Nat
      /\ \A id \in DOMAIN sidecars : /\ sidecars[id].epoch \in Nat /\ sidecars[id].started \in Nat
                                     /\ trees[id].published \in Nat
  BY ModalNext, RepositoryAssumption, Fields, Grows
     DEF TypeInv, Idle, Ids, None, Stamp, SidecarType, TreeType, Times, FinalizedRestorable
<1>10. StampSuccess \/ ExpireSidecar \/ WriteSuccess
         => /\ DOMAIN sidecars' \subseteq DOMAIN sidecars
            /\ \A x \in DOMAIN sidecars' : sidecars'[x] = sidecars[x]
  <2>1. DOMAIN <<>> = {}
    OBVIOUS
  <2>2. StampSuccess => DOMAIN sidecars' = {}
    BY <2>1 DEF StampSuccess
  <2> QED
    BY <2>2 DEF ExpireSidecar, WriteSuccess, Without
<1>2. mode = "legacy" => DOMAIN sidecars' = {}
  <2>1. WriteMeta => mode = "meta"
    BY DEF WriteMeta, JobIs, Modal
  <2> QED
    BY <1>1, <1>10, <2>1, TreeMoves DEF Signed
<1>3. \A id \in DOMAIN sidecars' : sidecars'[id].epoch <= epoch'
        /\ sidecars'[id].started <= trees'[id].published
  <2>1. CASE UNCHANGED <<sidecars, trees>>
    BY <1>1, <2>1 DEF Signed
  <2>2. CASE WriteMeta
    <3>1. PICK j \in Nat : j = job.id
      BY <1>1
    <3>2. /\ DOMAIN sidecars' = DOMAIN sidecars \cup {j} /\ \A x \in DOMAIN sidecars : x # j
               => sidecars'[x] = sidecars[x]
          /\ sidecars'[j].epoch = epoch /\ sidecars'[j].started = job.started /\ trees' = trees
               /\ epoch' = epoch
      BY <2>2, <3>1 DEF WriteMeta, Put
    <3>3. job.started <= trees[j].published
      BY <2>2, <3>1 DEF WriteMeta, JobIs, Signed, Vouching, Modal
    <3> QED
      BY <1>1, <3>2, <3>3 DEF Signed
  <2>3. CASE StampSuccess \/ ExpireSidecar \/ WriteSuccess
    <3>1. /\ DOMAIN sidecars' \subseteq DOMAIN sidecars
               /\ \A x \in DOMAIN sidecars' : sidecars'[x] = sidecars[x]
          /\ trees' = trees
      BY <1>10, <2>3, TreeMoves
    <3> QED
      BY <1>1, <3>1 DEF Signed
  <2>4. CASE Publish \/ ExpireTree
    <3>1. sidecars' = sidecars
      BY <2>4 DEF Publish, ExpireTree
    <3>2. \A x \in DOMAIN sidecars : trees'[x] = trees[x]
      BY <1>1, <2>4 DEF Publish, ExpireTree, Put, Without, Candidate, JobIs
    <3> QED
      BY <1>1, <3>1, <3>2 DEF Signed
  <2> QED
    BY <2>1, <2>2, <2>3, <2>4, TreeMoves
<1>4. last' \in DOMAIN sidecars' => lastStart' = sidecars'[last'].started
  <2>1. CASE UNCHANGED <<sidecars, last, lastStart>>
    BY <2>1 DEF Signed
  <2>2. CASE StampSuccess
    BY <2>2 DEF StampSuccess
  <2>3. CASE WriteMeta
    <3>1. last < job.id
      BY <2>3 DEF WriteMeta, JobIs, Signed
    <3>2. UNCHANGED <<last, lastStart>> /\ sidecars' = Put(sidecars, job.id, [epoch |-> epoch,
            goal |-> SegBytes * job.goal + 1, started |-> job.started])
      BY <2>3 DEF WriteMeta, ghosts
    <3> QED
      BY <1>1, <3>1, <3>2 DEF Signed, Put
  <2>4. CASE WriteSuccess
    BY <2>4 DEF WriteSuccess, JobIs, Finalized, Modal
  <2>5. CASE ExpireSidecar
    <3>1. UNCHANGED <<last, lastStart>> /\ DOMAIN sidecars' \subseteq DOMAIN sidecars
          /\ \A x \in DOMAIN sidecars' : sidecars'[x] = sidecars[x]
      BY <2>5 DEF ExpireSidecar, ghosts, Without
    <3> QED
      BY <3>1 DEF Signed
  <2> QED
    BY <2>1, <2>2, <2>3, <2>4, <2>5, TreeMoves
<1>5. CASE OtherStep
  <2>1. job' = job
    BY <1>5, OthersLeaveJob
  <2>2. CASE job.step = "idle"
    <3>1. ~(job'.step \in {"copy", "point", "wait", "meta", "success"} \/ Vouching')
      BY <2>1, <2>2 DEF Vouching, Recovering
    <3> QED
      BY <1>1, <1>2, <1>3, <1>4, <3>1 DEF Signed
  <2>3. CASE job.step # "idle"
    <3>1. UNCHANGED <<trees, sidecars, last>>
      BY <1>5, <2>3, JobAlone
    <3> QED
      BY <1>1, <1>2, <1>3, <1>4, <2>1, <3>1 DEF Signed, Vouching
  <2> QED
    BY <2>2, <2>3
<1>6. CASE Start
  <2>1. PICK id \in Ids : /\ last < id
                          /\ job' = [Idle EXCEPT !.step = "copy", !.id = id, !.started = clock',
                               !.goal = source.head]
    BY <1>6 DEF Start
  <2>2. job'.id = id /\ last' = last /\ job'.step = "copy"
    BY <1>6, <2>1 DEF Idle, Start
  <2> QED
    BY <1>1, <1>2, <1>3, <1>4, <2>1, <2>2 DEF Signed, Vouching, Recovering
<1>7. CASE Publish
  <2>1. job.step = "copy" /\ Keeps /\ job'.step \in {"point", "stamp"} /\ clock' >= clock
    BY <1>7, JobMoves
  <2>2. last' = last /\ trees'[job.id].published = clock'
    BY <1>7 DEF Publish, Put
  <2>3. last < job.id /\ job.started <= clock
    BY <2>1 DEF Signed, Clocks
  <2> QED
    BY <1>1, <1>2, <1>3, <1>4, <2>1, <2>2, <2>3 DEF Signed, Vouching, Recovering, Keeps
<1>8. CASE RestorePoint \/ WaitWal \/ CompareOrphan \/ RestoreOrphan \/ CheckGap \/ SetFloor
             \/ Rotate \/ WriteMeta
  <2>1. UNCHANGED <<trees, last>>
    BY <1>8
       DEF RestorePoint, WaitWal, CompareOrphan, RestoreOrphan, CheckGap, SetFloor, Rotate,
           WriteMeta, disk
  <2>2. Keeps
    BY <1>8, JobMoves
  <2>3. CASE RestorePoint
    BY <1>1, <1>2, <1>3, <1>4, <2>1, <2>2, <2>3, JobMoves
       DEF Signed, Vouching, Recovering, Keeps
  <2>4. CASE WaitWal
    BY <1>1, <1>2, <1>3, <1>4, <2>1, <2>2, <2>4, JobMoves
       DEF Signed, Vouching, Recovering, Keeps
  <2>5. CASE CompareOrphan \/ RestoreOrphan \/ CheckGap \/ SetFloor \/ Rotate
    <3>1. job.step \in Recovering \cup {"floor", "rotate"}
          /\ job'.step \in {"restore", "recover", "meta", "floor", "done", "rotate", "remove"}
          /\ (job'.step = "meta" => mode = "meta")
      BY <1>1, <2>5, JobMoves DEF Recovering
    <3> QED
      BY <1>1, <1>2, <1>3, <1>4, <2>1, <2>2, <3>1 DEF Signed, Vouching, Keeps
  <2>6. CASE WriteMeta
    BY <1>1, <1>2, <1>3, <1>4, <2>1, <2>2, <2>6, JobMoves
       DEF Signed, Vouching, Recovering, Keeps
  <2> QED
    BY <1>8, <2>3, <2>4, <2>5, <2>6
<1>9. CASE StampSuccess \/ WriteSuccess \/ TakeMarker \/ CompareMarker \/ UnlinkMarker \/ EndJob
  <2>1. job'.step \in {"done", "remove", "compare", "unlink", "idle"}
          \/ (job'.step = "recover" /\ mode = "legacy")
    BY <1>1, <1>9, JobMoves DEF Modal
  <2> QED
    BY <1>1, <1>2, <1>3, <1>4, <2>1 DEF Signed, Vouching, Recovering
<1> QED
  BY <1>5, <1>6, <1>7, <1>8, <1>9 DEF Next, OtherStep

\* Once the sidecar is written it is the job's own, and remove_gap runs after
\* LAST_SUCCESS names that tree.
LEMMA FinalizedNext ==
  ASSUME TypeInv, Modal, Finalized, [Next]_vars
  PROVE  Finalized'
<1>1. mode' = mode /\ mode \in {"meta", "legacy"} /\ Idle.step = "idle"
  BY ModalNext, RepositoryAssumption DEF TypeInv, Idle
<1>2. CASE OtherStep
  <2>1. job' = job
    BY <1>2, OthersLeaveJob
  <2>2. CASE job.step = "idle"
    BY <2>1, <2>2 DEF Finalized, Removing
  <2>3. CASE job.step # "idle"
    <3>1. UNCHANGED <<sidecars, last, epoch>>
      BY <1>2, <2>3, JobAlone, TreeMoves
    <3> QED
      BY <1>1, <2>1, <3>1 DEF Finalized
  <2> QED
    BY <2>2, <2>3
<1>3. CASE WriteMeta
  <2>1. job'.step = "success" /\ Keeps
    BY <1>3, JobMoves
  <2>2. job.id \in DOMAIN sidecars' /\ sidecars'[job.id].epoch = epoch
          /\ sidecars'[job.id].started = job.started
        /\ epoch' = epoch
    BY <1>3 DEF WriteMeta, Put
  <2> QED
    BY <2>1, <2>2 DEF Finalized, Removing, Keeps
<1>4. CASE WriteSuccess
  <2>1. job.step = "success" /\ Keeps /\ job'.step \in {"done", "remove"}
    BY <1>4, JobMoves
  <2>2. last' = job.id /\ UNCHANGED <<sidecars, epoch>>
    BY <1>4 DEF WriteSuccess
  <2> QED
    BY <1>1, <2>1, <2>2 DEF Finalized, Removing, Keeps
<1>5. CASE TakeMarker \/ CompareMarker
  <2>1. job.step \in Removing /\ Keeps
    BY <1>5, JobMoves DEF Removing
  <2>2. UNCHANGED <<sidecars, last, epoch>>
    BY <1>5 DEF TakeMarker, CompareMarker
  <2> QED
    BY <1>1, <2>1, <2>2 DEF Finalized, Keeps
<1>6. CASE \/ Start \/ Publish \/ RestorePoint \/ WaitWal \/ StampSuccess \/ CompareOrphan
             \/ RestoreOrphan
           \/ CheckGap \/ SetFloor \/ Rotate \/ UnlinkMarker \/ EndJob
  <2>1. ~(mode' = "meta" /\ job'.step \in {"success"} \cup Removing)
    BY <1>1, <1>6, JobMoves DEF Removing
  <2> QED
    BY <2>1 DEF Finalized
<1> QED
  BY <1>2, <1>3, <1>4, <1>5, <1>6 DEF Next, OtherStep

\* From gap_closed_by to remove_gap the marker the job saw is there, or a newer
\* one; and after the rotation its sidecar alone has the new generation.
LEMMA MarkedNext ==
  ASSUME TypeInv, Modal, Clocks, Signed, Marked, ~MayRaceRecovery, [Next]_vars
  PROVE  Marked'
<1>1. /\ mode' = mode /\ mode \in {"meta", "legacy"} /\ Idle.step = "idle" /\ clock \in Nat
           /\ None = -1
      /\ epoch \in Nat /\ (gap = -1 \/ gap \in Nat) /\ (job.seen = -1 \/ job.seen \in Nat)
           /\ job.started \in Nat
      /\ \A id \in DOMAIN sidecars : sidecars[id].epoch \in Nat /\ sidecars[id].epoch <= epoch
  <2>1. \A id \in DOMAIN sidecars : sidecars[id].epoch \in Nat /\ sidecars[id].epoch <= epoch
    BY Fields DEF SidecarType, Signed
  <2>2. epoch \in Nat /\ clock \in Nat /\ mode \in {"meta", "legacy"}
    BY RepositoryAssumption DEF TypeInv
  <2>3. (gap = -1 \/ gap \in Nat) /\ (job.seen = -1 \/ job.seen \in Nat) /\ job.started \in Nat
    BY Fields DEF TypeInv, None, Times
  <2> QED
    BY <2>1, <2>2, <2>3, ModalNext DEF Idle, None
<1>2. CASE OtherStep
  <2>1. job' = job
    BY <1>2, OthersLeaveJob
  <2>2. CASE job.step = "idle"
    BY <2>1, <2>2 DEF Marked, Removing
  <2>3. CASE job.step # "idle"
    <3>1. UNCHANGED <<sidecars, epoch>>
      BY <1>2, <2>3, JobAlone, TreeMoves
    <3>2. gap' = gap \/ gap' \in clock..MaxClock
      <4>1. ~RestoreOrphan /\ ~TakeMarker /\ ~CompareMarker
        BY <2>1, JobMoves, "restore" # "recover", "remove" # "done", "remove" # "compare",
           "compare" # "unlink"
      <4> QED
        BY <4>1, MarkerMoves
    <3>3. job.seen <= clock
      BY <1>1, <2>3 DEF Clocks
    <3>4. gap >= job.seen => gap' >= job.seen
      BY <1>1, <3>2, <3>3
    <3> QED
      BY <2>1, <3>1, <3>4 DEF Marked
  <2> QED
    BY <2>2, <2>3
<1>3. CASE CheckGap
  <2>1. gap' = gap
    BY <1>3 DEF CheckGap, disk
  <2> QED
    BY <1>3, <2>1, JobMoves, SeenMoves DEF Marked, Removing
<1>4. CASE SetFloor
  <2>1. /\ job.step = "floor" /\ job'.seen = job.seen /\ UNCHANGED <<gap, sidecars>>
        /\ job'.step = (IF mode = "meta" THEN "rotate" ELSE "remove")
    BY <1>4, JobMoves DEF SetFloor
  <2>2. job'.step = "remove" => DOMAIN sidecars' = {}
    BY <1>1, <2>1 DEF Signed
  <2> QED
    BY <2>1, <2>2 DEF Marked, Removing
<1>5. CASE Rotate
  <2>1. /\ job.step = "rotate" /\ job'.seen = job.seen /\ UNCHANGED <<gap, sidecars>>
             /\ epoch' = epoch + 1
        /\ job'.step \in {"meta", "floor"}
    BY <1>5, JobMoves DEF Rotate
  <2>2. \A id \in DOMAIN sidecars' : sidecars'[id].epoch < epoch'
    BY <1>1, <2>1
  <2> QED
    BY <2>1, <2>2 DEF Marked, Removing
<1>6. CASE WriteMeta
  <2>1. job.step = "meta" /\ job'.step = "success" /\ job'.seen = job.seen /\ job'.id = job.id
    BY <1>6, JobMoves DEF Keeps
  <2>2. UNCHANGED <<gap, epoch>> /\ DOMAIN sidecars' \ {job.id} \subseteq DOMAIN sidecars
        /\ \A x \in DOMAIN sidecars' \ {job.id} : sidecars'[x] = sidecars[x]
    BY <1>6 DEF WriteMeta, Put
  <2> QED
    BY <2>1, <2>2 DEF Marked, Removing
<1>7. CASE WriteSuccess
  <2>1. /\ job.step = "success" /\ job'.step \in {"done", "remove"} /\ job'.seen = job.seen
             /\ job'.id = job.id
        /\ (job'.step = "remove" => job.seen # None)
    BY <1>7, JobMoves, SeenMoves DEF Keeps
  <2>2. UNCHANGED <<gap, epoch, sidecars>>
    BY <1>7 DEF WriteSuccess
  <2> QED
    BY <2>1, <2>2 DEF Marked, Removing
<1>8. CASE TakeMarker \/ CompareMarker
  <2>1. /\ job.step \in Removing /\ job'.step \in {"done", "compare", "unlink"}
             /\ job'.seen = job.seen
        /\ job'.id = job.id
    BY <1>8, JobMoves DEF Keeps, Removing
  <2>2. UNCHANGED <<epoch, sidecars>>
    BY <1>8 DEF TakeMarker, CompareMarker
  <2> QED
    BY <2>1, <2>2 DEF Marked, Removing
<1>9. CASE \/ Start \/ Publish \/ RestorePoint \/ WaitWal \/ StampSuccess \/ CompareOrphan
             \/ RestoreOrphan
           \/ UnlinkMarker \/ EndJob
  <2>1. job'.step \notin {"floor", "rotate", "meta", "success"} \cup Removing
    BY <1>1, <1>9, JobMoves DEF Removing
  <2> QED
    BY <2>1 DEF Marked, Removing
<1> QED
  BY <1>2, <1>3, <1>4, <1>5, <1>6, <1>7, <1>8, <1>9 DEF Next, OtherStep

\* A marker, or an orphan of one, is only gone when remove_gap has unlinked it.
LEMMA PendingMoves ==
  ASSUME TypeInv, Clocks, Orphans, ~MayRaceRecovery, [Next]_vars, Pending
  PROVE  Pending' \/ (UnlinkMarker /\ job.step = "unlink")
<1>1. /\ clock \in 1..MaxClock /\ (gap = -1 \/ gap \in 1..MaxClock) /\ None = -1 /\ MaxClock \in Nat
      /\ clearing \subseteq 1..clock /\ gap <= clock
  BY RepositoryAssumption DEF TypeInv, None, Times, Clocks
<1>2. PICK t \in 1..clock : Recorded(t)
  <2>1. CASE gap # None
    <3>1. gap \in 1..clock /\ gap >= gap
      BY <1>1, <2>1
    <3> QED
      BY <3>1 DEF Recorded
  <2>2. CASE clearing # {}
    <3>1. PICK o : o \in clearing
      BY <2>2
    <3>2. o \in 1..clock /\ o >= o
      BY <1>1, <3>1
    <3> QED
      BY <3>1, <3>2 DEF Recorded
  <2> QED
    BY <2>1, <2>2 DEF Pending
<1>3. Recorded(t)' \/ (UnlinkMarker /\ job.step = "unlink")
  BY <1>2, RecordedMoves
<1>4. Recorded(t)' => Pending'
  <2>1. gap' \in {-1} \cup Nat /\ t \in Nat /\ t > 0
    BY <1>1, TypeNext DEF TypeInv, None, Times
  <2> QED
    BY <1>1, <2>1 DEF Recorded, Pending
<1> QED
  BY <1>3, <1>4

\* BASE_FLOOR and GENERATION run ahead of LAST_SUCCESS only over an open marker.
LEMMA FloorsNext ==
  ASSUME TypeInv, Modal, Clocks, Orphans, Marked, Floors, ~MayRaceRecovery, [Next]_vars
  PROVE  Floors'
<1>1. /\ mode' = mode /\ clock' >= clock /\ clock \in Nat /\ clock' \in Nat /\ floor \in Nat
      /\ job.started \in Nat /\ lastStart \in Nat /\ lastStart' \in Nat /\ lastStart' >= lastStart
      /\ None = -1 /\ (gap = -1 \/ gap \in Nat) /\ (job.seen = -1 \/ job.seen \in Nat)
  <2>1. lastStart' \in Nat
    BY TypeNext DEF TypeInv
  <2>2. /\ floor \in Nat /\ job.started \in Nat /\ (gap = -1 \/ gap \in Nat)
             /\ (job.seen = -1 \/ job.seen \in Nat)
    BY Fields DEF TypeInv, None, Times
  <2> QED
    BY <2>1, <2>2, ModalNext, Grows, LastStartGrows DEF None
<1>2. mode = "meta" /\ (floor <= lastStart \/ Pending) => floor <= lastStart' \/ Pending'
  <2>1. job.step = "unlink" => lastStart = job.started /\ floor <= job.started
    BY DEF Clocks, Removing, Floors
  <2> QED
    BY <1>1, <2>1, PendingMoves
<1>3. CASE SetFloor
  <2>1. floor' = job.started /\ UNCHANGED <<clock, gap>> /\ job.step = "floor"
          /\ job'.started = job.started
    BY <1>3, JobMoves DEF SetFloor, UnchangedByJob, Keeps
  <2>2. gap # None /\ job.started <= clock
    BY <1>1, <2>1 DEF Marked, Clocks
  <2> QED
    BY <1>1, <2>1, <2>2 DEF Floors, Pending
<1>4. CASE ~SetFloor
  <2>1. floor' = floor
    BY <1>4, TreeMoves
  <2>2. job'.step # "idle" => floor <= job'.started
    <3>1. CASE OtherStep
      BY <3>1, OthersLeaveJob DEF Floors
    <3>2. CASE Start \/ EndJob
      BY <1>1, <3>2, JobMoves DEF Floors, Idle
    <3>3. CASE ~OtherStep /\ ~Start /\ ~EndJob
      BY <3>3, JobMoves DEF Floors, Keeps, Next, OtherStep
    <3> QED
      BY <3>1, <3>2, <3>3
  <2> QED
    BY <1>1, <1>2, <2>1, <2>2 DEF Floors
<1> QED
  BY <1>3, <1>4

\* Two bases on either side of a recorded loss share a generation only while
\* the loss is still on record.
LEMMA EpochsNext ==
  ASSUME TypeInv, Modal, Clocks, Orphans, LossKept, Signed, Finalized, Marked, Epochs,
           ~MayRaceRecovery,
         [Next]_vars
  PROVE  Epochs'
<1>1. /\ epoch \in Nat /\ epoch' \in Nat /\ epoch' >= epoch /\ clock \in Nat /\ clock' \in Nat
      /\ mode \in {"meta", "legacy"} /\ None = -1 /\ lastStart \in Nat /\ job.started \in Nat
      /\ (gap = -1 \/ gap \in Nat) /\ (job.seen = -1 \/ job.seen \in Nat) /\ job.id \in Nat
      /\ (\A t \in losses : t \in 1..clock /\ t \in Nat)
  <2>1. (gap = -1 \/ gap \in Nat) /\ (job.seen = -1 \/ job.seen \in Nat) /\ job.id \in Nat
        /\ job.started \in Nat /\ lastStart \in Nat
    BY Fields DEF TypeInv, None, Times
  <2>2. mode \in {"meta", "legacy"} /\ \A t \in losses : t \in 1..clock /\ t \in Nat
    BY RepositoryAssumption DEF TypeInv, Clocks
  <2> QED
    BY <2>1, <2>2, Grows DEF None
<1>2. \A id \in DOMAIN sidecars : /\ sidecars[id].epoch \in Nat /\ sidecars[id].started \in Nat
                                  /\ sidecars[id].epoch <= epoch
  BY Fields DEF SidecarType, Signed
<1>3. ASSUME NEW t \in losses' PROVE t \in losses \/ Recorded(t)'
  <2>1. losses' = losses \/ (losses' = losses \cup {gap'} /\ gap' \in clock..MaxClock)
    BY MarkerMoves DEF RestoreOrphan, TakeMarker, CompareMarker, ghosts
  <2> QED
    BY <1>1, <1>3, <2>1 DEF Recorded
\* A sidecar that stays is as well separated as before.
<1>4. ASSUME NEW id \in DOMAIN sidecars, NEW t \in losses, sidecars[id].started <= t
      PROVE  sidecars[id].epoch < epoch' \/ Recorded(t)'
  <2>1. CASE sidecars[id].epoch < epoch
    BY <1>1, <1>2, <2>1
  <2>2. CASE Recorded(t)
    <3>1. Recorded(t)' \/ (UnlinkMarker /\ job.step = "unlink" /\ job.seen >= t)
      BY <1>1, <2>2, RecordedMoves
    <3>2. CASE job.step = "unlink" /\ job.seen >= t
      <4>1. job.seen < job.started /\ job.seen # None
        BY <3>2 DEF Clocks, Marked, Removing
      <4>2. id # job.id
        <5>1. CASE mode = "meta"
          <6>1. sidecars[job.id].started = job.started
            BY <3>2, <5>1 DEF Finalized, Removing
          <6> QED
            BY <1>1, <1>2, <1>4, <3>2, <4>1, <6>1
        <5>2. CASE mode = "legacy"
          BY <5>2 DEF Signed
        <5> QED
          BY <1>1, <5>1, <5>2
      <4>3. sidecars[id].epoch < epoch
        BY <3>2, <4>1, <4>2 DEF Marked, Removing
      <4> QED
        BY <1>1, <1>2, <4>3
    <3> QED
      BY <3>1, <3>2
  <2> QED
    BY <1>4, <2>1, <2>2 DEF Epochs
<1>5. \A id \in DOMAIN sidecars', t \in losses' :
        sidecars'[id].started <= t => sidecars'[id].epoch < epoch' \/ Recorded(t)'
  <2> SUFFICES ASSUME NEW id \in DOMAIN sidecars', NEW t \in losses, sidecars'[id].started <= t
               PROVE  sidecars'[id].epoch < epoch' \/ Recorded(t)'
    BY <1>3
  <2>1. CASE id \in DOMAIN sidecars /\ sidecars'[id] = sidecars[id]
    BY <1>4, <2>1
  <2>2. CASE WriteMeta /\ id = job.id
    <3>1. sidecars'[id].started = job.started
      BY <2>2 DEF WriteMeta, Put
    <3>2. lastStart <= job.started
      BY <2>2 DEF WriteMeta, JobIs, Clocks
    <3>3. Recorded(t)
      BY <1>1, <3>1, <3>2 DEF LossKept, Recorded
    <3>4. UNCHANGED <<gap, clearing>>
      BY <2>2 DEF WriteMeta
    <3> QED
      BY <3>3, <3>4 DEF Recorded
  <2>3. \/ id \in DOMAIN sidecars /\ sidecars'[id] = sidecars[id]
        \/ WriteMeta /\ id = job.id
    <3>1. CASE sidecars' = sidecars
      BY <3>1
    <3>2. CASE StampSuccess
      <4>1. DOMAIN <<>> = {}
        OBVIOUS
      <4> QED
        BY <3>2, <4>1 DEF StampSuccess
    <3>3. CASE WriteMeta
      BY <3>3 DEF WriteMeta, Put
    <3>4. CASE WriteSuccess \/ ExpireSidecar
      BY <3>4 DEF WriteSuccess, ExpireSidecar, Without
    <3> QED
      BY <3>1, <3>2, <3>3, <3>4, TreeMoves
  <2> QED
    BY <2>1, <2>2, <2>3
<1>6. last' \in DOMAIN sidecars' => sidecars'[last'].epoch = epoch' \/ Pending'
  <2>1. CASE Rotate
    <3>1. job.step = "rotate" /\ UNCHANGED <<gap, clearing>>
      BY <2>1 DEF Rotate, JobIs
    <3>2. gap # None
      BY <1>1, <3>1 DEF Marked
    <3> QED
      BY <3>1, <3>2 DEF Pending
  <2>2. CASE WriteSuccess
    BY <2>2, JobMoves DEF WriteSuccess, JobIs, Finalized, Modal
  <2>3. CASE StampSuccess
    <3>1. DOMAIN <<>> = {}
      OBVIOUS
    <3> QED
      BY <2>3, <3>1 DEF StampSuccess
  <2>4. CASE ~Rotate /\ ~WriteSuccess /\ ~StampSuccess
    <3>1. epoch' = epoch /\ last' = last
      BY <2>4, TreeMoves DEF WriteMeta, ExpireSidecar
    <3>2. last \in DOMAIN sidecars' => last \in DOMAIN sidecars /\ sidecars'[last] = sidecars[last]
      <4>1. CASE sidecars' = sidecars
        BY <4>1
      <4>2. CASE WriteMeta
        <5>1. last < job.id
          BY <4>2 DEF WriteMeta, JobIs, Signed
        <5>2. last # job.id
          BY <1>1, <5>1
        <5> QED
          BY <4>2, <5>2 DEF WriteMeta, Put
      <4>3. CASE ExpireSidecar
        BY <4>3 DEF ExpireSidecar, Without
      <4> QED
        BY <2>4, <4>1, <4>2, <4>3, TreeMoves
    <3>3. job.step = "unlink" /\ last \in DOMAIN sidecars => sidecars[last].epoch = epoch
      BY <1>1 DEF Finalized, Signed, Removing
    <3> QED
      BY <3>1, <3>2, <3>3, PendingMoves DEF Epochs
  <2> QED
    BY <2>1, <2>2, <2>3, <2>4
<1> QED
  BY <1>5, <1>6 DEF Epochs

\* The newest segment of the archive is the one the receiver has open.
LEMMA TopNext ==
  ASSUME TypeInv, Top, [Next]_vars
  PROVE  Top'
<1>1. /\ MaxSegment \in Nat /\ wal \subseteq Int /\ open \subseteq Int /\ Received = wal \cup open
  BY RepositoryAssumption DEF TypeInv, Received
<1>2. PICK m \in open : \A s \in Received : s <= m
  BY DEF Top
<1>3. CASE Connect
  <2>1. PICK newest \in Received :
           /\ \A s \in Received : s <= newest
           /\ open' = open \cup {HighestOf({newest + (IF newest \in wal THEN 1 ELSE 0),
                source'.keep})}
    BY <1>3 DEF Connect
  <2>2. wal' = wal
    BY <1>3 DEF Connect
  <2>3. PICK a \in Int, b \in Int : /\ a = newest + (IF newest \in wal THEN 1 ELSE 0)
          /\ b = source'.keep
                                   /\ a >= newest
    <3>1. source'.keep \in Int
      BY TypeNext DEF TypeInv, SourceType
    <3>2. newest \in Int
      BY <1>1
    <3> QED
      BY <3>1, <3>2
  <2>4. HighestOf({a, b}) \in Int /\ HighestOf({a, b}) >= a
    <3>1. \E s \in {a, b} : \A x \in {a, b} : s >= x
      OBVIOUS
    <3> QED
      BY <3>1 DEF HighestOf
  <2>5. PICK c \in Int : c = HighestOf({a, b}) /\ c >= newest
    BY <1>1, <2>3, <2>4
  <2>6. open' = open \cup {c}
    BY <2>1, <2>3, <2>5
  <2>7. \A s \in wal' \cup open' : s <= c
    BY <1>1, <2>1, <2>2, <2>5, <2>6
  <2> QED
    BY <2>6, <2>7 DEF Top, Received
<1>4. CASE Receive
  <2>1. PICK segment \in open : /\ \A s \in open : s <= segment
                                /\ wal' = wal \cup {segment}
                                /\ open' = (open \ {segment}) \cup {segment + 1}
    BY <1>4 DEF Receive
  <2>2. segment + 1 \in open' /\ \A s \in wal' \cup open' : s <= segment + 1
    BY <1>1, <1>2, <2>1
  <2> QED
    BY <2>2 DEF Top, Received
<1>5. CASE ~Connect /\ ~Receive
  <2>1. open' = open /\ wal' \subseteq wal
    BY <1>5
       DEF Next, WriteWal, LoseSlot, Probe, ProbeDeferred, MarkMissing, Scan, StopReceiver,
           Start, Publish,
       RestorePoint, WaitWal, StampSuccess, CompareOrphan, RestoreOrphan, CheckGap, SetFloor,
         Rotate, WriteMeta,
       WriteSuccess, TakeMarker, CompareMarker, UnlinkMarker, EndJob, PlanPrune, ExpireSidecar,
         ExpireTree,
       DeleteSegment, EndPrune, KillPrune, vars, disk
  <2> QED
    BY <1>1, <1>2, <2>1 DEF Top, Received
<1> QED
  BY <1>3, <1>4, <1>5

\* What `health` accepts: the archive reaches, without a hole, from the oldest
\* anchored base to the newest segment, and LAST_SUCCESS leads to a sidecar.
LEMMA UsableWhole ==
  ASSUME TypeInv, Top, NEW start \in Nat, NEW stop \in Nat, NEW aim,
         Usable(Archive, <<>>, [t |-> 1, start |-> start, stop |-> stop, cluster |-> OurCluster],
           aim)
  PROVE  Segment(start)..(HighestOf(Received) - 1) \subseteq wal /\ HighestOf(Received) \in Int
         /\ aim.kind # "unusable"
<1> DEFINE anchor == [t |-> 1, start |-> start, stop |-> stop, cluster |-> OurCluster]
<1> DEFINE hi == HighestOf(Received)
<1>1. DOMAIN Archive = {1} \X Received
  BY DEF Archive
<1>2. Received # {}
  BY DEF Top, Received
<1>3. TimelinesOf(Archive) = {1} /\ On(Archive, 1) = Received
  <2>1. PICK s : s \in Received
    BY <1>2
  <2>2. \A c \in {1} \X Received : c[1] = 1
    OBVIOUS
  <2>3. <<1, s>> \in {1} \X Received /\ <<1, s>>[1] = 1
    BY <2>1
  <2>4. TimelinesOf(Archive) = {1}
    BY <1>1, <2>2, <2>3 DEF TimelinesOf
  <2>5. On(Archive, 1) = Received
    BY <1>1 DEF On
  <2> QED
    BY <2>4, <2>5
<1>4. HighestOf({1}) = 1
  <2>1. 1 \in {1} /\ 1 \in Int /\ \A x \in {1} : x \in Int /\ x <= 1
    OBVIOUS
  <2> QED
    BY <2>1, HighestIs
<1>5. /\ Reach(<<>>, aim, 1, stop) # Unreachable
      /\ Chain(<<>>, anchor, 1, hi) # NoLegs
      /\ \A i \in DOMAIN Chain(<<>>, anchor, 1, hi) :
            LET leg == Chain(<<>>, anchor, 1, hi)[i]
            IN  \E partialOk : Contiguous(Archive, leg.t, leg.lo, leg.hi, partialOk)
  BY <1>3, <1>4 DEF Usable
<1>6. aim.kind # "unusable"
  BY <1>5 DEF Reach
<1>7. Chain(<<>>, anchor, 1, hi) = <<[t |-> 1, lo |-> Segment(start), hi |-> hi]>>
  <2>1. anchor.t = 1 /\ anchor.start = start /\ anchor.stop = stop
    OBVIOUS
  <2> HIDE DEF anchor, hi
  <2> QED
    BY <1>5, <2>1 DEF Chain
<1>8. \E partialOk : Contiguous(Archive, 1, Segment(start), hi, partialOk)
  <2>1. 1 \in DOMAIN <<[t |-> 1, lo |-> Segment(start), hi |-> hi]>>
    OBVIOUS
  <2> HIDE DEF anchor, hi
  <2> QED
    BY <1>5, <1>7, <2>1
<1>9. PICK partialOk : Contiguous(Archive, 1, Segment(start), hi, partialOk)
  BY <1>8
<1>10. Segment(start) \in Int
  BY SegBytesPositive DEF Segment
<1>11. hi \in Int
  <2>1. \A s \in Received : s \in Int
    BY DEF Received, TypeInv
  <2>2. PICK m \in open : \A s \in Received : s <= m
    BY DEF Top
  <2>3. m \in Int /\ m \in Received
    BY <2>1, <2>2 DEF Received
  <2>4. hi = m
    BY <2>1, <2>2, <2>3, HighestIs
  <2> QED
    BY <2>3, <2>4
<1>12. ASSUME NEW s \in Segment(start)..(hi - 1) PROVE s \in wal
  <2>1. s \in Segment(start)..hi /\ s # hi
    BY <1>10, <1>11
  <2>2. <<1, s>> \in DOMAIN Archive /\ (~Archive[<<1, s>>].partial \/ (partialOk /\ s = hi))
    BY <1>9, <2>1 DEF Contiguous
  <2>3. Archive[<<1, s>>] = [partial |-> s \notin wal, cluster |-> OurCluster]
    BY <1>1, <2>2 DEF Archive
  <2>4. PICK b \in BOOLEAN : Archive[<<1, s>>] = [partial |-> b, cluster |-> OurCluster]
          /\ b = (s \notin wal)
    BY <2>3, Zenon
  <2>5. Archive[<<1, s>>].partial = b
    BY <2>4
  <2>6. b = FALSE
    BY <2>1, <2>2, <2>5, Zenon
  <2> QED
    BY <2>4, <2>6, Zenon
<1> QED
  BY <1>6, <1>11, <1>12

\* Anchors holds LAST_SUCCESS, and OldestBase is no later than any anchor.
LEMMA OldestIsFirst ==
  ASSUME TypeInv, Order, NEW id \in Anchors, OldestBase # None
  PROVE  OldestBase \in DOMAIN trees /\ First(OldestBase) <= First(id)
<1>1. OldestBase \in Oldest
  BY DEF OldestBase
<1>2. OldestBase \in Anchors /\ Anchors \subseteq DOMAIN trees /\ DOMAIN trees \subseteq Nat
  BY <1>1 DEF Oldest, Anchors, TypeInv, Ids
<1>3. \A a \in DOMAIN trees : trees[a].published \in Nat /\ First(a) \in Int
  BY Fields, SegBytesPositive DEF First, Segment, TreeType, Times
<1>4. PICK o \in DOMAIN trees : o = OldestBase
  BY <1>2
<1>5. /\ o \in Nat /\ id \in DOMAIN trees /\ id \in Nat
      /\ \/ trees[o].published < trees[id].published
         \/ trees[o].published = trees[id].published /\ o <= id
  BY <1>1, <1>2, <1>4 DEF Oldest
<1>6. o = id \/ o < id
  BY <1>3, <1>5 DEF Order
<1>7. First(o) <= First(id)
  BY <1>3, <1>5, <1>6 DEF Order
<1> QED
  BY <1>2, <1>4, <1>7

\* `health` never looks at less than a restore needs.
LEMMA HealthSuffices ==
  ASSUME TypeInv, Top, Order, Signed, FinalizedRestorable, LossKept, Floors, Epochs
  PROVE  HealthyIsRestorable
<1> SUFFICES ASSUME Healthy
             PROVE  /\ \A t \in losses : lastStart > t
                    /\ last \in DOMAIN trees =>
                         /\ First(last)..(HighestOf(Received) - 1) \subseteq wal
                         /\ \A id \in DOMAIN sidecars : sidecars[id].epoch = sidecars[last].epoch =>
                               \A t \in losses : sidecars[id].started > t
  BY DEF HealthyIsRestorable, First
<1>1. ~Pending /\ gap = None /\ clearing = {} /\ OldestBase # None
  BY DEF Healthy, GapPresent, Pending
<1>2. /\ losses \subseteq Nat /\ None = -1 /\ lastStart \in Nat /\ \A t \in losses : t > 0
      /\ \A id \in DOMAIN sidecars : sidecars[id].started \in Nat /\ sidecars[id].epoch \in Nat
      /\ \A id \in DOMAIN trees : /\ trees[id].start \in Nat /\ trees[id].stop \in Nat
                                /\ trees[id].published \in Nat /\ First(id) \in Int
      /\ floor \in Nat /\ epoch \in Nat /\ mode \in {"meta", "legacy"}
  <2>1. \A id \in DOMAIN trees : /\ trees[id].start \in Nat /\ trees[id].stop \in Nat
                                /\ trees[id].published \in Nat /\ First(id) \in Int
    BY Fields, SegBytesPositive DEF First, Segment, TreeType, Times
  <2>2. \A id \in DOMAIN sidecars : sidecars[id].started \in Nat /\ sidecars[id].epoch \in Nat
    BY Fields DEF SidecarType
  <2> QED
    BY <2>1, <2>2, RepositoryAssumption DEF TypeInv, None, Times
<1>3. \A t \in losses : ~Recorded(t) /\ lastStart > t
  BY <1>1, <1>2 DEF LossKept, Recorded
<1>4. OldestBase \in DOMAIN trees
  BY <1>1 DEF OldestBase, Oldest, Anchors
<1>5. PICK oldest \in DOMAIN trees : oldest = OldestBase
  BY <1>4
<1>6. /\ First(oldest)..(HighestOf(Received) - 1) \subseteq wal /\ HighestOf(Received) \in Int
      /\ TargetOfLast.kind # "unusable"
  <2>1. Usable(Archive, <<>>, [t |-> 1, start |-> trees[oldest].start, stop |-> trees[oldest].stop,
                               cluster |-> OurCluster], TargetOfLast)
    BY <1>5 DEF Healthy
  <2>2. trees[oldest].start \in Nat /\ trees[oldest].stop \in Nat
    BY <1>2
  <2> QED
    BY <2>1, <2>2, UsableWhole DEF First
<1>7. ASSUME last \in DOMAIN trees
      PROVE  /\ First(last)..(HighestOf(Received) - 1) \subseteq wal
             /\ last \in DOMAIN sidecars /\ sidecars[last].epoch = epoch
  <2>1. last \notin {None, Stamp}
    BY <1>2, <1>7 DEF TypeInv, Ids, Stamp
  <2>2. last \in DOMAIN sidecars
    BY <1>6, <2>1 DEF TargetOfLast, Unusable
  <2>3. mode = "meta"
    BY <1>2, <2>2 DEF Signed
  <2>4. floor <= trees[last].published
    BY <1>1, <1>2, <1>7, <2>2, <2>3 DEF Floors, Signed
  <2>5. last \in Anchors
    BY <1>2, <1>7, <2>2, <2>4 DEF Anchors
  <2>6. First(oldest) <= First(last)
    BY <1>1, <1>5, <2>5, OldestIsFirst
  <2>7. First(last)..(HighestOf(Received) - 1) \subseteq wal
    BY <1>2, <1>6, <1>7, <2>6
  <2> QED
    BY <1>1, <2>2, <2>7 DEF Epochs
<1>8. ASSUME last \in DOMAIN trees, NEW id \in DOMAIN sidecars,
               sidecars[id].epoch = sidecars[last].epoch,
             NEW t \in losses
      PROVE  sidecars[id].started > t
  <2>1. ~(sidecars[id].epoch < epoch)
    BY <1>2, <1>7, <1>8
  <2>2. ~(sidecars[id].started <= t)
    BY <1>3, <2>1 DEF Epochs
  <2> QED
    BY <1>2, <2>2
<1> QED
  BY <1>3, <1>7, <1>8

-----------------------------------------------------------------------------
(* Theorems.                                                                *)

\* A repository in service satisfies every part of the invariant.
LEMMA InitAll ==
  ASSUME Init
  PROVE  TypeInv /\ Modal /\ Clocks /\ Orphans /\ Candidate /\ Plan /\ Continuous
         /\ LossKept /\ FinalizedRestorable
         /\ Top /\ Order /\ Signed /\ Finalized /\ Marked /\ Floors /\ Epochs
<1>1. TypeInv
  BY TypeInit
<1>2. /\ job.step = "idle" /\ job.seen = -1 /\ job.orphan = -1 /\ prune.expired = {}
           /\ prune.doomed = {}
      /\ clock = 1 /\ gap = -1 /\ losses = {} /\ clearing = {} /\ lastStart = 0 /\ last = -1
      /\ DOMAIN trees = {} /\ DOMAIN sidecars = {} /\ rcv = "receive"
  BY DEF Init, Idle, Asleep, None
<1>3. Modal /\ Clocks /\ Orphans /\ Candidate /\ Plan
  BY <1>2 DEF Modal, Clocks, Orphans, Candidate, Plan, Removing, Recovering, Vouching
<1>4. LossKept /\ FinalizedRestorable
  BY <1>2 DEF LossKept, FinalizedRestorable, Ids
<1>5. Whole(0, 0)
  BY <1>2, Fields, <1>1 DEF Init, Whole
<1>6. 0 \in 0..MaxSegment /\ 0 \in 0..0
  BY RepositoryAssumption
<1>7. source.slot = "present"
  BY DEF Init
<1>8. Top
  BY DEF Init, Top, Received
<1>9. Order /\ Signed /\ Finalized /\ Marked /\ Epochs
  BY <1>2 DEF Order, Signed, Finalized, Marked, Epochs, Removing, Recovering, Vouching
<1>10. Floors
  BY <1>2 DEF Init, Floors
<1> QED
  BY <1>1, <1>2, <1>3, <1>4, <1>5, <1>6, <1>7, <1>8, <1>9, <1>10 DEF Continuous

\* Every field stays in its range, and BACKUP_LOCK is held by exactly the
\* program that is working: the base job and prune never overlap.
THEOREM TypeCorrect == Spec => []TypeOK
<1>1. Init => TypeInv
  BY TypeInit
<1>2. TypeInv /\ [Next]_vars => TypeInv'
  BY TypeNext
<1>3. TypeInv => TypeOK
  BY TypeImplies
<1> QED
  BY <1>1, <1>2, <1>3, PTL DEF Spec

\* A recorded loss of WAL stays on record, through interrupted removals and
\* their recovery, until a base that started after it has been published, when
\* no marker is written inside the comparison of recover_clearing.
THEOREM LossesStay ==
  ASSUME ~MayRaceRecovery
  PROVE  Spec => []LossKept
<1>1. Init => TypeInv /\ Modal /\ Clocks /\ Orphans /\ LossKept
  BY InitAll
<1>2. TypeInv /\ Modal /\ Clocks /\ Orphans /\ LossKept /\ [Next]_vars
        => (TypeInv /\ Modal /\ Clocks /\ Orphans /\ LossKept)'
  BY TypeNext, ModalNext, ClocksNext, OrphansNext, LossKeptNext
<1> QED
  BY <1>1, <1>2, PTL DEF Spec

\* A sidecar vouches for a published tree with all the WAL its recovery target
\* needs, and LAST_SUCCESS for a sidecar, wherever finalize or prune is killed.
THEOREM FinalizedIsRestorable == Spec => []FinalizedRestorable
<1>1. Init => TypeInv /\ Modal /\ Candidate /\ Plan /\ FinalizedRestorable
  BY InitAll
<1>2. TypeInv /\ Modal /\ Candidate /\ Plan /\ FinalizedRestorable /\ [Next]_vars
        => (TypeInv /\ Modal /\ Candidate /\ Plan /\ FinalizedRestorable)'
  BY TypeNext, ModalNext, CandidateNext, PlanNext, RestorableNext
<1> QED
  BY <1>1, <1>2, PTL DEF Spec

\* mark_gap writes no marker as long as the source keeps its slot and prune is
\* not cut short, whatever prune is deleting while the receiver restarts.
THEOREM NoGapInvented == Spec => []NoFalseGap
<1>1. Init => TypeInv /\ Continuous
  BY InitAll
<1>2. TypeInv /\ Continuous /\ [Next]_vars => (TypeInv /\ Continuous)'
  BY TypeNext, ContinuousNext
<1>3. Continuous => NoFalseGap
  BY DEF Continuous, NoFalseGap
<1> QED
  BY <1>1, <1>2, <1>3, PTL DEF Spec

\* When `health` reports nothing, every recorded loss is older than the base of
\* LAST_SUCCESS, that base replays without a hole to the newest segment, and so
\* do the other bases of its generation, when no marker is written inside the
\* comparison of recover_clearing.
THEOREM HealthIsEnough ==
  ASSUME ~MayRaceRecovery
  PROVE  Spec => []HealthyIsRestorable
<1> DEFINE IInv == /\ TypeInv /\ Modal /\ Clocks /\ Orphans /\ Candidate /\ Plan
  /\ FinalizedRestorable /\ LossKept
                   /\ Top /\ Order /\ Signed /\ Finalized /\ Marked /\ Floors /\ Epochs
<1>1. Init => IInv
  BY InitAll
<1>2. IInv /\ [Next]_vars => IInv'
  BY TypeNext, ModalNext, ClocksNext, OrphansNext, CandidateNext, PlanNext, RestorableNext,
     LossKeptNext,
     TopNext, OrderNext, SignedNext, FinalizedNext, MarkedNext, FloorsNext, EpochsNext
<1>3. IInv => HealthyIsRestorable
  BY HealthSuffices
<1> HIDE DEF IInv
<1> QED
  BY <1>1, <1>2, <1>3, PTL DEF Spec

-----------------------------------------------------------------------------
(* The verdict of `health` over several timelines (WalChain, MCWalChain).   *)

\* The last LSN a file of the archive may hold.
LastLsn == SegBytes * (LastSegment + 1) - 1

\* The files are of known timelines, and a .partial is the newest of its own.
FilesKnown ==
  /\ DOMAIN archive \subseteq Cells
  /\ archive \in [DOMAIN archive -> {Complete, Foreign, Partial}]
PartialLast ==
  \A d \in DOMAIN archive : archive[d] = Partial => \A s \in On(archive, d[1]) : s <= d[2]

\* A history names each older timeline once, in the order they were left.
HistoriesSound ==
  \A t \in DOMAIN histories :
    /\ histories[t] \in Seq([t : Nat, at : Nat])
    /\ \A i \in 1..Len(histories[t]) :
         /\ histories[t][i].t < t
         /\ \A j \in 1..Len(histories[t]) :
              i < j => /\ histories[t][i].at <= histories[t][j].at
                       /\ histories[t][i].t # histories[t][j].t

\* A base starts after its own timeline, and every older one, was begun.
BaseSound ==
  /\ base \in [t : Timelines, start : Nat, stop : LSNs, cluster : {OurCluster}]
  /\ base.start < base.stop
  /\ \A t \in DOMAIN histories : \A i \in 1..Len(histories[t]) :
       /\ t = base.t => histories[t][i].at <= base.start
       /\ histories[t][i].t = base.t => \A j \in 1..(i - 1) : histories[t][j].at <= base.start

\* A recovery target lies after the base it was recorded for.
TargetSound ==
  \/ target \in {NoTarget, Unusable}
  \/ target \in [kind : {"target"}, t : Timelines, lsn : LSNs] /\ base.stop < target.lsn

ArchiveSound == FilesKnown /\ PartialLast /\ HistoriesSound /\ BaseSound /\ TargetSound

\* Multiplication by a segment size keeps the order.
LEMMA TimesGrows ==
  ASSUME NEW w \in Nat \ {0}, NEW x \in Int, NEW y \in Int, x <= y
  PROVE  w * x <= w * y
<1>1. w * (y - x) >= 0
  BY Z3
<1>2. w * (y - x) = w * y - w * x
  BY Z3
<1> QED
  BY <1>1, <1>2, Z3

\* Segment divides by SegBytes.
LEMMA Divided ==
  ASSUME NEW n \in Nat
  PROVE  /\ Segment(n) \in Nat
         /\ SegBytes * Segment(n) <= n
         /\ n < SegBytes * (Segment(n) + 1)
<1>1. SegBytes \in Nat /\ SegBytes > 0
  BY SegBytesPositive
<1>2. \A b \in Nat : b > 0 => /\ n \div b \in Nat /\ b * (n \div b) <= n /\ n < b * ((n \div b) + 1)
  BY Z3
<1> QED
  BY <1>1, <1>2 DEF Segment

\* Two positions of which the first is not after the second.
LEMMA SegmentGrows ==
  ASSUME NEW a \in Nat, NEW b \in Nat
  PROVE  /\ a <= b => Segment(a) <= Segment(b)
         /\ Segment(a) < Segment(b) => a < b
<1>1. SegBytes \in Nat \ {0}
  BY SegBytesPositive
<1>2. /\ Segment(a) \in Nat /\ SegBytes * Segment(a) <= a /\ Segment(b) \in Nat
      /\ b < SegBytes * (Segment(b) + 1)
  BY Divided
<1>3. ASSUME a <= b, Segment(b) + 1 <= Segment(a) PROVE FALSE
  <2>1. SegBytes * (Segment(b) + 1) <= SegBytes * Segment(a)
    BY <1>1, <1>2, <1>3, TimesGrows
  <2> QED
    BY <1>1, <1>2, <1>3, <2>1
<1>4. a <= b => Segment(a) <= Segment(b)
  BY <1>2, <1>3
<1>5. b <= a => Segment(b) <= Segment(a)
  <2>1. /\ Segment(b) \in Nat /\ SegBytes * Segment(b) <= b /\ Segment(a) \in Nat
        /\ a < SegBytes * (Segment(a) + 1)
    BY Divided
  <2>2. ASSUME b <= a, Segment(a) + 1 <= Segment(b) PROVE FALSE
    <3>1. SegBytes * (Segment(a) + 1) <= SegBytes * Segment(b)
      BY <1>1, <2>1, <2>2, TimesGrows
    <3> QED
      BY <1>1, <2>1, <2>2, <3>1
  <2> QED
    BY <2>1, <2>2
<1> QED
  BY <1>2, <1>4, <1>5

\* The segment that a position lies in is the only one whose bounds hold it.
LEMMA SegmentBetween ==
  ASSUME NEW n \in Nat, NEW s \in Int
  PROVE  /\ SegBytes * s <= n => s <= Segment(n)
         /\ n < SegBytes * (s + 1) => Segment(n) <= s
<1>1. SegBytes \in Nat \ {0}
  BY SegBytesPositive
<1>2. /\ Segment(n) \in Nat /\ SegBytes * Segment(n) <= n /\ n < SegBytes * (Segment(n) + 1)
  BY Divided
<1>3. ASSUME SegBytes * s <= n, Segment(n) + 1 <= s PROVE FALSE
  <2>1. SegBytes * (Segment(n) + 1) <= SegBytes * s
    BY <1>1, <1>2, <1>3, TimesGrows
  <2> QED
    BY <1>1, <1>2, <1>3, <2>1
<1>4. ASSUME n < SegBytes * (s + 1), s + 1 <= Segment(n) PROVE FALSE
  <2>1. SegBytes * (s + 1) <= SegBytes * Segment(n)
    BY <1>1, <1>2, <1>4, TimesGrows
  <2> QED
    BY <1>1, <1>2, <1>4, <2>1
<1> QED
  BY <1>2, <1>3, <1>4

\* A set of naturals has a least member, a bounded one a greatest.
LEMMA LowestIn ==
  ASSUME NEW S \in SUBSET Nat, S # {}
  PROVE  LowestOf(S) \in S /\ \A x \in S : LowestOf(S) <= x
<1> DEFINE less == OpToRel(<, Nat)
<1>1. IsWellFoundedOn(less, Nat)
  BY NatLessThanWellFounded, Zenon
<1>2. PICK s \in S : \A x \in S : ~(<<x, s>> \in less)
  <2> HIDE DEF less
  <2> QED
    BY <1>1, WFMin, Zenon
<1>3. \A x \in S : s <= x
  <2> SUFFICES ASSUME NEW x \in S, x < s
               PROVE  FALSE
    OBVIOUS
  <2>1. <<x, s>> \in less
    BY DEF OpToRel
  <2> QED
    BY <1>2, <2>1
<1> QED
  BY <1>3 DEF LowestOf

LEMMA HighestIn ==
  ASSUME NEW b \in Nat, NEW S \in SUBSET (0..b), S # {}
  PROVE  HighestOf(S) \in S /\ \A x \in S : x <= HighestOf(S)
<1> DEFINE T == {n \in 0..b : b - n \in S}
<1>1. PICK x \in S : TRUE
  OBVIOUS
<1>2. b - x \in T
  <2>1. b - (b - x) = x /\ b - x \in 0..b
    OBVIOUS
  <2> QED
    BY <2>1
<1>3. T \in SUBSET Nat /\ T # {}
  BY <1>2
<1>4. PICK m \in T : \A n \in T : m <= n
  <2> HIDE DEF T
  <2>1. LowestOf(T) \in T /\ \A n \in T : LowestOf(T) <= n
    BY <1>3, LowestIn
  <2> QED
    BY <2>1
<1>5. b - m \in S /\ m \in 0..b
  BY <1>4
<1>6. ASSUME NEW y \in S PROVE y <= b - m
  <2>1. b - (b - y) = y /\ b - y \in 0..b
    OBVIOUS
  <2>2. b - y \in T
    BY <2>1
  <2>3. m <= b - y
    BY <1>4, <2>2
  <2> QED
    BY <1>5, <2>3
<1>7. \E s \in S : \A y \in S : s >= y
  <2>1. \A y \in S : b - m >= y
    BY <1>5, <1>6
  <2> QED
    BY <1>5, <2>1
<1>8. HighestOf(S) \in S /\ \A y \in S : HighestOf(S) >= y
  BY <1>7 DEF HighestOf
<1> QED
  BY <1>8

\* The positions of the archive are those of its segments.
LEMMA LsnRange ==
  /\ LastLsn \in Nat /\ LSNs = 0..LastLsn /\ HighestOf(LSNs) = LastLsn
  /\ \A n \in LSNs : Segment(n) \in 0..LastSegment
<1>1. SegBytes \in Nat \ {0} /\ LastSegment \in Nat
  BY SegBytesPositive, ArchiveAssumption
<1>2. LastLsn \in Nat
  <2>1. SegBytes * 1 <= SegBytes * (LastSegment + 1)
    BY <1>1, TimesGrows
  <2> QED
    BY <1>1, <2>1 DEF LastLsn
<1>3. LSNs = 0..LastLsn
  BY DEF LSNs, LastLsn
<1>4. HighestOf(LSNs) = LastLsn
  <2>1. LSNs \in SUBSET (0..LastLsn) /\ LastLsn \in LSNs
    BY <1>2, <1>3
  <2>2. HighestOf(LSNs) \in LSNs /\ \A x \in LSNs : x <= HighestOf(LSNs)
    BY <1>2, <2>1, HighestIn
  <2> QED
    BY <1>2, <1>3, <2>1, <2>2
<1>5. ASSUME NEW n \in LSNs PROVE Segment(n) \in 0..LastSegment
  <2>1. n \in Nat /\ n < SegBytes * (LastSegment + 1)
    BY <1>1, <1>2, <1>3 DEF LastLsn
  <2> QED
    BY <1>1, <2>1, Divided, SegmentBetween
<1> QED
  BY <1>2, <1>3, <1>4, <1>5

-----------------------------------------------------------------------------
(* The invariant of the archive.                                            *)

\* A base, a target and a family of timelines to start from.
LEMMA ArchiveSoundInit == ArchiveInit => ArchiveSound
<1> SUFFICES ASSUME ArchiveInit
             PROVE  ArchiveSound
  OBVIOUS
<1> USE DEF ArchiveInit
<1>1. FilesKnown /\ PartialLast
  BY DEF FilesKnown, PartialLast
<1>2. PICK f \in Forks, g \in Forks :
         \/ f <= g /\ histories = Descent(f, g)
         \/ histories = Siblings(f, g)
  BY DEF Families
<1>3. f \in Nat /\ g \in Nat
  BY ArchiveAssumption
<1>4. /\ DOMAIN histories = {2, 3}
      /\ histories[2] = <<Left(1, f)>>
      /\ \/ f <= g /\ histories[3] = <<Left(1, f), Left(2, g)>>
         \/ histories[3] = <<Left(1, g)>>
  BY <1>2 DEF Descent, Siblings
<1>5. \A t, n \in Nat : Left(t, n) \in [t : Nat, at : Nat] /\ Left(t, n).t = t /\ Left(t, n).at = n
  BY DEF Left
<1>11. \A r \in [t : Nat, at : Nat] : /\ <<r>> \in Seq([t : Nat, at : Nat]) /\ Len(<<r>>) = 1
                                      /\ <<r>>[1] = r
  OBVIOUS
<1>12. \A r, q \in [t : Nat, at : Nat] :
         /\ <<r, q>> \in Seq([t : Nat, at : Nat]) /\ Len(<<r, q>>) = 2
         /\ <<r, q>>[1] = r /\ <<r, q>>[2] = q
  OBVIOUS
<1>13. /\ histories[2] \in Seq([t : Nat, at : Nat]) /\ Len(histories[2]) = 1
       /\ histories[2][1].t = 1 /\ histories[2][1].at = f
  BY <1>3, <1>4, <1>5, <1>11
<1>14. \/ /\ histories[3] \in Seq([t : Nat, at : Nat]) /\ Len(histories[3]) = 1
          /\ histories[3][1].t = 1 /\ histories[3][1].at = g
       \/ /\ histories[3] \in Seq([t : Nat, at : Nat]) /\ Len(histories[3]) = 2
          /\ histories[3][1].t = 1 /\ histories[3][1].at = f
          /\ histories[3][2].t = 2 /\ histories[3][2].at = g /\ f <= g
  <2>1. CASE histories[3] = <<Left(1, g)>>
    BY <1>3, <1>5, <1>11, <2>1
  <2>2. CASE f <= g /\ histories[3] = <<Left(1, f), Left(2, g)>>
    BY <1>3, <1>5, <1>12, <2>2
  <2> QED
    BY <1>4, <2>1, <2>2
<1>6. HistoriesSound
  <2> DEFINE Sound(t) ==
        /\ histories[t] \in Seq([t : Nat, at : Nat])
        /\ \A i \in 1..Len(histories[t]) :
             /\ histories[t][i].t < t
             /\ \A j \in 1..Len(histories[t]) :
                  i < j => /\ histories[t][i].at <= histories[t][j].at
                           /\ histories[t][i].t # histories[t][j].t
  <2>1. Sound(2)
    <3>1. \A i \in 1..1 : i = 1
      OBVIOUS
    <3> QED
      BY <1>3, <1>13, <3>1
  <2>2. Sound(3)
    <3>1. \A i \in 1..2 : i = 1 \/ i = 2
      OBVIOUS
    <3>2. \A i \in 1..1 : i = 1
      OBVIOUS
    <3>3. CASE Len(histories[3]) = 1
      BY <1>3, <1>14, <3>2, <3>3
    <3>4. CASE Len(histories[3]) = 2
      <4>1. /\ histories[3] \in Seq([t : Nat, at : Nat])
            /\ histories[3][1].t = 1 /\ histories[3][1].at = f
            /\ histories[3][2].t = 2 /\ histories[3][2].at = g /\ f <= g
        BY <1>14, <3>4
      <4>2. \A i \in 1..2 : histories[3][i].t < 3
        BY <3>1, <4>1
      <4>3. \A i, j \in 1..2 : i < j => i = 1 /\ j = 2
        OBVIOUS
      <4>4. \A i, j \in 1..2 : i < j => /\ histories[3][i].at <= histories[3][j].at
                                        /\ histories[3][i].t # histories[3][j].t
        BY <1>3, <4>1, <4>3
      <4> QED
        BY <3>4, <4>1, <4>2, <4>4
    <3> QED
      BY <1>14, <3>3, <3>4
  <2>3. \A t \in {2, 3} : Sound(t)
    <3> HIDE DEF Sound
    <3> QED
      BY <2>1, <2>2
  <2> QED
    BY <1>4, <2>3 DEF HistoriesSound
<1>7. /\ base \in [t : {1, 2}, start : Starts, stop : LSNs, cluster : {OurCluster}]
      /\ base.start < base.stop /\ base.start >= Origin(base.t)
  BY DEF Bases
<1>15. base.t \in {1, 2} /\ base.start \in Nat
  BY <1>7, ArchiveAssumption
<1>8. base.t = 2 => base.start >= f
  BY <1>7, <1>13 DEF Origin
<1>9. BaseSound
  <2>1. base \in [t : Timelines, start : Nat, stop : LSNs, cluster : {OurCluster}]
    <3>1. {1, 2} \subseteq Timelines /\ Starts \subseteq Nat
      BY ArchiveAssumption DEF Timelines
    <3> QED
      BY <1>7, <3>1
  <2> SUFFICES ASSUME NEW t \in {2, 3}, NEW i \in 1..Len(histories[t])
               PROVE  /\ t = base.t => histories[t][i].at <= base.start
                      /\ histories[t][i].t = base.t =>
                           \A j \in 1..(i - 1) : histories[t][j].at <= base.start
    BY <1>4, <1>7, <2>1 DEF BaseSound
  <2>3. CASE t = 2
    BY <1>3, <1>8, <1>13, <1>15, <2>3
  <2>4. CASE t = 3
    <3>1. \A k \in 1..2 : k = 1 \/ k = 2
      OBVIOUS
    <3>2. \A k \in 1..1 : k = 1
      OBVIOUS
    <3>3. CASE Len(histories[3]) = 1
      BY <1>3, <1>8, <1>14, <1>15, <2>4, <3>2, <3>3
    <3>4. CASE Len(histories[3]) = 2
      <4>1. i \in 1..2 /\ t # base.t
        BY <1>15, <2>4, <3>4
      <4>2. CASE i = 1
        <5>1. 1..(i - 1) = {}
          BY <4>2
        <5> QED
          BY <4>1, <5>1
      <4>3. CASE i = 2
        <5>1. \A j \in 1..(i - 1) : j = 1
          BY <4>3
        <5>2. /\ histories[t][1].at = f /\ histories[t][i].t = 2
          BY <1>14, <2>4, <3>4, <4>3
        <5> QED
          BY <1>3, <1>8, <1>15, <4>1, <5>1, <5>2
      <4> QED
        BY <4>1, <4>2, <4>3
    <3> QED
      BY <1>14, <2>4, <3>3, <3>4
  <2> QED
    BY <2>3, <2>4
<1>10. TargetSound
  <2>1. CASE target \in {NoTarget, Unusable}
    BY <2>1 DEF TargetSound
  <2>2. CASE \E x \in Timelines \X LSNs : base.stop < x[2] /\ target = Target(x[1], x[2])
    <3>1. PICK x \in Timelines \X LSNs : base.stop < x[2] /\ target = Target(x[1], x[2])
      BY <2>2
    <3> QED
      BY <3>1 DEF TargetSound, Target
  <2> QED
    BY <2>1, <2>2
<1> QED
  BY <1>1, <1>6, <1>9, <1>10 DEF ArchiveSound

\* Files that arrive and histories that are lost keep it.
LEMMA ArchiveSoundNext ==
  ASSUME ArchiveSound, [ArchiveNext]_archiveVars
  PROVE  ArchiveSound'
<1> USE DEF ArchiveSound
<1>1. CASE ReceiveFile
  <2>1. PICK c \in Cells \ DOMAIN archive, file \in {Complete, Foreign, Partial} :
          /\ file = Partial => \A s \in On(archive, c[1]) : s < c[2]
          /\ \A d \in DOMAIN archive : archive[d] = Partial => d[1] # c[1] \/ d[2] > c[2]
          /\ archive' = [d \in DOMAIN archive \cup {c} |-> IF d = c THEN file ELSE archive[d]]
          /\ UNCHANGED <<histories, base, target>>
    BY <1>1 DEF ReceiveFile
  <2>2. FilesKnown'
    BY <2>1 DEF FilesKnown
  <2>3. PartialLast'
    <3> SUFFICES ASSUME NEW d \in DOMAIN archive', archive'[d] = Partial,
                        NEW s \in On(archive', d[1])
                 PROVE  s <= d[2]
      BY DEF PartialLast
    <3>1. d \in Cells /\ c \in Cells /\ s \in Int /\ <<d[1], s>> \in DOMAIN archive'
      BY <2>1, <2>2, ArchiveAssumption DEF FilesKnown, On, Cells
    <3>2. d[2] \in Int /\ c[2] \in Int /\ d = <<d[1], d[2]>> /\ c = <<c[1], c[2]>>
      BY <3>1, ArchiveAssumption DEF Cells
    <3>3. CASE <<d[1], s>> = c
      <4>1. d[1] = c[1] /\ s = c[2]
        BY <3>2, <3>3
      <4>2. CASE d = c
        BY <3>1, <3>2, <4>1, <4>2
      <4>3. CASE d # c
        <5>1. d \in DOMAIN archive /\ archive[d] = Partial
          BY <2>1, <4>3
        <5> QED
          BY <2>1, <3>2, <4>1, <5>1
      <4> QED
        BY <4>2, <4>3
    <3>4. CASE <<d[1], s>> # c
      <4>1. <<d[1], s>> \in DOMAIN archive
        BY <2>1, <3>1, <3>4
      <4>2. s \in On(archive, d[1])
        BY <4>1 DEF On
      <4>3. CASE d = c
        BY <2>1, <3>1, <3>2, <4>2, <4>3
      <4>4. CASE d # c
        <5>1. d \in DOMAIN archive /\ archive[d] = Partial
          BY <2>1, <4>4
        <5> QED
          BY <4>2, <5>1 DEF PartialLast
      <4> QED
        BY <4>3, <4>4
    <3> QED
      BY <3>3, <3>4
  <2> QED
    BY <2>1, <2>2, <2>3 DEF HistoriesSound, BaseSound, TargetSound
<1>2. CASE LoseHistory
  <2>1. /\ DOMAIN histories' \subseteq DOMAIN histories
        /\ \A t \in DOMAIN histories' : histories'[t] = histories[t]
        /\ UNCHANGED <<archive, base, target>>
    BY <1>2 DEF LoseHistory
  <2>2. HistoriesSound'
    BY <2>1 DEF HistoriesSound
  <2>3. BaseSound'
    BY <2>1 DEF BaseSound
  <2> QED
    BY <2>1, <2>2, <2>3 DEF FilesKnown, PartialLast, TargetSound
<1>3. CASE UNCHANGED archiveVars
  BY <1>3 DEF archiveVars, FilesKnown, PartialLast, HistoriesSound, BaseSound, TargetSound
<1> QED
  BY <1>1, <1>2, <1>3 DEF ArchiveNext

-----------------------------------------------------------------------------
(* The newest timeline and the lineage recovery follows to it.              *)

NewestSegment == HighestOf(On(archive, NewestTimeline))

\* The newest timeline is archived, and ends with its newest segment.
LEMMA NewestIs ==
  ASSUME FilesKnown, archive # <<>>
  PROVE  /\ NewestTimeline \in Timelines /\ NewestSegment \in 0..LastSegment
         /\ \A s \in On(archive, NewestTimeline) : s \in 0..LastSegment /\ s <= NewestSegment
         /\ LastArchived = SegBytes * (NewestSegment + 1) - 1 /\ LastArchived \in LSNs
         /\ Segment(LastArchived) = NewestSegment
<1>1. LastSegment \in Nat /\ SegBytes \in Nat \ {0}
  BY ArchiveAssumption, SegBytesPositive
<1>2. PICK c : c \in DOMAIN archive
  BY DEF FilesKnown
<1>3. NewestTimeline \in Timelines /\ NewestTimeline \in TimelinesOf(archive)
  <2>1. TimelinesOf(archive) \in SUBSET (0..3) /\ TimelinesOf(archive) \subseteq Timelines
    BY DEF TimelinesOf, FilesKnown, Cells, Timelines
  <2>2. c[1] \in TimelinesOf(archive)
    BY <1>2 DEF TimelinesOf
  <2> QED
    BY <2>1, <2>2, HighestIn DEF NewestTimeline
<1>4. On(archive, NewestTimeline) \in SUBSET (0..LastSegment)
  BY DEF On, FilesKnown, Cells
<1>5. On(archive, NewestTimeline) # {}
  <2>1. PICK d \in DOMAIN archive : d[1] = NewestTimeline
    BY <1>3 DEF TimelinesOf
  <2>2. d = <<NewestTimeline, d[2]>>
    BY <2>1 DEF FilesKnown, Cells
  <2>3. d[2] \in On(archive, NewestTimeline)
    BY <2>1, <2>2 DEF On
  <2> QED
    BY <2>3
<1>6. /\ NewestSegment \in On(archive, NewestTimeline)
      /\ \A s \in On(archive, NewestTimeline) : s <= NewestSegment
  BY <1>1, <1>4, <1>5, HighestIn DEF NewestSegment
<1>7. NewestSegment \in 0..LastSegment
  BY <1>4, <1>6
<1>8. LastArchived = SegBytes * (NewestSegment + 1) - 1
  BY DEF LastArchived, NewestSegment
<1>9. LastArchived \in LSNs /\ Segment(LastArchived) = NewestSegment
  <2>1. SegBytes * (NewestSegment + 1) <= SegBytes * (LastSegment + 1)
    BY <1>1, <1>7, TimesGrows
  <2>2. /\ SegBytes * NewestSegment + SegBytes = SegBytes * (NewestSegment + 1)
        /\ SegBytes * NewestSegment \in Nat
    BY <1>1, <1>7
  <2>3. /\ LastArchived \in Nat /\ SegBytes * NewestSegment <= LastArchived
        /\ LastArchived < SegBytes * (NewestSegment + 1)
    BY <1>1, <1>7, <1>8, <2>2
  <2>4. LastArchived \in LSNs
    <3>1. LastLsn = SegBytes * (LastSegment + 1) - 1 /\ LastLsn \in Nat /\ LSNs = 0..LastLsn
      BY LsnRange DEF LastLsn
    <3>2. SegBytes * (LastSegment + 1) \in Int /\ SegBytes * (NewestSegment + 1) \in Int
      BY <1>1, <1>7
    <3>3. LastArchived <= LastLsn
      BY <1>8, <2>1, <3>1, <3>2
    <3> QED
      BY <2>3, <3>1, <3>3
  <2>5. Segment(LastArchived) = NewestSegment
    BY <1>7, <2>3, Divided, SegmentBetween
  <2> QED
    BY <2>4, <2>5
<1> QED
  BY <1>3, <1>4, <1>6, <1>7, <1>8, <1>9

\* The timeline followed is the newest one's history with itself at the end.
Followed == IF NewestTimeline \in DOMAIN histories THEN histories[NewestTimeline] ELSE <<>>

\* The lineage is what Followed holds with the newest timeline appended.
LEMMA LineageIs ==
  ASSUME HistoriesSound, FilesKnown, archive # <<>>
  PROVE  /\ Followed \in Seq([t : Nat, at : Nat]) /\ Len(Followed) \in Nat
         /\ DOMAIN Lineage = 1..(Len(Followed) + 1)
         /\ \A i \in 1..Len(Followed) :
              Lineage[i] = Followed[i] /\ Followed[i].at \in Nat /\ Followed[i].t \in Nat
         /\ Lineage[Len(Followed) + 1] = [t |-> NewestTimeline, at |-> LastLsn + 1]
         /\ \A i \in 1..(Len(Followed) + 1) : Lineage[i].at \in Nat
<1> DEFINE here == [t |-> NewestTimeline, at |-> LastLsn + 1]
<1>1. Followed \in Seq([t : Nat, at : Nat])
  BY DEF Followed, HistoriesSound
<1>2. here \in [t : Nat, at : Nat]
  BY NewestIs, LsnRange DEF Timelines
<1>3. HighestOf(LSNs) = LastLsn
  BY LsnRange
<1>4. Lineage = Append(Followed, here)
  <2>1. CASE NewestTimeline \in DOMAIN histories
    BY <1>3, <2>1 DEF Lineage, Followed
  <2>2. CASE NewestTimeline \notin DOMAIN histories
    <3>1. Append(<<>>, here) = <<here>>
      OBVIOUS
    <3> QED
      BY <1>3, <2>2, <3>1 DEF Lineage, Followed
  <2> QED
    BY <2>1, <2>2
<1> HIDE DEF here
<1>5. /\ Len(Lineage) = Len(Followed) + 1
      /\ \A i \in 1..Len(Followed) : Lineage[i] = Followed[i]
      /\ Lineage[Len(Followed) + 1] = here
      /\ DOMAIN Lineage = 1..Len(Lineage)
  BY <1>1, <1>2, <1>4
<1>6. /\ Len(Followed) \in Nat
      /\ \A i \in 1..Len(Followed) : Followed[i] \in [t : Nat, at : Nat]
  <2>1. \A R : \A h \in Seq(R) : Len(h) \in Nat /\ \A i \in 1..Len(h) : h[i] \in R
    OBVIOUS
  <2> QED
    BY <1>1, <2>1
<1>7. \A r \in [t : Nat, at : Nat] : r.t \in Nat /\ r.at \in Nat
  OBVIOUS
<1>8. \A i \in 1..(Len(Followed) + 1) : Lineage[i].at \in Nat
  <2> SUFFICES ASSUME NEW i \in 1..(Len(Followed) + 1)
               PROVE  Lineage[i].at \in Nat
    OBVIOUS
  <2>1. CASE i = Len(Followed) + 1
    BY <1>2, <1>5, <1>7, <2>1
  <2>2. CASE i \in 1..Len(Followed)
    BY <1>5, <1>6, <1>7, <2>2
  <2> QED
    BY <1>6, <2>1, <2>2
<1> QED
  BY <1>1, <1>5, <1>6, <1>7, <1>8 DEF here

\* A position belongs to the first timeline of the lineage left after it.
LEMMA OwnerIs ==
  ASSUME HistoriesSound, FilesKnown, archive # <<>>, NEW lsn \in LSNs
  PROVE  \E i \in 1..(Len(Followed) + 1) :
           /\ Owner(lsn) = Lineage[i].t
           /\ lsn < Lineage[i].at
           /\ \A j \in 1..(i - 1) : Lineage[j].at <= lsn
<1> DEFINE S == {i \in DOMAIN Lineage : lsn < Lineage[i].at}
<1>1. lsn \in Nat /\ lsn <= LastLsn
  BY LsnRange
<1>2. DOMAIN Lineage = 1..(Len(Followed) + 1) /\ Len(Followed) \in Nat
  BY LineageIs
<1>3. Len(Followed) + 1 \in S /\ S \in SUBSET Nat
  BY <1>1, <1>2, LineageIs, LsnRange
<1>4. LowestOf(S) \in S /\ \A x \in S : LowestOf(S) <= x
  <2> HIDE DEF S
  <2> QED
    BY <1>3, LowestIn
<1>5. Owner(lsn) = Lineage[LowestOf(S)].t
  BY DEF Owner
<1>6. \A j \in 1..(LowestOf(S) - 1) : Lineage[j].at <= lsn
  <2> SUFFICES ASSUME NEW j \in 1..(LowestOf(S) - 1)
               PROVE  Lineage[j].at <= lsn
    OBVIOUS
  <2>1. LowestOf(S) \in 1..(Len(Followed) + 1)
    BY <1>2, <1>4
  <2>2. j \in 1..(Len(Followed) + 1) /\ ~(LowestOf(S) <= j)
    BY <1>2, <2>1
  <2>3. j \notin S
    BY <1>4, <2>2
  <2>4. Lineage[j].at \in Nat
    BY <2>2, LineageIs
  <2> QED
    BY <1>1, <1>2, <2>2, <2>3, <2>4
<1> QED
  BY <1>2, <1>4, <1>5, <1>6

\* On a base's own timeline, everything since its start is of that timeline.
LEMMA OwnedByNewest ==
  ASSUME HistoriesSound, BaseSound, FilesKnown, archive # <<>>, base.t = NewestTimeline,
         NEW lsn \in LSNs, base.start <= lsn
  PROVE  Owner(lsn) = NewestTimeline
<1>1. PICK i \in 1..(Len(Followed) + 1) : Owner(lsn) = Lineage[i].t /\ lsn < Lineage[i].at
  BY OwnerIs
<1>2. i \notin 1..Len(Followed)
  <2> SUFFICES ASSUME i \in 1..Len(Followed)
               PROVE  FALSE
    OBVIOUS
  <2>1. NewestTimeline \in DOMAIN histories /\ Followed = histories[NewestTimeline]
    BY DEF Followed
  <2>2. Followed[i].at <= base.start /\ Lineage[i].at = Followed[i].at /\ Followed[i].at \in Nat
    BY <2>1, LineageIs DEF BaseSound
  <2>3. lsn \in Nat /\ base.start \in Nat
    BY LsnRange DEF BaseSound
  <2> QED
    BY <1>1, <2>2, <2>3
<1>3. i = Len(Followed) + 1
  BY <1>2, LineageIs
<1> QED
  BY <1>1, <1>3, LineageIs

-----------------------------------------------------------------------------
(* What Usable establishes.                                                 *)

\* The higher of two positions.
LEMMA HigherOf ==
  ASSUME NEW a \in Int, NEW b \in Int
  PROVE  HighestOf({a, b}) = IF a >= b THEN a ELSE b
<1>1. ASSUME NEW y \in {a, b}, \A x \in {a, b} : y >= x
      PROVE  y = IF a >= b THEN a ELSE b
  BY <1>1
<1>2. \E y \in {a, b} : \A x \in {a, b} : y >= x
  BY SMT
<1>3. HighestOf({a, b}) \in {a, b} /\ \A x \in {a, b} : HighestOf({a, b}) >= x
  BY <1>2 DEF HighestOf
<1> QED
  BY <1>1, <1>3

Reached == Reach(histories, target, NewestTimeline, base.stop)
Legs == Chain(histories, base, NewestTimeline, NewestSegment)

\* A target on an ancestor is a position before that ancestor was left.
LEMMA ReachIs ==
  ASSUME ArchiveSound, archive # <<>>, Reached # Unreachable
  PROVE  /\ TargetOnLineage
         /\ Goal \in LSNs /\ base.stop <= Goal /\ Reached \in LSNs /\ base.stop <= Reached
         /\ \/ Goal = Reached
            \/ \E i \in 1..Len(Followed) : Goal <= Followed[i].at
         /\ CompleteThrough(Reached, base.stop) = Segment(Reached)
<1> USE DEF ArchiveSound
<1>1. base.stop \in LSNs /\ base.stop \in Nat
  BY LsnRange DEF BaseSound
<1>2. /\ LSNs \subseteq Nat /\ DOMAIN Lineage = 1..(Len(Followed) + 1) /\ Len(Followed) \in Nat
  BY LsnRange, LineageIs
<1>3. /\ TargetOnLineage
      /\ Goal \in LSNs /\ base.stop <= Goal /\ Reached \in LSNs /\ base.stop <= Reached
      /\ \/ Goal = Reached
         \/ \E i \in 1..Len(Followed) : Goal <= Followed[i].at
  <2>1. CASE target.kind = "none"
    <3>1. Reached = base.stop
      BY <2>1 DEF Reached, Reach
    <3>2. Goal = base.stop /\ TargetOnLineage
      BY <2>1 DEF Goal, TargetOnLineage
    <3> QED
      BY <1>1, <3>1, <3>2
  <2>2. CASE target.kind # "none"
    <3>1. target.kind # "unusable" /\ ~(target.t > NewestTimeline)
      BY <2>2 DEF Reached, Reach
    <3>2. target.kind = "target" /\ target.t \in Timelines /\ target.lsn \in LSNs
          /\ base.stop < target.lsn
      BY <2>2, <3>1 DEF TargetSound, NoTarget, Unusable
    <3>3. Goal = HighestOf({base.stop, target.lsn})
      BY <3>2 DEF Goal
    <3>7. /\ target.lsn \in Int /\ base.stop \in Int /\ base.stop <= target.lsn
          /\ ~(base.stop >= target.lsn)
      <4>1. target.lsn \in Nat
        BY <1>2, <3>2
      <4> QED
        BY <1>1, <3>2, <4>1
    <3>4. Goal = target.lsn
      BY <3>3, <3>7, HigherOf
    <3>5. CASE target.t = NewestTimeline
      <4>1. Reached = HighestOf({target.lsn, base.stop})
        BY <2>2, <3>1, <3>5 DEF Reached, Reach
      <4>2. Reached = target.lsn
        BY <3>7, <4>1, HigherOf
      <4>3. Len(Followed) + 1 \in DOMAIN Lineage /\ Lineage[Len(Followed) + 1].t = target.t
            /\ Lineage[Len(Followed) + 1].at = LastLsn + 1
        BY <1>2, <3>5, LineageIs
      <4>4. target.lsn <= LastLsn + 1
        BY <3>2, LsnRange
      <4>5. TargetOnLineage
        BY <3>2, <4>3, <4>4 DEF TargetOnLineage
      <4> QED
        BY <1>1, <3>2, <3>4, <3>7, <4>2, <4>5
    <3>6. CASE target.t # NewestTimeline
      <4>1. /\ Reached = base.stop
            /\ \E fork \in ForkOf(histories, NewestTimeline, target.t) : target.lsn <= fork
        BY <2>2, <3>1, <3>6 DEF Reached, Reach
      <4>2. NewestTimeline \in DOMAIN histories
        BY <4>1 DEF ForkOf
      <4>3. Followed = histories[NewestTimeline]
        BY <4>2 DEF Followed
      <4>4. PICK i \in DOMAIN Followed : Followed[i].t = target.t /\ target.lsn <= Followed[i].at
        BY <4>1, <4>2, <4>3 DEF ForkOf
      <4>5. i \in 1..Len(Followed)
        BY <4>4, LineageIs
      <4>6. i \in DOMAIN Lineage /\ Lineage[i] = Followed[i]
        BY <1>2, <4>5, LineageIs
      <4>7. TargetOnLineage
        BY <3>2, <4>4, <4>6 DEF TargetOnLineage
      <4> QED
        BY <1>1, <3>2, <3>4, <3>7, <4>1, <4>4, <4>5, <4>7
    <3> QED
      BY <3>5, <3>6
  <2> QED
    BY <2>1, <2>2
<1>4. CompleteThrough(Reached, base.stop) = Segment(Reached)
  <2>1. HighestOf({Reached, base.stop}) = Reached
    BY <1>1, <1>2, <1>3, HigherOf
  <2>2. Reached # Unreachable
    OBVIOUS
  <2> QED
    BY <2>1, <2>2 DEF CompleteThrough
<1> QED
  BY <1>3, <1>4

\* The one leg of a base on the newest timeline itself.
LEMMA LegsHere ==
  ASSUME base.t = NewestTimeline, Legs # NoLegs
  PROVE  /\ Len(Legs) = 1 /\ DOMAIN Legs = {1}
         /\ Legs[1] = [t |-> NewestTimeline, lo |-> Segment(base.start), hi |-> NewestSegment]
<1>1. Legs = <<[t |-> NewestTimeline, lo |-> Segment(base.start), hi |-> NewestSegment]>>
  BY DEF Legs, Chain
<1>2. \A r : Len(<<r>>) = 1 /\ DOMAIN <<r>> = {1} /\ <<r>>[1] = r
  OBVIOUS
<1> QED
  BY <1>1, <1>2

\* The last segment of a leg that ends where its timeline was left.
LegEnd(lsn) == IF lsn % SegBytes = 0 /\ lsn > 0 THEN Segment(lsn) - 1 ELSE Segment(lsn)

\* Across forks: one leg per timeline from the base's to the newest.
LEMMA LegsAcross ==
  ASSUME ArchiveSound, archive # <<>>, base.t # NewestTimeline, Legs # NoLegs
  PROVE  /\ NewestTimeline \in DOMAIN histories /\ Followed = histories[NewestTimeline]
         /\ \E at \in 1..Len(Followed) :
              /\ Followed[at].t = base.t /\ base.stop <= Followed[at].at
              /\ Segment(Followed[Len(Followed)].at) <= NewestSegment
              /\ DOMAIN Legs = 1..(Len(Followed) - at + 2) /\ Len(Legs) = Len(Followed) - at + 2
              /\ \A i \in at..Len(Followed) :
                   Legs[i - at + 1] =
                     [t |-> Followed[i].t,
                      lo |-> IF i = at THEN Segment(base.start) ELSE Segment(Followed[i - 1].at),
                      hi |-> LegEnd(Followed[i].at)]
              /\ Legs[Len(Followed) - at + 2] =
                   [t |-> NewestTimeline, lo |-> Segment(Followed[Len(Followed)].at),
                    hi |-> NewestSegment]
<1> USE DEF ArchiveSound
<1>1. NewestTimeline \in DOMAIN histories /\ Followed = histories[NewestTimeline]
  BY DEF Legs, Chain, Followed
<1> DEFINE n == Len(Followed)
           names == {i \in DOMAIN Followed : Followed[i].t = base.t}
           at == LowestOf(names)
           Begin(i) == IF i = at THEN Segment(base.start) ELSE Segment(Followed[i - 1].at)
           Leg(k) == LET i == at + k - 1
                     IN  IF i <= n
                         THEN [t |-> Followed[i].t, lo |-> Begin(i), hi |-> LegEnd(Followed[i].at)]
                         ELSE [t |-> NewestTimeline, lo |-> Segment(Followed[n].at),
                               hi |-> NewestSegment]
<1>2. names # {} /\ ~(Followed[at].at < base.stop) /\ ~(NewestSegment < Segment(Followed[n].at))
  BY <1>1 DEF Legs, Chain
<1>3. Legs = [k \in 1..(n - at + 2) |-> Leg(k)]
  BY <1>1, <1>2 DEF Legs, Chain, LegEnd
<1>4. DOMAIN Followed = 1..n /\ n \in Nat /\ \A i \in 1..n : Followed[i].at \in Nat
  BY LineageIs
<1>5. at \in 1..n /\ Followed[at].t = base.t
  <2>1. names \in SUBSET Nat /\ names \subseteq 1..n
    BY <1>4
  <2>2. at \in names
    <3> HIDE DEF names
    <3> QED
      BY <1>2, <2>1, LowestIn
  <2> QED
    BY <2>1, <2>2
<1> HIDE DEF at, names
<1>6. base.stop <= Followed[at].at /\ Segment(Followed[n].at) <= NewestSegment
  <2>1. /\ base.stop \in Nat /\ Followed[at].at \in Nat /\ Followed[n].at \in Nat
        /\ NewestSegment \in Int
    BY <1>4, <1>5, LsnRange, NewestIs DEF BaseSound
  <2>2. Segment(Followed[n].at) \in Nat
    BY <2>1, Divided
  <2> QED
    BY <1>2, <2>1, <2>2
<1>7. DOMAIN Legs = 1..(n - at + 2) /\ Len(Legs) = n - at + 2
  <2>1. n - at + 2 \in Nat
    BY <1>4, <1>5
  <2>2. \A m \in Nat : \A f : f = [k \in 1..m |-> f[k]] => Len(f) = m
    OBVIOUS
  <2>3. Legs = [k \in 1..(n - at + 2) |-> Legs[k]]
    <3> HIDE DEF Leg
    <3> QED
      BY <1>3
  <2> QED
    BY <1>3, <2>1, <2>2, <2>3
<1>8. ASSUME NEW i \in at..n
      PROVE  Legs[i - at + 1] =
               [t |-> Followed[i].t, lo |-> Begin(i), hi |-> LegEnd(Followed[i].at)]
  <2>1. i - at + 1 \in 1..(n - at + 2) /\ at + (i - at + 1) - 1 = i /\ i <= n
    BY <1>4, <1>5
  <2>2. Legs[i - at + 1] = Leg(i - at + 1)
    <3> HIDE DEF Leg
    <3> QED
      BY <1>3, <2>1
  <2> HIDE DEF Begin
  <2> QED
    BY <2>1, <2>2
<1>9. Legs[n - at + 2] =
        [t |-> NewestTimeline, lo |-> Segment(Followed[n].at), hi |-> NewestSegment]
  <2>1. n - at + 2 \in 1..(n - at + 2) /\ at + (n - at + 2) - 1 = n + 1 /\ ~(n + 1 <= n)
    BY <1>4, <1>5
  <2>2. Legs[n - at + 2] = Leg(n - at + 2)
    <3> HIDE DEF Leg
    <3> QED
      BY <1>3, <2>1
  <2> HIDE DEF Begin
  <2> QED
    BY <2>1, <2>2
<1> QED
  BY <1>1, <1>5, <1>6, <1>7, <1>8, <1>9

\* A leg up to a fork holds every position before it.
LEMMA LegEndCovers ==
  ASSUME NEW fork \in Nat, NEW lsn \in Nat, lsn < fork
  PROVE  Segment(lsn) <= LegEnd(fork)
<1>1. SegBytes \in Nat \ {0}
  BY SegBytesPositive
<1>2. /\ Segment(fork) \in Nat /\ Segment(lsn) \in Nat /\ Segment(lsn) <= Segment(fork)
      /\ SegBytes * Segment(lsn) <= lsn
  BY Divided, SegmentGrows
<1>3. ASSUME fork % SegBytes = 0
      PROVE  SegBytes * Segment(fork) = fork
  <2>1. \A b \in Nat : b > 0 => b * (fork \div b) + (fork % b) = fork
    BY Z3
  <2> QED
    BY <1>1, <1>3, <2>1 DEF Segment
<1>4. ASSUME fork % SegBytes = 0, Segment(lsn) = Segment(fork)
      PROVE  FALSE
  BY <1>1, <1>2, <1>3, <1>4
<1> QED
  BY <1>2, <1>4 DEF LegEnd

\* Every position from the base's start to the newest segment lies in the leg of
\* the timeline that owns it; the last leg begins where the lineage's last fork is.
LEMMA LegOf ==
  ASSUME ArchiveSound, archive # <<>>, Legs # NoLegs,
         NEW lsn \in LSNs, base.start <= lsn, lsn <= LastArchived
  PROVE  \E k \in DOMAIN Legs :
           /\ Legs[k].t = Owner(lsn)
           /\ Legs[k].lo \in Int /\ Legs[k].hi \in Int
           /\ Legs[k].lo <= Segment(lsn) /\ Segment(lsn) <= Legs[k].hi
           /\ k = Len(Legs) => \A j \in 1..Len(Followed) : Followed[j].at <= lsn
<1> USE DEF ArchiveSound
<1> DEFINE n == Len(Followed)
<1>1. /\ lsn \in Nat /\ base.start \in Nat /\ LastArchived \in Nat /\ base.stop \in Nat
      /\ NewestSegment \in Nat
  BY LsnRange, NewestIs DEF BaseSound
<1>2. /\ n \in Nat /\ \A i \in 1..n : Lineage[i] = Followed[i] /\ Followed[i].at \in Nat
      /\ Lineage[n + 1] = [t |-> NewestTimeline, at |-> LastLsn + 1]
  BY LineageIs
<1>3. Segment(lsn) \in Nat /\ Segment(base.start) \in Nat /\ Segment(base.start) <= Segment(lsn)
  BY <1>1, Divided, SegmentGrows
<1>4. Segment(lsn) <= NewestSegment
  BY <1>1, NewestIs, SegmentGrows
<1>5. PICK i \in 1..(n + 1) : /\ Owner(lsn) = Lineage[i].t
                              /\ lsn < Lineage[i].at
                              /\ \A j \in 1..(i - 1) : Lineage[j].at <= lsn
  BY OwnerIs
<1>6. \A j \in 1..(i - 1) : j \in 1..n /\ Followed[j].at <= lsn
  BY <1>2, <1>5
<1>7. CASE base.t = NewestTimeline
  <2>1. Owner(lsn) = NewestTimeline
    BY <1>7, OwnedByNewest
  <2>2. /\ 1 \in DOMAIN Legs /\ Legs[1].t = NewestTimeline /\ Legs[1].lo = Segment(base.start)
        /\ Legs[1].hi = NewestSegment
    BY <1>7, LegsHere
  <2>3. ASSUME NEW j \in 1..n PROVE Followed[j].at <= lsn
    <3>1. NewestTimeline \in DOMAIN histories /\ Followed = histories[NewestTimeline]
      BY <2>3 DEF Followed
    <3>2. Followed[j].at <= base.start
      BY <1>7, <3>1 DEF BaseSound
    <3> QED
      BY <1>1, <1>2, <3>2
  <2> QED
    BY <1>1, <1>3, <1>4, <2>1, <2>2, <2>3
<1>8. CASE base.t # NewestTimeline
  <2>1. NewestTimeline \in DOMAIN histories /\ Followed = histories[NewestTimeline]
    BY <1>8, LegsAcross
  <2>2. PICK at \in 1..n :
          /\ Followed[at].t = base.t /\ base.stop <= Followed[at].at
          /\ Segment(Followed[n].at) <= NewestSegment
          /\ DOMAIN Legs = 1..(n - at + 2) /\ Len(Legs) = n - at + 2
          /\ \A k \in at..n :
               Legs[k - at + 1] =
                 [t |-> Followed[k].t,
                  lo |-> IF k = at THEN Segment(base.start) ELSE Segment(Followed[k - 1].at),
                  hi |-> LegEnd(Followed[k].at)]
          /\ Legs[n - at + 2] =
               [t |-> NewestTimeline, lo |-> Segment(Followed[n].at), hi |-> NewestSegment]
    BY <1>8, LegsAcross
  <2>3. i >= at
    <3> SUFFICES ASSUME i < at
                 PROVE  FALSE
      BY <1>2, <2>2
    <3>1. i \in 1..n /\ i \in 1..(at - 1)
      BY <1>2, <1>5, <2>2
    <3>2. Followed[i].at <= base.start
      BY <2>1, <2>2, <3>1 DEF BaseSound
    <3>3. lsn < Followed[i].at
      BY <1>2, <1>5, <3>1
    <3> QED
      BY <1>1, <1>2, <3>1, <3>2, <3>3
  <2>4. CASE i \in at..n
    <3> DEFINE leg == Legs[i - at + 1]
    <3>1. i - at + 1 \in DOMAIN Legs /\ i - at + 1 # Len(Legs)
      BY <1>2, <2>2, <2>4
    <3>6. leg = [t |-> Followed[i].t,
                 lo |-> IF i = at THEN Segment(base.start) ELSE Segment(Followed[i - 1].at),
                 hi |-> LegEnd(Followed[i].at)]
      BY <2>2, <2>4, Zenon
    <3>7. Owner(lsn) = Followed[i].t
      BY <1>2, <1>5, <2>2, <2>4
    <3>2. leg.t = Owner(lsn) /\ leg.hi = LegEnd(Followed[i].at)
      <4> HIDE DEF leg
      <4> QED
        BY <3>6, <3>7
    <3>3. leg.lo = IF i = at THEN Segment(base.start) ELSE Segment(Followed[i - 1].at)
      <4> HIDE DEF leg
      <4> QED
        BY <3>6
    <3>4. leg.lo \in Nat /\ leg.lo <= Segment(lsn)
      <4>1. CASE i = at
        BY <1>3, <3>3, <4>1
      <4>2. CASE i # at
        <5>1. i - 1 \in 1..(i - 1) /\ i - 1 \in 1..n
          BY <1>2, <2>2, <2>4, <4>2
        <5>2. Followed[i - 1].at <= lsn /\ Followed[i - 1].at \in Nat
          BY <1>2, <1>6, <5>1
        <5> QED
          BY <1>1, <3>3, <4>2, <5>2, SegmentGrows, Divided
      <4> QED
        BY <4>1, <4>2
    <3>5. leg.hi \in Int /\ Segment(lsn) <= leg.hi
      <4>1. i \in 1..n /\ Followed[i].at \in Nat /\ lsn < Followed[i].at
        BY <1>2, <1>5, <2>2, <2>4
      <4>2. Segment(Followed[i].at) \in Nat
        BY <4>1, Divided
      <4>3. LegEnd(Followed[i].at) \in Int
        BY <4>2 DEF LegEnd
      <4> QED
        BY <1>1, <3>2, <4>1, <4>3, LegEndCovers
    <3> QED
      BY <3>1, <3>2, <3>4, <3>5
  <2>5. CASE i = n + 1
    <3> DEFINE leg == Legs[n - at + 2]
    <3>1. n - at + 2 \in DOMAIN Legs
      BY <1>2, <2>2
    <3>2. leg.t = Owner(lsn) /\ leg.hi = NewestSegment /\ leg.lo = Segment(Followed[n].at)
      BY <1>2, <1>5, <2>2, <2>5
    <3>3. \A j \in 1..n : Followed[j].at <= lsn
      BY <1>2, <1>6, <2>5
    <3>4. n \in 1..n /\ Followed[n].at \in Nat /\ Followed[n].at <= lsn
      BY <1>2, <2>2, <3>3
    <3>5. leg.lo \in Nat /\ leg.lo <= Segment(lsn)
      BY <1>1, <3>2, <3>4, SegmentGrows, Divided
    <3> QED
      BY <1>1, <1>4, <3>1, <3>2, <3>3, <3>5
  <2> QED
    BY <1>2, <1>5, <2>2, <2>3, <2>4, <2>5
<1> QED
  BY <1>7, <1>8

-----------------------------------------------------------------------------
(* The verdict of `health`.                                                 *)

\* What the archive holds of a segment on one of the legs.
LEMMA UsableCells ==
  ASSUME ArchiveSound, Usable(archive, histories, base, target)
  PROVE  /\ archive # <<>> /\ Reached # Unreachable /\ Legs # NoLegs
         /\ NewestSegment >= Segment(Reached)
         /\ \A k \in DOMAIN Legs : \A s \in Legs[k].lo..Legs[k].hi :
              LET c == <<Legs[k].t, s>>
              IN  /\ c \in DOMAIN archive
                  /\ \/ archive[c] = Complete
                     \/ /\ archive[c] = Partial /\ k = Len(Legs) /\ s = Legs[k].hi
                        /\ Legs[k].hi > CompleteThrough(Reached, base.stop)
<1>1. /\ archive # <<>> /\ Reached # Unreachable /\ Legs # NoLegs
      /\ NewestSegment >= Segment(Reached)
      /\ \A k \in DOMAIN Legs :
           /\ Contiguous(archive, Legs[k].t, Legs[k].lo, Legs[k].hi,
                         k = Len(Legs) /\ Legs[k].hi > CompleteThrough(Reached, base.stop))
           /\ SameCluster(archive, Legs[k].t, Legs[k].lo, Legs[k].hi, base.cluster)
  BY DEF Usable, Reached, Legs, NewestSegment, NewestTimeline
<1>2. ASSUME NEW k \in DOMAIN Legs, NEW s \in Legs[k].lo..Legs[k].hi
      PROVE  LET c == <<Legs[k].t, s>>
             IN  /\ c \in DOMAIN archive
                 /\ \/ archive[c] = Complete
                    \/ /\ archive[c] = Partial /\ k = Len(Legs) /\ s = Legs[k].hi
                       /\ Legs[k].hi > CompleteThrough(Reached, base.stop)
  <2> DEFINE c == <<Legs[k].t, s>>
             final == k = Len(Legs) /\ Legs[k].hi > CompleteThrough(Reached, base.stop)
  <2>1. c \in DOMAIN archive /\ (~archive[c].partial \/ (final /\ s = Legs[k].hi))
    BY <1>1, <1>2 DEF Contiguous
  <2>2. archive[c].cluster = base.cluster \/ (archive[c].partial /\ archive[c].cluster = Unwritten)
    BY <1>1, <1>2, <2>1 DEF SameCluster
  <2>3. archive[c] \in {Complete, Foreign, Partial}
    BY <2>1 DEF ArchiveSound, FilesKnown
  <2>4. base.cluster = OurCluster
    BY DEF ArchiveSound, BaseSound
  <2>5. OurCluster # OtherCluster
    <3> SUFFICES ASSUME OurCluster = OtherCluster
                 PROVE  FALSE
      OBVIOUS
    <3>1. {OurCluster, OtherCluster, Unwritten} = {OurCluster, Unwritten}
      OBVIOUS
    <3>2. Cardinality({OurCluster, Unwritten}) <= 2
      <4>1. IsFiniteSet({OurCluster}) /\ Cardinality({OurCluster}) = 1
        BY FS_Singleton, Zenon
      <4>2. {OurCluster, Unwritten} = {OurCluster} \cup {Unwritten}
        OBVIOUS
      <4>3. \/ Cardinality({OurCluster} \cup {Unwritten}) = Cardinality({OurCluster})
            \/ Cardinality({OurCluster} \cup {Unwritten}) = Cardinality({OurCluster}) + 1
        BY <4>1, FS_AddElement, Zenon
      <4> QED
        BY <4>1, <4>2, <4>3
    <3> QED
      BY <3>1, <3>2, ClustersDiffer
  <2>6. archive[c] # Foreign
    BY <2>2, <2>4, <2>5 DEF Foreign
  <2>7. archive[c] = Partial => final /\ s = Legs[k].hi
    BY <2>1 DEF Partial
  <2> QED
    BY <2>1, <2>3, <2>6, <2>7
<1> QED
  BY <1>1, <1>2

\* UsableSound, in any archive that satisfies the invariant.
LEMMA SoundVerdict ==
  ASSUME ArchiveSound
  PROVE  UsableSound
<1> SUFFICES ASSUME Usable(archive, histories, base, target)
             PROVE  Restorable(Goal - 1)
  BY DEF UsableSound
<1>1. /\ archive # <<>> /\ Reached # Unreachable /\ Legs # NoLegs
      /\ NewestSegment >= Segment(Reached)
      /\ \A k \in DOMAIN Legs : \A s \in Legs[k].lo..Legs[k].hi :
              LET c == <<Legs[k].t, s>>
              IN  /\ c \in DOMAIN archive
                  /\ \/ archive[c] = Complete
                     \/ /\ archive[c] = Partial /\ k = Len(Legs) /\ s = Legs[k].hi
                        /\ Legs[k].hi > CompleteThrough(Reached, base.stop)
  BY UsableCells
<1>2. /\ TargetOnLineage
      /\ Goal \in LSNs /\ base.stop <= Goal /\ Reached \in LSNs /\ base.stop <= Reached
      /\ \/ Goal = Reached
         \/ \E i \in 1..Len(Followed) : Goal <= Followed[i].at
      /\ CompleteThrough(Reached, base.stop) = Segment(Reached)
  BY <1>1, ReachIs
<1>3. /\ LastLsn \in Nat /\ LSNs = 0..LastLsn /\ base.start \in Nat /\ base.stop \in LSNs
      /\ NewestSegment \in Nat /\ LastArchived \in Nat /\ LastArchived <= LastLsn
      /\ Segment(LastArchived) = NewestSegment
      /\ Len(Followed) \in Nat /\ \A i \in 1..Len(Followed) : Followed[i].at \in Nat
  <2>1. LastLsn \in Nat /\ LSNs = 0..LastLsn
    BY LsnRange
  <2>2. base.start \in Nat /\ base.stop \in LSNs
    BY DEF ArchiveSound, BaseSound
  <2>3. NewestSegment \in 0..LastSegment /\ LastArchived \in LSNs
        /\ Segment(LastArchived) = NewestSegment
    BY <1>1, NewestIs DEF ArchiveSound
  <2>4. Len(Followed) \in Nat /\ \A i \in 1..Len(Followed) : Followed[i].at \in Nat
    BY <1>1, LineageIs DEF ArchiveSound
  <2> QED
    BY <2>1, <2>2, <2>3, <2>4
<1>4. BaseOnLineage
  <2>1. CASE base.t = NewestTimeline
    <3>1. /\ Len(Followed) + 1 \in DOMAIN Lineage
          /\ Lineage[Len(Followed) + 1] = [t |-> NewestTimeline, at |-> LastLsn + 1]
      BY <1>1, <1>3, LineageIs DEF ArchiveSound
    <3>2. base.stop <= LastLsn + 1
      BY <1>3
    <3> QED
      BY <2>1, <3>1, <3>2 DEF BaseOnLineage
  <2>2. CASE base.t # NewestTimeline
    <3>1. PICK at \in 1..Len(Followed) : Followed[at].t = base.t /\ base.stop <= Followed[at].at
      BY <1>1, <2>2, LegsAcross
    <3>2. at \in DOMAIN Lineage /\ Lineage[at] = Followed[at]
      BY <1>1, <1>3, LineageIs DEF ArchiveSound
    <3> QED
      BY <3>1, <3>2 DEF BaseOnLineage
  <2> QED
    BY <2>1, <2>2
<1>5. ASSUME NEW lsn \in base.start..LastArchived
      PROVE  LET c == <<Owner(lsn), Segment(lsn)>>
             IN  /\ c \in DOMAIN archive
                 /\ archive[c] = Complete \/ (archive[c] = Partial /\ lsn > Goal - 1)
  <2>1. lsn \in LSNs /\ lsn \in Nat /\ base.start <= lsn /\ lsn <= LastArchived
    BY <1>3
  <2>2. PICK k \in DOMAIN Legs :
           /\ Legs[k].t = Owner(lsn)
           /\ Legs[k].lo \in Int /\ Legs[k].hi \in Int
           /\ Legs[k].lo <= Segment(lsn) /\ Segment(lsn) <= Legs[k].hi
           /\ k = Len(Legs) => \A j \in 1..Len(Followed) : Followed[j].at <= lsn
    BY <1>1, <2>1, LegOf
  <2>3. Segment(lsn) \in Legs[k].lo..Legs[k].hi
    BY <2>1, <2>2, Divided
  <2> DEFINE c == <<Owner(lsn), Segment(lsn)>>
  <2>4. /\ c \in DOMAIN archive
        /\ \/ archive[c] = Complete
           \/ /\ archive[c] = Partial /\ k = Len(Legs) /\ Segment(lsn) = Legs[k].hi
              /\ Legs[k].hi > Segment(Reached)
    BY <1>1, <1>2, <2>2, <2>3
  <2>5. ASSUME k = Len(Legs), Segment(lsn) > Segment(Reached)
        PROVE  lsn > Goal - 1
    <3>1. Reached \in Nat /\ Goal \in Nat
      BY <1>2, <1>3
    <3>2. Segment(Reached) \in Nat /\ Segment(lsn) \in Nat /\ Segment(Reached) < Segment(lsn)
      BY <2>1, <2>5, <3>1, Divided
    <3>3. Reached < lsn
      BY <2>1, <3>1, <3>2, SegmentGrows
    <3>4. CASE Goal = Reached
      BY <2>1, <3>1, <3>3, <3>4
    <3>5. CASE \E i \in 1..Len(Followed) : Goal <= Followed[i].at
      <4>1. PICK i \in 1..Len(Followed) : Goal <= Followed[i].at
        BY <3>5
      <4>2. Followed[i].at <= lsn /\ Followed[i].at \in Nat
        BY <1>3, <2>2, <2>5
      <4> QED
        BY <2>1, <3>1, <4>1, <4>2
    <3> QED
      BY <1>2, <3>4, <3>5
  <2> QED
    BY <2>4, <2>5
<1>6. LastArchived >= Goal - 1
  <2>1. Goal \in Nat /\ Reached \in Nat
    BY <1>2, <1>3
  <2>2. CASE Segment(Goal) <= NewestSegment
    <3>1. SegBytes \in Nat \ {0} /\ LastArchived = SegBytes * (NewestSegment + 1) - 1
      BY <1>1, SegBytesPositive, NewestIs DEF ArchiveSound
    <3>2. Goal < SegBytes * (Segment(Goal) + 1) /\ Segment(Goal) \in Nat
      BY <2>1, Divided
    <3>3. SegBytes * (Segment(Goal) + 1) <= SegBytes * (NewestSegment + 1)
      BY <1>3, <2>2, <3>1, <3>2, TimesGrows
    <3>4. SegBytes * (NewestSegment + 1) \in Int /\ SegBytes * (Segment(Goal) + 1) \in Int
      BY <1>3, <3>1, <3>2
    <3> QED
      BY <2>1, <3>1, <3>2, <3>3, <3>4
  <2>3. CASE \E i \in 1..Len(Followed) : Goal <= Followed[i].at
    <3>1. PICK i \in 1..Len(Followed) : Goal <= Followed[i].at
      BY <2>3
    <3>2. CASE base.t = NewestTimeline
      <4>1. NewestTimeline \in DOMAIN histories /\ Followed = histories[NewestTimeline]
        BY <3>1 DEF Followed
      <4>2. Followed[i].at <= base.start
        BY <3>1, <3>2, <4>1 DEF ArchiveSound, BaseSound
      <4>3. base.start < base.stop
        BY DEF ArchiveSound, BaseSound
      <4> QED
        BY <1>2, <1>3, <2>1, <3>1, <4>2, <4>3
    <3>3. CASE base.t # NewestTimeline
      <4>1. Followed = histories[NewestTimeline] /\ NewestTimeline \in DOMAIN histories
            /\ Segment(Followed[Len(Followed)].at) <= NewestSegment
        BY <1>1, <3>3, LegsAcross
      <4>2. Len(Followed) \in 1..Len(Followed) /\ Followed[i].at <= Followed[Len(Followed)].at
        <5>1. CASE i = Len(Followed)
          BY <1>3, <5>1
        <5>2. CASE i < Len(Followed)
          <6>1. \A a, b \in 1..Len(histories[NewestTimeline]) :
                  a < b => histories[NewestTimeline][a].at <= histories[NewestTimeline][b].at
            BY <4>1 DEF ArchiveSound, HistoriesSound
          <6>2. i \in 1..Len(Followed) /\ Len(Followed) \in 1..Len(Followed)
            BY <1>3, <5>2
          <6> QED
            BY <4>1, <5>2, <6>1, <6>2
        <5> QED
          BY <1>3, <5>1, <5>2
      <4>3. Goal <= Followed[Len(Followed)].at /\ Followed[Len(Followed)].at \in Nat
        BY <1>3, <2>1, <3>1, <4>2
      <4>4. Segment(Goal) <= NewestSegment
        <5>1. Segment(Goal) <= Segment(Followed[Len(Followed)].at)
          BY <2>1, <4>3, SegmentGrows
        <5>2. Segment(Goal) \in Nat /\ Segment(Followed[Len(Followed)].at) \in Nat
          BY <2>1, <4>3, Divided
        <5> QED
          BY <1>3, <4>1, <5>1, <5>2
      <4> QED
        BY <2>2, <4>4
    <3> QED
      BY <3>2, <3>3
  <2> QED
    BY <1>1, <1>2, <2>2, <2>3
<1> QED
  BY <1>1, <1>2, <1>4, <1>5, <1>6 DEF Restorable, Replays

\* NoFalseAlarm, in any archive that satisfies the invariant.
LEMMA NoFalseVerdict ==
  ASSUME ArchiveSound
  PROVE  NoFalseAlarm
<1> SUFFICES ASSUME Restorable(Goal), base.t = NewestTimeline,
                    target.kind = "target" => target.t = NewestTimeline
             PROVE  Usable(archive, histories, base, target)
  BY DEF NoFalseAlarm
<1> USE DEF ArchiveSound
<1>1. archive # <<>> /\ TargetOnLineage /\ LastArchived >= Goal /\ Replays(Goal, LastArchived)
  BY DEF Restorable
<1>2. LastLsn \in Nat /\ LSNs = 0..LastLsn /\ base.start \in Nat /\ base.stop \in LSNs
      /\ base.start < base.stop /\ base.cluster = OurCluster
  BY LsnRange DEF BaseSound
<1>3. /\ NewestTimeline \in Timelines /\ NewestSegment \in 0..LastSegment
      /\ NewestSegment \in Nat
      /\ LastArchived = SegBytes * (NewestSegment + 1) - 1 /\ LastArchived \in LSNs
      /\ Segment(LastArchived) = NewestSegment
  BY <1>1, NewestIs, ArchiveAssumption
<1>4. Reached = Goal /\ Goal \in LSNs /\ base.stop <= Goal
  <2>1. CASE target.kind = "none"
    BY <1>2, <2>1 DEF Reached, Reach, Goal
  <2>2. CASE target.kind # "none"
    <3>1. target.kind = "target" /\ target.t = NewestTimeline
      BY <1>1, <2>2 DEF TargetOnLineage
    <3>2. target.lsn \in LSNs /\ base.stop < target.lsn
      BY <3>1 DEF TargetSound, NoTarget, Unusable
    <3>3. Goal = HighestOf({base.stop, target.lsn})
      BY <3>1 DEF Goal
    <3>4. target.kind # "unusable" /\ ~(target.t > NewestTimeline)
      BY <1>3, <3>1 DEF Timelines
    <3>5. Reached = HighestOf({target.lsn, base.stop})
      BY <3>1, <3>4 DEF Reached, Reach
    <3>6. target.lsn \in Int /\ base.stop \in Int
      BY <1>2, <3>2
    <3>7. Goal = target.lsn /\ Reached = target.lsn
      <4>1. ~(base.stop >= target.lsn) /\ target.lsn >= base.stop
        BY <3>2, <3>6
      <4> QED
        BY <3>3, <3>5, <3>6, <4>1, HigherOf
    <3> QED
      BY <1>2, <3>2, <3>6, <3>7
  <2> QED
    BY <2>1, <2>2
<1>5. Goal \in Nat /\ base.stop \in Nat /\ Segment(Goal) \in Nat /\ Segment(base.stop) \in Nat
      /\ Segment(base.stop) <= Segment(Goal)
  <2>1. Goal \in Nat /\ base.stop \in Nat
    BY <1>2, <1>4
  <2> QED
    BY <1>4, <2>1, Divided, SegmentGrows
<1>6. Segment(Goal) <= NewestSegment
  BY <1>2, <1>1, <1>3, <1>5, SegmentGrows
<1>7. Legs = <<[t |-> NewestTimeline, lo |-> Segment(base.start), hi |-> NewestSegment]>>
  BY <1>3, <1>5, <1>6 DEF Legs, Chain
<1>8. /\ Legs # NoLegs /\ Len(Legs) = 1 /\ DOMAIN Legs = {1}
      /\ Legs[1].t = NewestTimeline /\ Legs[1].lo = Segment(base.start)
      /\ Legs[1].hi = NewestSegment
  <2>1. \A r : <<r>> # <<>> /\ Len(<<r>>) = 1 /\ DOMAIN <<r>> = {1} /\ <<r>>[1] = r
    OBVIOUS
  <2> QED
    BY <1>7, <2>1 DEF NoLegs
<1>9. CompleteThrough(Reached, base.stop) = Segment(Goal)
  <2>1. Reached # Unreachable
    BY <1>4, <1>5 DEF Unreachable
  <2>2. HighestOf({Reached, base.stop}) = Goal
    BY <1>4, <1>5, HigherOf
  <2> QED
    BY <2>1, <2>2 DEF CompleteThrough
<1>10. ASSUME NEW lsn \in base.start..LastArchived
       PROVE  LET c == <<NewestTimeline, Segment(lsn)>>
              IN  /\ c \in DOMAIN archive
                  /\ archive[c] = Complete \/ (archive[c] = Partial /\ lsn > Goal)
  <2>1. lsn \in LSNs /\ base.start <= lsn
    BY <1>2, <1>3
  <2>2. Owner(lsn) = NewestTimeline
    BY <1>1, <2>1, OwnedByNewest
  <2> QED
    BY <1>1, <2>2 DEF Replays
<1>11. ASSUME NEW s \in Segment(base.start)..NewestSegment
       PROVE  LET c == <<NewestTimeline, s>>
              IN  /\ c \in DOMAIN archive
                  /\ \/ archive[c] = Complete
                     \/ /\ archive[c] = Partial /\ s = NewestSegment
                        /\ NewestSegment > Segment(Goal)
  <2> DEFINE lsn == SegBytes * (s + 1) - 1
             c == <<NewestTimeline, s>>
  <2>1. SegBytes \in Nat \ {0} /\ s \in Nat /\ Segment(base.start) \in Nat
        /\ base.start < SegBytes * (Segment(base.start) + 1)
    <3>1. SegBytes \in Nat \ {0} /\ Segment(base.start) \in Nat
          /\ base.start < SegBytes * (Segment(base.start) + 1)
      BY <1>2, SegBytesPositive, Divided
    <3>2. s \in Nat
      BY <1>3, <3>1
    <3> QED
      BY <3>1, <3>2
  <2>2. SegBytes * (Segment(base.start) + 1) <= SegBytes * (s + 1)
        /\ SegBytes * (s + 1) <= SegBytes * (NewestSegment + 1)
    BY <1>3, <2>1, TimesGrows
  <2>3. SegBytes * (s + 1) \in Int /\ SegBytes * (Segment(base.start) + 1) \in Int
        /\ SegBytes * (NewestSegment + 1) \in Int /\ SegBytes * s \in Nat
        /\ SegBytes * (s + 1) = SegBytes * s + SegBytes
    BY <1>3, <2>1
  <2>4. lsn \in base.start..LastArchived /\ lsn \in Nat
    BY <1>2, <1>3, <2>1, <2>2, <2>3
  <2>5. SegBytes * s <= lsn /\ lsn < SegBytes * (s + 1)
    BY <2>1, <2>3
  <2>6. Segment(lsn) = s
    <3>1. s \in Int /\ lsn \in Nat
      BY <2>1, <2>4
    <3>2. s <= Segment(lsn) /\ Segment(lsn) <= s
      <4> HIDE DEF lsn
      <4> QED
        BY <2>5, <3>1, SegmentBetween
    <3>3. Segment(lsn) \in Nat
      <4> HIDE DEF lsn
      <4> QED
        BY <3>1, Divided
    <3> QED
      BY <3>1, <3>2, <3>3
  <2>7. c \in DOMAIN archive /\ (archive[c] = Complete \/ archive[c] = Partial)
    BY <1>10, <2>4, <2>6
  <2>8. ASSUME archive[c] = Partial
        PROVE  s = NewestSegment /\ NewestSegment > Segment(Goal)
    <3>1. \A other \in On(archive, NewestTimeline) : other <= s
      BY <2>7, <2>8 DEF PartialLast
    <3>2. <<NewestTimeline, NewestSegment>> \in DOMAIN archive
      <4>1. LastArchived \in base.start..LastArchived
        BY <1>2, <1>3, <2>4
      <4> QED
        BY <1>3, <1>10, <4>1
    <3>3. NewestSegment \in On(archive, NewestTimeline)
      BY <3>2 DEF On
    <3>4. s = NewestSegment
      BY <1>3, <2>1, <3>1, <3>3
    <3>5. Goal \in base.start..LastArchived
      BY <1>1, <1>2, <1>3, <1>4, <1>5
    <3>6. Segment(Goal) # NewestSegment
      <4>1. ASSUME Segment(Goal) = NewestSegment PROVE FALSE
        <5>1. archive[c] = Complete \/ Goal > Goal
          BY <1>10, <3>4, <3>5, <4>1
        <5>2. Complete # Partial
          BY DEF Complete, Partial
        <5> QED
          BY <1>5, <2>8, <5>1, <5>2
      <4> QED
        BY <4>1
    <3> QED
      BY <1>3, <1>5, <1>6, <3>4, <3>6
  <2> QED
    BY <2>7, <2>8
<1>12. Contiguous(archive, NewestTimeline, Segment(base.start), NewestSegment,
                  NewestSegment > Segment(Goal))
  <2>1. ~Complete.partial
    BY DEF Complete
  <2> QED
    BY <1>11, <2>1 DEF Contiguous
<1>13. SameCluster(archive, NewestTimeline, Segment(base.start), NewestSegment, base.cluster)
  <2>1. Complete.cluster = OurCluster /\ Partial.partial /\ Partial.cluster = Unwritten
    BY DEF Complete, Partial
  <2> QED
    BY <1>2, <1>11, <2>1 DEF SameCluster
<1> QED
  <2> DEFINE newest == HighestOf(TimelinesOf(archive))
             hi == HighestOf(On(archive, newest))
  <2>1. newest = NewestTimeline /\ hi = NewestSegment
    BY DEF NewestTimeline, NewestSegment
  <2>2. newest >= base.t
    BY <1>3, <2>1 DEF Timelines
  <2>3. Reached # Unreachable /\ NewestSegment >= Segment(Reached)
    BY <1>3, <1>4, <1>5, <1>6 DEF Unreachable
  <2>4. \A i \in DOMAIN Legs :
          /\ Contiguous(archive, Legs[i].t, Legs[i].lo, Legs[i].hi,
                        i = Len(Legs) /\ Legs[i].hi > CompleteThrough(Reached, base.stop))
          /\ SameCluster(archive, Legs[i].t, Legs[i].lo, Legs[i].hi, base.cluster)
    <3> SUFFICES ASSUME NEW i \in DOMAIN Legs
                 PROVE  /\ Contiguous(archive, Legs[1].t, Legs[1].lo, Legs[1].hi,
                             1 = Len(Legs) /\ Legs[1].hi > CompleteThrough(Reached, base.stop))
                        /\ SameCluster(archive, Legs[1].t, Legs[1].lo, Legs[1].hi, base.cluster)
      BY <1>8
    <3>1. (1 = Len(Legs) /\ Legs[1].hi > CompleteThrough(Reached, base.stop))
            = (NewestSegment > Segment(Goal))
      BY <1>8, <1>9
    <3> QED
      BY <1>8, <1>12, <1>13, <3>1
  <2> QED
    BY <1>1, <1>8, <2>1, <2>2, <2>3, <2>4 DEF Usable, Reached, Legs

\* `health` calls the WAL of the oldest retained base usable only when that
\* base replays along the newest timeline's ancestry, through the recovery
\* target and up to the newest archived segment, from complete files of its
\* own cluster, for every segment size, family of timelines, base and archive.
THEOREM VerdictIsSound == ArchiveSpec => []UsableSound
<1>1. ArchiveInit => ArchiveSound
  BY ArchiveSoundInit
<1>2. ArchiveSound /\ [ArchiveNext]_archiveVars => ArchiveSound'
  BY ArchiveSoundNext
<1>3. ArchiveSound => UsableSound
  BY SoundVerdict
<1> QED
  BY <1>1, <1>2, <1>3, PTL DEF ArchiveSpec

\* On one timeline WAL that replays from the base through the target is called
\* usable.
THEOREM NoAlarmWithoutCause == ArchiveSpec => []NoFalseAlarm
<1>1. ArchiveInit => ArchiveSound
  BY ArchiveSoundInit
<1>2. ArchiveSound /\ [ArchiveNext]_archiveVars => ArchiveSound'
  BY ArchiveSoundNext
<1>3. ArchiveSound => NoFalseAlarm
  BY NoFalseVerdict
<1> QED
  BY <1>1, <1>2, <1>3, PTL DEF ArchiveSpec

=============================================================================
