-------------------------- MODULE BackupRepository --------------------------
(***************************************************************************)
(* The physical backup repository of one source: storage/pg_backup.rs and  *)
(* storage/backup.rs, driven by the units of nix/pg-backup.nix.            *)
(*                                                                         *)
(* Three programs share one directory tree.  The WAL receiver checks for   *)
(* lost WAL before it streams (mark_gap); the base backup job publishes a  *)
(* tree and finalizes it (finalize, or clear_gap in a legacy root); prune  *)
(* deletes expired trees and the WAL below the floors of the others.  The  *)
(* job and prune hold BACKUP_LOCK throughout; mark_gap takes it for the    *)
(* coverage scan only, so it writes a marker over a missing slot while     *)
(* either of them runs.                                                    *)
(*                                                                         *)
(* Simplifications:                                                        *)
(*  - one timeline and one cluster (WalChain has several); a segment is    *)
(*    received complete;                                                   *)
(*  - the source is external: it writes WAL, and may lose the slot or have *)
(*    it recreated with the WAL in between gone.  pg_receivewal continues  *)
(*    after the archive, or where the source's WAL begins;                 *)
(*  - `clock` stands for both the millisecond clock and modification       *)
(*    times; ages are a cutoff prune may draw anywhere;                    *)
(*  - the root has history: the archive always holds a segment.  The       *)
(*    .partial tree of a base only counts as history, and is left out;     *)
(*  - a slot lost while the receiver starts stops it: not modelled is a    *)
(*    check of the slot as it was, followed by the connection as it is;    *)
(*  - programs are killed between any two publications, each atomic; power *)
(*    is not lost.  Not all of them are flushed by then: the renames of    *)
(*    remove_gap share one flush (pg_backup.rs:626-641).                   *)
(***************************************************************************)
EXTENDS WalChain

CONSTANTS MaxSegment,      \* the source writes segments 0..MaxSegment - 1
          MaxClock,        \* bound on the clock
          MaxBases,        \* base backups started
          MaxLosses,       \* times the source loses the slot
          KeepNewest,      \* newest trees retention always keeps (2)
          Modes,           \* "meta" (recoveryMeta) and "legacy" roots
          MayRaceRecovery  \* a marker may be written inside recover_clearing

ASSUME RepositoryAssumption ==
  /\ SegBytes > 1                      \* a restore point lies inside its segment
  /\ {MaxSegment, MaxBases, MaxLosses} \subseteq Nat
  /\ {MaxClock, KeepNewest} \subseteq Nat \ {0}
  /\ Modes \subseteq {"meta", "legacy"}
  /\ MayRaceRecovery \in BOOLEAN

VARIABLES
  mode,      \* what the root is configured for
  clock,     \* milliseconds
  source,    \* [head: next segment, keep: oldest kept, slot: kind, restart, lost: how often]
  wal,       \* complete segments in the archive
  open,      \* segments with a .partial file
  rcv,       \* the receiver: its step, and what mark_gap saw of the slot
  gap,       \* detected_ms of wal/.gap, or None
  clearing,  \* detected_ms of the .gap.clearing.* files
  floor,     \* BASE_FLOOR
  epoch,     \* GENERATION
  trees,     \* base/<id> to its manifest range and publish time
  sidecars,  \* base/<id>.meta.json to its epoch and recovery target
  last,      \* LAST_SUCCESS: a base, Stamp, or None
  job,       \* the base backup job
  prune,     \* the prune service
  lock,      \* who holds BACKUP_LOCK
  \* Kept for the properties:
  losses,    \* detection times of the markers written
  lastStart, \* when the base that LAST_SUCCESS was written for started
  disturbed  \* the source lost the slot or prune was killed, at some time

disk == <<wal, open, gap, clearing, floor, epoch, trees, sidecars, last>>
ghosts == <<losses, lastStart, disturbed>>
vars == <<mode, clock, source, rcv, job, prune, lock, disk, ghosts>>

None  == -1
Stamp == 0
Ids == 1..MaxBases

Idle == [step |-> "idle", id |-> 0, started |-> 0, goal |-> 0, seen |-> None, orphan |-> None, newer |-> FALSE]
Asleep == [step |-> "idle", expired |-> {}, doomed |-> {}]

\* A repository in service: the receiver has opened its first segment.
Init ==
  /\ mode \in Modes
  /\ clock = 1
  /\ source = [head |-> 0, keep |-> 0, slot |-> "present", restart |-> 0, lost |-> 0]
  /\ wal = {} /\ open = {0} /\ gap = None /\ clearing = {} /\ floor = 0 /\ epoch = 0
  /\ trees = <<>> /\ sidecars = <<>> /\ last = None
  /\ rcv = "receive" /\ job = Idle /\ prune = Asleep /\ lock = "free"
  /\ losses = {} /\ lastStart = 0 /\ disturbed = FALSE

Put(f, k, v) == [x \in DOMAIN f \cup {k} |-> IF x = k THEN v ELSE f[x]]
Without(f, k) == [x \in DOMAIN f \ {k} |-> f[x]]

\* A program reads the clock, which may have gone on since it was last read.
ReadClock == clock' \in clock..MaxClock

(***************************************************************************)
(* What the source does (external).                                        *)
(***************************************************************************)
WriteWal ==
  /\ source.head < MaxSegment
  /\ source' = [source EXCEPT !.head = @ + 1]
  /\ UNCHANGED <<mode, clock, rcv, job, prune, lock, disk, ghosts>>

LostSlot == "lost"
\* The slot is invalidated or removed, or an operator recreates it; the WAL it
\* held goes with it.  The receiver's connection ends.
LoseSlot ==
  /\ source.lost < MaxLosses
  /\ \E kind \in {"missing", LostSlot, "present"} :
        source' = [source EXCEPT !.slot = kind, !.keep = source.head, !.restart = source.head,
                                  !.lost = @ + 1]
  /\ source.slot = "present"
  /\ rcv' = "down"
  /\ disturbed' = TRUE
  /\ UNCHANGED <<mode, clock, job, prune, lock, disk, losses, lastStart>>

(***************************************************************************)
(* The receiver unit.                                                      *)
(***************************************************************************)
\* A complete file wins over its .partial.
Received == wal \cup open
Archive == [c \in {1} \X Received |-> [partial |-> c[2] \notin wal, cluster |-> OurCluster]]

\* The oldest published base at or after the floor; sidecar-less trees do not
\* count once any carries metadata.  None when there is no base.
Anchors ==
  LET kept == {id \in DOMAIN trees : trees[id].published >= floor}
      finalized == kept \cap DOMAIN sidecars
  IN  IF finalized # {} THEN finalized ELSE kept
Oldest == {id \in Anchors :
             \A other \in Anchors : \/ trees[id].published < trees[other].published
                                    \/ trees[id].published = trees[other].published /\ id <= other}
OldestBase == IF Oldest = {} THEN None ELSE CHOOSE id \in Oldest : TRUE

\* The decision of mark_gap over a present slot.
Covered ==
  /\ source.restart <= HighestOf(Received) + 1
  /\ ~HasHole(Archive)
  /\ OldestBase = None \/ ~LeadingGap(Archive, 1, Segment(trees[OldestBase].start))

WriteMarker ==
  /\ ReadClock
  /\ gap' = clock'
  /\ losses' = losses \cup {clock'}

\* The slot is read; an invalidated one is dropped.  Over a missing slot the
\* history alone decides, without the lock: an archive in service has some.
Probe ==
  /\ rcv = "down"
  /\ rcv' = IF source.slot = "present" THEN "scan" ELSE "mark"
  /\ source' = IF source.slot = LostSlot THEN [source EXCEPT !.slot = "missing"] ELSE source
  /\ UNCHANGED <<mode, clock, job, prune, lock, disk, ghosts>>

\* An unreachable source defers the check; create-slot then fails as well,
\* unless the source has come back.
ProbeDeferred ==
  /\ rcv = "down"
  /\ rcv' = "create"
  /\ UNCHANGED <<mode, clock, source, job, prune, lock, disk, ghosts>>

MarkMissing ==
  /\ rcv = "mark"
  /\ MayRaceRecovery \/ job.step # "restore"
  /\ WriteMarker
  /\ rcv' = "create"
  /\ UNCHANGED <<mode, source, job, prune, lock, wal, open, clearing, floor, epoch,
                 trees, sidecars, last, lastStart, disturbed>>

\* Mutant: the scan does not wait for the lock.
BugScan ==
  /\ rcv = "scan"
  /\ IF Covered THEN UNCHANGED <<clock, gap, losses>> ELSE WriteMarker
  /\ rcv' = "create"
  /\ UNCHANGED <<mode, source, job, prune, lock, wal, open, clearing, floor, epoch,
                 trees, sidecars, last, lastStart, disturbed>>

\* The scan runs under BACKUP_LOCK; a busy lock defers it.
Scan ==
  /\ rcv = "scan"
  /\ IF lock # "free" \/ Covered THEN UNCHANGED <<clock, gap, losses>> ELSE WriteMarker
  /\ rcv' = "create"
  /\ UNCHANGED <<mode, source, job, prune, lock, wal, open, clearing, floor, epoch,
                 trees, sidecars, last, lastStart, disturbed>>

\* pg_receivewal --create-slot --if-not-exists, then pg_receivewal (external):
\* it continues the archive where the source still has the WAL, from the oldest
\* WAL of the source where it has not.
Connect ==
  /\ rcv = "create"
  /\ source' = IF source.slot = "missing"
               THEN [source EXCEPT !.slot = "present", !.restart = source.head, !.keep = source.head]
               ELSE source
  /\ \E newest \in Received :
        /\ \A s \in Received : s <= newest
        /\ open' = open \cup {HighestOf({newest + (IF newest \in wal THEN 1 ELSE 0), source'.keep})}
  /\ source.slot # LostSlot
  /\ rcv' = "receive"
  /\ UNCHANGED <<mode, clock, job, prune, lock, wal, gap, clearing, floor, epoch,
                 trees, sidecars, last, ghosts>>

Receive ==
  /\ rcv = "receive"
  /\ \E segment \in open :
         /\ segment < source.head /\ \A s \in open : s <= segment
         /\ wal' = wal \cup {segment}
         /\ open' = (open \ {segment}) \cup {segment + 1}
         /\ source' = [source EXCEPT !.restart = segment + 1, !.keep = HighestOf({@, segment})]
  /\ UNCHANGED <<mode, clock, rcv, job, prune, lock, gap, clearing, floor, epoch,
                 trees, sidecars, last, ghosts>>

\* The receiver is stopped at any step; systemd starts it again.
StopReceiver ==
  /\ rcv # "down" /\ rcv' = "down"
  /\ UNCHANGED <<mode, clock, source, job, prune, lock, disk, ghosts>>

(***************************************************************************)
(* The base backup job, under BACKUP_LOCK.                                 *)
(***************************************************************************)
JobIs(step) == job.step = step
UnchangedByJob == <<mode, clock, rcv, prune>>
\* For the two steps that read the clock.
UnchangedByReader == <<mode, rcv, prune>>

Start ==
  /\ JobIs("idle") /\ lock = "free"
  /\ ReadClock
  /\ \E id \in Ids : /\ \A used \in DOMAIN trees : used < id
                     /\ last < id
                     /\ job' = [Idle EXCEPT !.step = "copy", !.id = id, !.started = clock',
                                            !.goal = source.head]
  /\ lock' = "job"
  /\ UNCHANGED <<UnchangedByReader, source, wal, open, gap, clearing, floor, epoch, trees, sidecars, last, ghosts>>

\* The verified tree is renamed into place; its manifest says which WAL it needs.
Publish ==
  /\ JobIs("copy")
  /\ ReadClock
  /\ trees' = Put(trees, job.id, [start |-> SegBytes * job.goal, stop |-> SegBytes * source.head,
                                  published |-> clock'])
  /\ job' = [job EXCEPT !.step = IF mode = "meta" THEN "point" ELSE "stamp"]
  /\ UNCHANGED <<UnchangedByReader, source, lock, wal, open, gap, clearing, floor, epoch, sidecars, last, ghosts>>

\* pg_create_restore_point, pg_switch_wal.
RestorePoint ==
  /\ JobIs("point") /\ source.head < MaxSegment
  /\ job' = [job EXCEPT !.step = "wait", !.goal = source.head]
  /\ source' = [source EXCEPT !.head = @ + 1]
  /\ UNCHANGED <<UnchangedByJob, lock, disk, ghosts>>

\* Mutant: a timeout passes for an answer.
BugWaitWal ==
  /\ JobIs("wait")
  /\ job' = [job EXCEPT !.step = "recover"]
  /\ UNCHANGED <<UnchangedByJob, source, lock, disk, ghosts>>

WaitWal ==
  /\ JobIs("wait")
  /\ Contiguous(Archive, 1, Segment(trees[job.id].start), job.goal, FALSE)
  /\ job' = [job EXCEPT !.step = "recover"]
  /\ UNCHANGED <<UnchangedByJob, source, lock, disk, ghosts>>

\* A legacy root: sidecars of an earlier mode go, and the marker is a time.
StampSuccess ==
  /\ JobIs("stamp")
  /\ sidecars' = <<>>
  /\ last' = Stamp
  /\ lastStart' = job.started
  /\ job' = [job EXCEPT !.step = "recover"]
  /\ UNCHANGED <<UnchangedByJob, source, lock, wal, open, gap, clearing, floor, epoch, trees,
                 losses, disturbed>>

\* recover_clearing: for each orphan the times are compared, and then it is
\* renamed over .gap or removed.
CompareOrphan ==
  /\ JobIs("recover")
  /\ \E orphan \in clearing :
        job' = [job EXCEPT !.step = "restore", !.orphan = orphan, !.newer = orphan > gap]
  /\ UNCHANGED <<UnchangedByJob, source, lock, disk, ghosts>>

RestoreOrphan ==
  /\ JobIs("restore")
  /\ gap' = IF job.newer THEN job.orphan ELSE gap
  /\ clearing' = clearing \ {job.orphan}
  /\ job' = [job EXCEPT !.step = "recover", !.orphan = None, !.newer = FALSE]
  /\ UNCHANGED <<UnchangedByJob, source, lock, wal, open, floor, epoch, trees, sidecars, last, ghosts>>

\* Mutant: any marker counts as closed by this base.
BugCheckGap ==
  /\ JobIs("recover") /\ clearing = {}
  /\ job' = [job EXCEPT !.seen = gap,
                         !.step = CASE mode = "meta" /\ gap = None -> "meta"
                                    [] mode = "meta" /\ gap # None -> "floor"
                                    [] mode = "legacy" /\ gap = None -> "done"
                                    [] OTHER -> "rotate"]
  /\ UNCHANGED <<UnchangedByJob, source, lock, disk, ghosts>>

\* gap_closed_by: only a marker older than the start of this base.
CheckGap ==
  /\ JobIs("recover") /\ clearing = {}
  /\ LET seen == IF gap < job.started THEN gap ELSE None
     IN  job' = [job EXCEPT !.seen = seen,
                            !.step = CASE mode = "meta" /\ seen = None -> "meta"
                                       [] mode = "meta" /\ seen # None -> "floor"
                                       [] mode = "legacy" /\ seen = None -> "done"
                                       [] OTHER -> "rotate"]
  /\ UNCHANGED <<UnchangedByJob, source, lock, disk, ghosts>>

\* finalize sets the floor and then rotates; clear_gap rotates first.
SetFloor ==
  /\ JobIs("floor")
  /\ floor' = job.started
  /\ job' = [job EXCEPT !.step = IF mode = "meta" THEN "rotate" ELSE "remove"]
  /\ UNCHANGED <<UnchangedByJob, source, lock, wal, open, gap, clearing, epoch, trees, sidecars, last, ghosts>>

Rotate ==
  /\ JobIs("rotate")
  /\ epoch' = epoch + 1
  /\ job' = [job EXCEPT !.step = IF mode = "meta" THEN "meta" ELSE "floor"]
  /\ UNCHANGED <<UnchangedByJob, source, lock, wal, open, gap, clearing, floor, trees, sidecars, last, ghosts>>

WriteMeta ==
  /\ JobIs("meta")
  /\ sidecars' = Put(sidecars, job.id, [epoch |-> epoch, goal |-> SegBytes * job.goal + 1,
                                        started |-> job.started])
  /\ job' = [job EXCEPT !.step = "success"]
  /\ UNCHANGED <<UnchangedByJob, source, lock, wal, open, gap, clearing, floor, epoch, trees, last, ghosts>>

WriteSuccess ==
  /\ JobIs("success")
  /\ last' = job.id
  /\ lastStart' = job.started
  /\ job' = [job EXCEPT !.step = IF job.seen = None THEN "done" ELSE "remove"]
  /\ UNCHANGED <<UnchangedByJob, source, lock, wal, open, gap, clearing, floor, epoch, trees, sidecars,
                 losses, disturbed>>

\* remove_gap: the marker is renamed away, compared, put back when it is not
\* the one that was seen and no newer one is there, and unlinked.
TakeMarker ==
  /\ JobIs("remove")
  /\ IF gap = None
     THEN job' = [job EXCEPT !.step = "done"] /\ UNCHANGED <<gap, clearing>>
     ELSE /\ clearing' = clearing \cup {gap} /\ gap' = None
          /\ job' = [job EXCEPT !.step = "compare", !.orphan = gap]
  /\ UNCHANGED <<UnchangedByJob, source, lock, wal, open, floor, epoch, trees, sidecars, last, ghosts>>

\* Mutant: whatever was renamed away is dropped.
BugCompareMarker ==
  /\ JobIs("compare")
  /\ gap' = gap
  /\ job' = [job EXCEPT !.step = "unlink"]
  /\ UNCHANGED <<UnchangedByJob, source, lock, wal, open, clearing, floor, epoch, trees, sidecars, last, ghosts>>

CompareMarker ==
  /\ JobIs("compare")
  /\ gap' = IF job.orphan # job.seen /\ gap = None THEN job.orphan ELSE gap
  /\ job' = [job EXCEPT !.step = "unlink"]
  /\ UNCHANGED <<UnchangedByJob, source, lock, wal, open, clearing, floor, epoch, trees, sidecars, last, ghosts>>

UnlinkMarker ==
  /\ JobIs("unlink")
  /\ clearing' = clearing \ {job.orphan}
  /\ job' = [job EXCEPT !.step = "done"]
  /\ UNCHANGED <<UnchangedByJob, source, lock, wal, open, gap, floor, epoch, trees, sidecars, last, ghosts>>

\* The job ends: done, failed, or killed.
EndJob ==
  /\ job.step # "idle"
  /\ job' = Idle /\ lock' = "free"
  /\ UNCHANGED <<UnchangedByJob, source, disk, ghosts>>

(***************************************************************************)
(* Prune, under BACKUP_LOCK.                                               *)
(***************************************************************************)
\* The newest ones, the one LAST_SUCCESS names, and those not old enough.
Retained(newest, cutoff) ==
  newest \cup {id \in DOMAIN trees : id = last \/ trees[id].published >= cutoff}

\* With any sidecar, LAST_SUCCESS must name a finalized tree.
MayPrune == DOMAIN trees # {}
            /\ (DOMAIN sidecars # {} => last \in DOMAIN trees \cap DOMAIN sidecars)

Newest(S) == S \subseteq DOMAIN trees
  /\ Cardinality(S) = LowestOf({KeepNewest, Cardinality(DOMAIN trees)})
  /\ \A id \in S, other \in DOMAIN trees \ S : trees[other].published <= trees[id].published

\* What goes is decided by the trees and by age: WAL below the floor of those
\* kept, up to a cutoff; what is received meanwhile is too young.
PlanPrune ==
  /\ prune.step = "idle" /\ lock = "free"
  /\ MayPrune
  /\ \E newest \in SUBSET DOMAIN trees, cutoff \in 1..clock :
        /\ Newest(newest)
        /\ LET kept == Retained(newest, cutoff)
           IN  \E below \in 0..MaxSegment :
                 /\ \A id \in kept : below <= Segment(trees[id].start)
                 /\ prune' = [step |-> "trees", expired |-> DOMAIN trees \ kept,
                             doomed |-> {s \in wal : s < below}]
  /\ lock' = "prune"
  /\ UNCHANGED <<mode, clock, source, rcv, job, disk, ghosts>>

ExpireSidecar ==
  /\ prune.step = "trees"
  /\ \E id \in prune.expired \cap DOMAIN sidecars : sidecars' = Without(sidecars, id)
  /\ UNCHANGED <<mode, clock, source, rcv, job, prune, lock, wal, open, gap, clearing, floor, epoch,
                 trees, last, ghosts>>

ExpireTree ==
  /\ prune.step = "trees"
  /\ \E id \in prune.expired \ DOMAIN sidecars :
        /\ trees' = Without(trees, id)
        /\ prune' = [prune EXCEPT !.expired = @ \ {id}]
  /\ UNCHANGED <<mode, clock, source, rcv, job, lock, wal, open, gap, clearing, floor, epoch,
                 sidecars, last, ghosts>>

\* Segments go one at a time, in directory order.
DeleteSegment ==
  /\ prune.step = "trees" /\ prune.expired = {}
  /\ \E s \in prune.doomed :
        /\ wal' = wal \ {s}
        /\ prune' = [prune EXCEPT !.doomed = @ \ {s}]
  /\ UNCHANGED <<mode, clock, source, rcv, job, lock, open, gap, clearing, floor, epoch,
                 trees, sidecars, last, ghosts>>

EndPrune ==
  /\ prune.step = "trees"
  /\ prune.expired = {} /\ prune.doomed = {}
  /\ prune' = Asleep /\ lock' = "free"
  /\ UNCHANGED <<mode, clock, source, rcv, job, disk, ghosts>>

KillPrune ==
  /\ prune.step = "trees"
  /\ prune' = Asleep /\ lock' = "free" /\ disturbed' = TRUE
  /\ UNCHANGED <<mode, clock, source, rcv, job, disk, losses, lastStart>>

Next ==
  \/ WriteWal \/ LoseSlot
  \/ Probe \/ ProbeDeferred \/ MarkMissing \/ Scan \/ Connect \/ Receive \/ StopReceiver
  \/ Start \/ Publish \/ RestorePoint \/ WaitWal \/ StampSuccess \/ CompareOrphan \/ RestoreOrphan
  \/ CheckGap \/ SetFloor \/ Rotate \/ WriteMeta \/ WriteSuccess
  \/ TakeMarker \/ CompareMarker \/ UnlinkMarker \/ EndJob
  \/ PlanPrune \/ ExpireSidecar \/ ExpireTree \/ DeleteSegment \/ EndPrune \/ KillPrune

Spec == Init /\ [][Next]_vars

(***************************************************************************)
(* Health, as a reader of one instant.                                     *)
(***************************************************************************)
GapPresent == gap # None \/ clearing # {}

TargetOfLast ==
  IF mode = "legacy" /\ DOMAIN sidecars = {} /\ last \in {None, Stamp} THEN NoTarget
  ELSE IF last \in DOMAIN trees \cap DOMAIN sidecars /\ sidecars[last].goal > trees[last].stop
       THEN Target(1, sidecars[last].goal)
       ELSE Unusable

Healthy ==
  /\ source.slot = "present" /\ rcv = "receive"
  /\ ~GapPresent
  /\ OldestBase # None
  /\ Usable(Archive, <<>>, [t |-> 1, start |-> trees[OldestBase].start,
                                 stop |-> trees[OldestBase].stop, cluster |-> OurCluster],
            TargetOfLast)

(***************************************************************************)
(* Properties.                                                             *)
(***************************************************************************)
TypeOK ==
  /\ mode \in Modes /\ clock \in 1..MaxClock
  /\ source \in [head : 0..MaxSegment, keep : 0..MaxSegment, restart : 0..MaxSegment,
                 slot : {"present", "missing", LostSlot}, lost : 0..MaxLosses]
  /\ wal \subseteq 0..(MaxSegment - 1) /\ open \subseteq 0..MaxSegment
  /\ rcv \in {"down", "scan", "mark", "create", "receive"}
  /\ gap \in {None} \cup 1..MaxClock /\ clearing \subseteq 1..MaxClock
  /\ floor \in 0..MaxClock /\ epoch \in Nat
  /\ DOMAIN trees \subseteq Ids /\ DOMAIN sidecars \subseteq Ids
  /\ last \in {None, Stamp} \cup Ids
  /\ lock = CASE job.step # "idle" -> "job" [] prune.step # "idle" -> "prune" [] OTHER -> "free"
  /\ job.step = "idle" \/ prune.step = "idle"

\* A recorded loss of WAL stays recorded, also through an interrupted or
\* contended removal, until a base that started after it has been published:
\* "only the marker seen at check time (`detected_ms`) is cleared; a newer one
\* the receiver wrote since survives" (pg_backup.rs:624).
LossKept ==
  \A t \in losses : lastStart > t \/ gap >= t \/ \E orphan \in clearing : orphan >= t

\* A sidecar vouches for a published tree whose WAL, from its start through its
\* recovery target, is all in the archive; and when LAST_SUCCESS names a base,
\* that base has its sidecar.  Prune is killed anywhere, finalize too.
FinalizedRestorable ==
  /\ \A id \in DOMAIN sidecars :
        /\ id \in DOMAIN trees
        /\ Segment(trees[id].start)..Segment(sidecars[id].goal) \subseteq wal
  /\ last \in Ids => last \in DOMAIN sidecars

\* When health reports nothing, no recorded loss is open, the base of
\* LAST_SUCCESS replays without a hole to the newest segment, and so do the
\* other bases of its epoch started after the losses: the floor, the anchor and
\* the generation never leave health looking at less than a restore needs.
HealthyIsRestorable ==
  Healthy => /\ \A t \in losses : lastStart > t
             /\ last \in DOMAIN trees =>
                  /\ Segment(trees[last].start)..(HighestOf(Received) - 1) \subseteq wal
                  /\ \A id \in DOMAIN sidecars : sidecars[id].epoch = sidecars[last].epoch =>
                        \A t \in losses : sidecars[id].started > t

\* While the source keeps its slot and prune is not cut short there is no
\* marker: the coverage scan does not take segments that prune is deleting for
\* lost ones.  "Pruning deletes segments one by one under BACKUP_LOCK, so scan
\* under it too" (pg_backup.rs:400).
NoFalseGap == ~disturbed => losses = {}
=============================================================================
