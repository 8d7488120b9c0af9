----------------------------- MODULE MCWalChain -----------------------------
(***************************************************************************)
(* An environment for WalChain: three timelines forked from one another in *)
(* every way, a base and a recovery target anywhere, and an archive that   *)
(* gains and loses files one at a time.                                    *)
(***************************************************************************)
EXTENDS WalChain

CONSTANTS LastSegment,  \* segments 0..LastSegment of every timeline
          Starts,       \* LSNs a base may start at
          Forks         \* LSNs a timeline may be left at

ASSUME ArchiveAssumption ==
  /\ LastSegment \in Nat
  /\ Starts \subseteq Nat
  /\ Forks \subseteq Nat

Timelines == 1..3
LSNs == 0..(SegBytes * (LastSegment + 1) - 1)
Cells == Timelines \X (0..LastSegment)

VARIABLES archive,    \* the files received
          histories,  \* the .history files received
          base,       \* the oldest retained base
          target      \* where LAST_SUCCESS leads

archiveVars == <<archive, histories, base, target>>

\* Timeline 2 left timeline 1; timeline 3 left timeline 2 later on, or left
\* timeline 1 as a sibling of timeline 2.
Left(t, at) == [t |-> t, at |-> at]
Descent(f, g)  == [t \in {2, 3} |-> IF t = 2 THEN <<Left(1, f)>> ELSE <<Left(1, f), Left(2, g)>>]
Siblings(f, g) == [t \in {2, 3} |-> IF t = 2 THEN <<Left(1, f)>> ELSE <<Left(1, g)>>]
Families == {Descent(p[1], p[2]) : p \in {q \in Forks \X Forks : q[1] <= q[2]}}
            \cup {Siblings(p[1], p[2]) : p \in Forks \X Forks}

Bases == {b \in [t : {1, 2}, start : Starts, stop : LSNs, cluster : {OurCluster}] :
            b.start < b.stop /\ b.stop <= b.start + SegBytes}

\* The first LSN written on a timeline.
Origin(t) == IF t = 1 THEN 0 ELSE histories[t][Len(histories[t])].at

Complete == [partial |-> FALSE, cluster |-> OurCluster]
Foreign  == [partial |-> FALSE, cluster |-> OtherCluster]
Partial  == [partial |-> TRUE, cluster |-> Unwritten]

ArchiveInit ==
  /\ archive = <<>>
  /\ histories \in Families
  /\ base \in {b \in Bases : b.start >= Origin(b.t)}
  /\ target \in {NoTarget, Unusable} \cup
       {Target(x[1], x[2]) : x \in
          {y \in Timelines \X LSNs : base.stop < y[2] /\ Origin(y[1]) <= y[2]}}

\* The receiver completes or opens a file; one file at most is of a replaced
\* cluster, and a .partial is the newest of its timeline.
ReceiveFile ==
  \E c \in Cells \ DOMAIN archive :
    \E file \in {Complete, Foreign, Partial} :
      /\ file = Foreign => \A d \in DOMAIN archive : archive[d] # Foreign
      /\ file = Partial => \A s \in On(archive, c[1]) : s < c[2]
      /\ \A d \in DOMAIN archive : archive[d] = Partial => d[1] # c[1] \/ d[2] > c[2]
      /\ archive' = [d \in DOMAIN archive \cup {c} |-> IF d = c THEN file ELSE archive[d]]
      /\ UNCHANGED <<histories, base, target>>

\* A history file is lost.
LoseHistory ==
  \E t \in DOMAIN histories :
    /\ histories' = [u \in DOMAIN histories \ {t} |-> histories[u]]
    /\ UNCHANGED <<archive, base, target>>

ArchiveNext == ReceiveFile \/ LoseHistory
ArchiveSpec == ArchiveInit /\ [][ArchiveNext]_archiveVars

(***************************************************************************)
(* Reference: the newest archived timeline is the one recovery follows.    *)
(* A position belongs to the youngest timeline of that lineage that had    *)
(* already been forked there.                                              *)
(***************************************************************************)
NewestTimeline == HighestOf(TimelinesOf(archive))
Lineage == IF NewestTimeline \in DOMAIN histories
           THEN Append(histories[NewestTimeline], [t |-> NewestTimeline, at |-> HighestOf(LSNs) + 1])
           ELSE <<[t |-> NewestTimeline, at |-> HighestOf(LSNs) + 1]>>
Owner(lsn) == Lineage[LowestOf({i \in DOMAIN Lineage : lsn < Lineage[i].at})].t

\* The base is a state of that lineage.
BaseOnLineage == \E i \in DOMAIN Lineage : Lineage[i].t = base.t /\ base.stop <= Lineage[i].at

\* The position the replay must reach is one of that lineage too.
TargetOnLineage ==
  \/ target.kind = "none"
  \/ target.kind = "target" /\ \E i \in DOMAIN Lineage : Lineage[i].t = target.t /\ target.lsn <= Lineage[i].at

\* Every position from the base's start on is in a file of our cluster on the
\* timeline that owns it; only one needed after `through` alone may be partial.
Replays(through, last) ==
  \A lsn \in base.start..last :
    LET c == <<Owner(lsn), Segment(lsn)>>
    IN  /\ c \in DOMAIN archive
        /\ archive[c] = Complete \/ (archive[c] = Partial /\ lsn > through)

Goal == IF target.kind = "target" THEN HighestOf({base.stop, target.lsn}) ELSE base.stop
LastArchived == SegBytes * (HighestOf(On(archive, NewestTimeline)) + 1) - 1

\* An LSN such as the stop or a restore point is where a record ends, so the
\* last position a replay must have is the one before it.
\* Replay that needs every position up to and including `through`.
Restorable(through) ==
  /\ archive # <<>>
  /\ BaseOnLineage
  /\ TargetOnLineage
  /\ LastArchived >= through
  /\ Replays(through, LastArchived)

(***************************************************************************)
(* Properties.                                                             *)
(***************************************************************************)
\* `health` calls the WAL usable only when the base can be replayed along the
\* ancestry of the newest timeline, through the recovery target and up to the
\* newest archived segment, from complete files of its own cluster.  "Gapless
\* legs from the base's start to the newest segment of `newest`, following the
\* newest timeline's history" (pg_backup.rs:236), "only the final leg's tail,
\* past the stop and the recovery target, may be one" (pg_backup.rs:823).
UsableSound == Usable(archive, histories, base, target) => Restorable(Goal - 1)

\* On one timeline there is no false alarm: WAL that replays from the base
\* through the target is called usable.  The code asks for the segment that
\* holds the target, also when the target only ends at its first byte.
NoFalseAlarm ==
  (Restorable(Goal) /\ base.t = NewestTimeline /\ (target.kind = "target" => target.t = NewestTimeline))
    => Usable(archive, histories, base, target)
=============================================================================
