------------------------------ MODULE WalChain ------------------------------
(***************************************************************************)
(* From which bases can the received WAL be replayed?  The archive, base   *)
(* and timeline arithmetic of storage/pg_backup.rs, as pure operators, and *)
(* a small environment that builds archives to compare the verdict of      *)
(* `health` with a reference definition of replayability.                  *)
(*                                                                         *)
(* Simplifications:                                                        *)
(*  - an LSN is a natural number, SegBytes of them to a segment;           *)
(*  - an archive is a function from <<timeline, segment>> to the state of  *)
(*    the file, with the cluster its first page names (Unwritten for a     *)
(*    .partial still without a header).  Names that parse_segment rejects  *)
(*    and complete names of the wrong size are not in the function;        *)
(*  - manifests, sidecars and control files that do not parse are the      *)
(*    value NoBase or an unusable target, and refuse like the code does.   *)
(***************************************************************************)
EXTENDS Integers, Sequences, FiniteSets

CONSTANTS SegBytes,     \* LSNs per WAL segment
          OurCluster,   \* the system identifier of the bases
          OtherCluster, \* that of a replaced cluster
          Unwritten     \* the identifier read from an unwritten .partial

ASSUME SegBytesPositive == SegBytes \in Nat \ {0}
ASSUME ClustersDiffer == Cardinality({OurCluster, OtherCluster, Unwritten}) = 3

Segment(lsn) == lsn \div SegBytes
LowestOf(S) == CHOOSE s \in S : \A x \in S : s <= x
HighestOf(S) == CHOOSE s \in S : \A x \in S : s >= x

(***************************************************************************)
(* The archive.                                                            *)
(***************************************************************************)
On(archive, t) == {s \in {c[2] : c \in DOMAIN archive} : <<t, s>> \in DOMAIN archive}
TimelinesOf(archive) == {c[1] : c \in DOMAIN archive}

Contiguous(archive, t, lo, hi, partialOk) ==
  \A s \in lo..hi :
     /\ <<t, s>> \in DOMAIN archive
     /\ ~archive[<<t, s>>].partial \/ (partialOk /\ s = hi)

\* Mutant: stale files of a replaced cluster satisfy continuity.
BugSameCluster(archive, t, lo, hi, sysid) == lo <= hi \/ lo > hi

SameCluster(archive, t, lo, hi, sysid) ==
  \A s \in lo..hi :
     <<t, s>> \in DOMAIN archive =>
        LET file == archive[<<t, s>>]
        IN  file.cluster = sysid \/ (file.partial /\ file.cluster = Unwritten)

\* A missing segment between the first and the last one of some timeline.
HasHole(archive) ==
  \E t \in TimelinesOf(archive) :
     ~Contiguous(archive, t, LowestOf(On(archive, t)), HighestOf(On(archive, t)), TRUE)

\* The archive holds nothing of the timeline, or starts after the base does.
LeadingGap(archive, t, first) ==
  On(archive, t) = {} \/ LowestOf(On(archive, t)) > first

(***************************************************************************)
(* Timelines.  A history is the sequence of [t, at]: the ancestors of a    *)
(* timeline, oldest first, each with the LSN where it was left.  histories *)
(* maps the timelines whose .history file is in the archive.               *)
(***************************************************************************)
NoLegs == <<>>

\* The legs from the base to the newest segment, or NoLegs where the code
\* returns an error.  A leg ends in the segment of the fork, which belongs to
\* the child alone at an exact boundary; the next leg starts there.
Chain(histories, base, newest, hi) ==
  IF newest = base.t
  THEN IF hi < Segment(base.stop) THEN NoLegs
       ELSE <<[t |-> base.t, lo |-> Segment(base.start), hi |-> hi]>>
  ELSE IF newest \notin DOMAIN histories THEN NoLegs
  ELSE LET history == histories[newest]
           names == {i \in DOMAIN history : history[i].t = base.t}
           at == LowestOf(names)
           n == Len(history)
           End(lsn) == IF lsn % SegBytes = 0 /\ lsn > 0
                       THEN Segment(lsn) - 1 ELSE Segment(lsn)
           Start(i) == IF i = at THEN Segment(base.start)
                       ELSE Segment(history[i - 1].at)
       IN  IF names = {} \/ history[at].at < base.stop \/ hi < Segment(history[n].at)
           THEN NoLegs
           ELSE [k \in 1..(n - at + 2) |->
                   LET i == at + k - 1
                   IN  IF i <= n
                       THEN [t |-> history[i].t, lo |-> Start(i), hi |-> End(history[i].at)]
                       ELSE [t |-> newest, lo |-> Segment(history[n].at), hi |-> hi]]

(***************************************************************************)
(* The recovery target: NoTarget for a legacy root, Unusable when metadata *)
(* is in use and LAST_SUCCESS does not lead to a sound sidecar.            *)
(***************************************************************************)
NoTarget == [kind |-> "none", t |-> 0, lsn |-> 0]
Unusable == [kind |-> "unusable", t |-> 0, lsn |-> 0]
Target(t, lsn) == [kind |-> "target", t |-> t, lsn |-> lsn]

ForkOf(histories, newest, ancestor) ==
  IF newest \notin DOMAIN histories THEN {}
  ELSE {histories[newest][i].at : i \in {j \in DOMAIN histories[newest] :
                                          histories[newest][j].t = ancestor}}

Unreachable == -1

\* Mutant: a target on an ancestor is taken to lie before the fork.
BugReach(histories, target, newest, stop) ==
  IF target.kind = "none" THEN stop
  ELSE IF target.kind = "unusable" \/ target.t > newest THEN Unreachable
  ELSE IF target.t = newest THEN HighestOf({target.lsn, stop})
  ELSE stop

\* The LSN the archive must reach, or Unreachable where the code errs.
Reach(histories, target, newest, stop) ==
  IF target.kind = "none" THEN stop
  ELSE IF target.kind = "unusable" \/ target.t > newest THEN Unreachable
  ELSE IF target.t = newest THEN HighestOf({target.lsn, stop})
  ELSE IF \E fork \in ForkOf(histories, newest, target.t) : target.lsn <= fork
       THEN stop
       ELSE Unreachable

\* Mutant: one segment too many has to be complete.
BugCompleteThrough(reach, stop) ==
  Segment(IF reach = Unreachable THEN stop ELSE HighestOf({reach, stop})) + 1

CompleteThrough(reach, stop) ==
  Segment(IF reach = Unreachable THEN stop ELSE HighestOf({reach, stop}))

(***************************************************************************)
(* What `health` concludes about the WAL of the oldest retained base.      *)
(***************************************************************************)
Usable(archive, histories, base, target) ==
  /\ archive # <<>>
  /\ LET newest == HighestOf(TimelinesOf(archive))
         hi == HighestOf(On(archive, newest))
         reach == Reach(histories, target, newest, base.stop)
         legs == Chain(histories, base, newest, hi)
     IN  /\ newest >= base.t
         /\ reach # Unreachable
         /\ hi >= Segment(reach)
         /\ legs # NoLegs
         /\ \A i \in DOMAIN legs :
               /\ Contiguous(archive, legs[i].t, legs[i].lo, legs[i].hi,
                             i = Len(legs) /\ legs[i].hi > CompleteThrough(reach, base.stop))
               /\ SameCluster(archive, legs[i].t, legs[i].lo, legs[i].hi, base.cluster)

=============================================================================
