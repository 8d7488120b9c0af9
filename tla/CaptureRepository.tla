-------------------------- MODULE CaptureRepository --------------------------
(***************************************************************************)
(* Source-local physical captures: storage/recovery_capture.rs (finalize), *)
(* storage/recovery_repository.rs (select, retire) and the pins that       *)
(* storage/backup.rs honours (backup/pins.rs).                             *)
(*                                                                         *)
(* A capture is four immutable carriers of one identifier: the retention   *)
(* pin, published first; the inventory of the WAL it needs; its metadata,  *)
(* the pin's bytes again; and the snapshot of the record hashes.  SELECTED *)
(* names the one recovery uses.  Every mutation holds locks/mutate, so at  *)
(* most one of finalize, retire, prune and the base backup job runs; each  *)
(* is killed between any two of its steps, and the power may be lost.      *)
(* The writers, the writer fence and the WAL receiver go on meanwhile.     *)
(*                                                                         *)
(* Simplifications:                                                        *)
(*  - an LSN is the number of its segment; the archive maps received       *)
(*    segments to their bytes, 0 as received, 1 altered later;             *)
(*  - the records a check selects are counted by the writes before an LSN; *)
(*    machine, contract, system identifier, major and timeline agree;      *)
(*  - evidence ages: a freshness check may fail at any time, and is an      *)
(*    error like any other;                                                *)
(*  - BACKUP_LOCK, taken after locks/mutate, is contended by the receiver  *)
(*    only: a failure, like a kill;                                        *)
(*  - an error ends the program, which is what a kill does to the state;   *)
(*  - publications are durable, removals are not until their directory is  *)
(*    flushed.                                                             *)
(***************************************************************************)
EXTENDS Integers, Sequences, FiniteSets

CONSTANTS Captures,    \* capture identifiers
          None,        \* no capture
          MaxBases,    \* base backups taken
          MaxSegment,  \* WAL segments written
          MaxTokens,   \* tokens of writer fences; a new fence has one no capture names
          MaxWrites,   \* writes to the records
          KeepNewest   \* newest bases retention keeps (2)

ASSUME CaptureAssumption ==
  /\ None \notin Captures
  /\ {MaxBases, MaxSegment, MaxTokens, MaxWrites} \subseteq Nat
  /\ KeepNewest \in Nat \ {0}

VARIABLES
  head,      \* the segment the primary writes
  writes,    \* the segments with a write to the records
  token,     \* the live writer fence, 0 when writers run
  bases,     \* published bases to [start, stop]
  wal,       \* received segments to their bytes
  received,  \* the next segment the receiver completes
  carriers,  \* kind of carrier to (capture to content)
  pending,   \* removals not flushed, <<kind, capture, content>>
  selected,  \* SELECTED
  journal,   \* captures/<id>.retired: what each carrier held, or None
  op         \* the holder of locks/mutate

source == <<head, writes, token>>
archive == <<wal, received>>
local == <<carriers, pending, selected, journal>>
vars == <<source, bases, archive, local, op>>

Order == <<"metadata", "inventory", "snapshot", "pin">>
Kinds == {Order[i] : i \in DOMAIN Order}
DirOf(kind) == IF kind \in {"metadata", "inventory"} THEN "captures" ELSE kind

Idle == [kind |-> "idle"]
Put(f, k, v) == [x \in DOMAIN f \cup {k} |-> IF x = k THEN v ELSE f[x]]
Without(f, k) == [x \in DOMAIN f \ {k} |-> f[x]]

Init ==
  /\ head = 0 /\ writes = {} /\ token = 0
  /\ bases = <<>> /\ wal = <<>> /\ received = 0
  /\ carriers = [k \in Kinds |-> <<>>] /\ pending = {}
  /\ selected = None /\ journal = <<>>
  /\ op = Idle

Has(kind, id) == id \in DOMAIN carriers[kind]
Pinned == DOMAIN carriers["pin"]

\* The records as of an LSN.
RecordsAt(lsn) == Cardinality({s \in writes : s < lsn})

\* A publication flushes the directory it is in.
Publish(kind, id, content) ==
  /\ carriers' = [carriers EXCEPT ![kind] = Put(@, id, content)]
  /\ pending' = {p \in pending : DirOf(p[1]) # DirOf(kind)}

\* An immutable carrier is published once; one with other bytes is an error.
Immutable(kind, id, content) ==
  IF Has(kind, id)
  THEN carriers[kind][id] = content /\ UNCHANGED <<carriers, pending>>
  ELSE Publish(kind, id, content)

(***************************************************************************)
(* The world outside (external).                                           *)
(***************************************************************************)
OpenFence ==
  /\ token = 0
  /\ LET used == {p.token : p \in UNION {{carriers[k][id] : id \in DOMAIN carriers[k]} :
                                            k \in Kinds \ {"inventory"}}}
         fresh == 1..MaxTokens \ used
     IN  \E t \in fresh : (\A other \in fresh : t <= other) /\ token' = t
  /\ UNCHANGED <<head, writes, bases, archive, local, op>>

\* finalize and its children hold a lease on the fence.
CloseFence ==
  /\ token # 0 /\ op.kind # "finalize"
  /\ token' = 0
  /\ UNCHANGED <<head, writes, bases, archive, local, op>>

Write ==
  /\ token = 0 /\ head < MaxSegment /\ Cardinality(writes) < MaxWrites
  /\ writes' = writes \cup {head} /\ head' = head + 1
  /\ UNCHANGED <<token, bases, archive, local, op>>

Receive ==
  /\ received < head
  /\ wal' = Put(wal, received, 0) /\ received' = received + 1
  /\ UNCHANGED <<source, bases, local, op>>

\* Bytes that an inventory has frozen change on the medium, once.
Damage ==
  /\ \E id \in DOMAIN carriers["inventory"] :
       \E s \in DOMAIN carriers["inventory"][id] \cap DOMAIN wal : wal' = Put(wal, s, 1)
  /\ \A s \in DOMAIN wal : wal[s] = 0
  /\ UNCHANGED <<source, bases, received, local, op>>

(***************************************************************************)
(* The base backup job, in one step: it holds locks/mutate throughout.     *)
(***************************************************************************)
TakeBase ==
  /\ op = Idle /\ head < MaxSegment
  /\ \E b \in 1..MaxBases :
        /\ \A other \in DOMAIN bases : other < b
        /\ bases' = Put(bases, b, [start |-> head, stop |-> head])
  /\ head' = head + 1
  /\ UNCHANGED <<writes, token, archive, local, op>>

(***************************************************************************)
(* finalize.                                                               *)
(***************************************************************************)
Finalizing(step) == op.kind = "finalize" /\ op.step = step
Proceed(step) == op' = [op EXCEPT !.step = step]

\* required_segments: recovery stops at the first record after the target, so
\* the segment after the target's is needed as well.
Needed(promise) == bases[promise.base].start..(promise.target + 1)

\* Mutant: a retired identifier is not rejected.
BugBeginFinalize ==
  /\ op = Idle /\ token # 0
  /\ \E id \in Captures, b \in DOMAIN bases :
        op' = [kind |-> "finalize", step |-> "intent", id |-> id,
               facts |-> [base |-> b, token |-> token, records |-> Cardinality(writes)],
               promise |-> None]
  /\ UNCHANGED <<source, bases, archive, local>>

\* Under the live fence and the locks the base is verified and the records of
\* the primary are read.
BeginFinalize ==
  /\ op = Idle /\ token # 0
  /\ \E id \in Captures, b \in DOMAIN bases :
        /\ id \notin DOMAIN journal
        /\ op' = [kind |-> "finalize", step |-> "intent", id |-> id,
                  facts |-> [base |-> b, token |-> token, records |-> Cardinality(writes)],
                  promise |-> None]
  /\ UNCHANGED <<source, bases, archive, local>>

PromiseOf(facts, target) ==
  [base |-> facts.base, token |-> facts.token, records |-> facts.records, target |-> target]

\* Mutant: a retry trusts the pin without comparing the live facts.
BugRetryIntent ==
  /\ Finalizing("intent") /\ op.id \in Pinned
  /\ op' = [op EXCEPT !.promise = PromiseOf(op.facts, carriers["pin"][op.id].target),
                       !.step = "stop"]
  /\ UNCHANGED <<source, bases, archive, local>>

\* A retry keeps the frozen promise when the live facts are those of the pin.
RetryIntent ==
  /\ Finalizing("intent") /\ op.id \in Pinned
  /\ LET pin == carriers["pin"][op.id]
     IN  /\ pin = PromiseOf(op.facts, pin.target)
         /\ op' = [op EXCEPT !.promise = pin, !.step = "stop"]
  /\ UNCHANGED <<source, bases, archive, local>>

\* pg_switch_wal: the target is the end of the segment it completes.
SwitchWal ==
  /\ Finalizing("intent") /\ op.id \notin Pinned /\ head < MaxSegment
  /\ head > bases[op.facts.base].stop
  /\ op' = [op EXCEPT !.promise = PromiseOf(op.facts, head), !.step = "pin"]
  /\ head' = head + 1
  /\ UNCHANGED <<writes, token, bases, archive, local>>

PublishPin ==
  /\ Finalizing("pin")
  /\ Immutable("pin", op.id, op.promise)
  /\ Proceed("stop")
  /\ UNCHANGED <<source, bases, archive, selected, journal>>

\* CHECKPOINT and another switch complete the segment after the target, unless
\* it has been received.
CompleteStop ==
  /\ Finalizing("stop")
  /\ IF op.promise.target + 1 \in DOMAIN wal THEN UNCHANGED head
     ELSE head < MaxSegment /\ head' = head + 1
  /\ Proceed("wait")
  /\ UNCHANGED <<writes, token, bases, archive, local>>

WaitWal ==
  /\ Finalizing("wait")
  /\ Needed(op.promise) \subseteq DOMAIN wal
  /\ Proceed("inventory")
  /\ UNCHANGED <<source, bases, archive, local>>

RetainedWal(promise) == [s \in Needed(promise) \cap DOMAIN wal |-> wal[s]]

FreezeInventory ==
  /\ Finalizing("inventory")
  /\ Immutable("inventory", op.id, RetainedWal(op.promise))
  /\ Proceed("metadata")
  /\ UNCHANGED <<source, bases, archive, selected, journal>>

PublishMetadata ==
  /\ Finalizing("metadata")
  /\ Immutable("metadata", op.id, op.promise)
  /\ Proceed("snapshot")
  /\ UNCHANGED <<source, bases, archive, selected, journal>>

PublishSnapshot ==
  /\ Finalizing("snapshot")
  /\ Immutable("snapshot", op.id, op.promise)
  /\ Proceed("select")
  /\ UNCHANGED <<source, bases, archive, selected, journal>>

\* The selector is replaced when the evidence is still fresh.
SelectCapture ==
  /\ Finalizing("select")
  /\ selected' = op.id
  /\ op' = Idle
  /\ UNCHANGED <<source, bases, archive, carriers, pending, journal>>

(***************************************************************************)
(* retire.                                                                 *)
(***************************************************************************)
Held(id) == [k \in Kinds |-> IF Has(k, id) THEN carriers[k][id] ELSE None]

\* The first attempt needs the pin, and metadata and snapshot that are its own.
BeginRetire ==
  /\ op = Idle
  /\ \E id \in Pinned \ DOMAIN journal :
        /\ id # selected
        /\ LET pin == carriers["pin"][id]
           IN  \A k \in {"metadata", "snapshot"} : Has(k, id) => carriers[k][id] = pin
        /\ op' = [kind |-> "retire", id |-> id, step |-> "journal", next |-> 1]
  /\ UNCHANGED <<source, bases, archive, local>>

WriteJournal ==
  /\ op.kind = "retire" /\ op.step = "journal"
  /\ journal' = Put(journal, op.id, Held(op.id))
  /\ pending' = {p \in pending : DirOf(p[1]) # "captures"}
  /\ Proceed("unlink")
  /\ UNCHANGED <<source, bases, archive, carriers, selected>>

\* A later attempt resumes when no carrier differs from the journal.
ResumeRetire ==
  /\ op = Idle
  /\ \E id \in DOMAIN journal :
        /\ id # selected
        /\ \A k \in Kinds : Has(k, id) => carriers[k][id] = journal[id][k]
        /\ op' = [kind |-> "retire", id |-> id, step |-> "unlink", next |-> 1]
  /\ UNCHANGED <<source, bases, archive, local>>

Unlink ==
  /\ op.kind = "retire" /\ op.step = "unlink"
  /\ LET kind == Order[op.next]
     IN  /\ Has(kind, op.id)
         /\ pending' = pending \cup {<<kind, op.id, carriers[kind][op.id]>>}
         /\ carriers' = [carriers EXCEPT ![kind] = Without(@, op.id)]
  /\ Proceed("flush")
  /\ UNCHANGED <<source, bases, archive, selected, journal>>

\* Mutant: only a directory something was removed from is flushed.
BugUnlinked ==
  /\ op.kind = "retire" /\ op.step = "unlink" /\ ~Has(Order[op.next], op.id)
  /\ op' = IF op.next = Len(Order) THEN Idle ELSE [op EXCEPT !.next = @ + 1]
  /\ UNCHANGED <<source, bases, archive, local>>

\* A carrier that is absent: its directory is flushed all the same.
Unlinked ==
  /\ op.kind = "retire" /\ op.step = "unlink" /\ ~Has(Order[op.next], op.id)
  /\ Proceed("flush")
  /\ UNCHANGED <<source, bases, archive, local>>

Flush ==
  /\ op.kind = "retire" /\ op.step = "flush"
  /\ pending' = {p \in pending : DirOf(p[1]) # DirOf(Order[op.next])}
  /\ op' = IF op.next = Len(Order) THEN Idle
           ELSE [op EXCEPT !.next = @ + 1, !.step = "unlink"]
  /\ UNCHANGED <<source, bases, archive, carriers, selected, journal>>

(***************************************************************************)
(* prune, with the pins.                                                   *)
(***************************************************************************)
Protected == {carriers["pin"][id].base : id \in Pinned}

Newest(S) ==
  /\ S \subseteq DOMAIN bases
  /\ Cardinality(S) = (IF Cardinality(DOMAIN bases) < KeepNewest THEN Cardinality(DOMAIN bases) ELSE KeepNewest)
  /\ \A b \in S, other \in DOMAIN bases \ S : other < b

\* A pin whose base is gone refuses.
PlanPrune ==
  /\ op = Idle /\ DOMAIN bases # {} /\ Protected \subseteq DOMAIN bases
  /\ \E newest \in SUBSET DOMAIN bases, expired \in SUBSET DOMAIN bases :
        /\ Newest(newest)
        /\ expired \cap (newest \cup Protected) = {}
        /\ op' = [kind |-> "prune", expired |-> expired,
                  below |-> {s \in 0..MaxSegment :
                               \A b \in DOMAIN bases \ expired : s < bases[b].start}]
  /\ UNCHANGED <<source, bases, archive, local>>

PruneBase ==
  /\ op.kind = "prune"
  /\ \E b \in op.expired : bases' = Without(bases, b) /\ op' = [op EXCEPT !.expired = @ \ {b}]
  /\ UNCHANGED <<source, archive, local>>

\* In directory order, which is taken to be that of the names.
PruneSegment ==
  /\ op.kind = "prune" /\ op.expired = {}
  /\ \E s \in DOMAIN wal \cap op.below :
        /\ \A other \in DOMAIN wal : s <= other
        /\ wal' = Without(wal, s)
  /\ UNCHANGED <<source, bases, received, local, op>>

\* Done, failed, or killed at any step.
EndOp ==
  /\ op # Idle /\ op' = Idle
  /\ UNCHANGED <<source, bases, archive, local>>

\* Removals that were not flushed may be undone, each on its own.
PowerLoss ==
  /\ pending # {}
  /\ \E undone \in SUBSET pending :
        carriers' = [k \in Kinds |->
          [id \in DOMAIN carriers[k] \cup {p[2] : p \in {q \in undone : q[1] = k}} |->
             IF Has(k, id) THEN carriers[k][id]
             ELSE (CHOOSE p \in undone : p[1] = k /\ p[2] = id)[3]]]
  /\ pending' = {} /\ op' = Idle
  /\ UNCHANGED <<source, bases, archive, selected, journal>>

Next ==
  \/ OpenFence \/ CloseFence \/ Write \/ Receive \/ Damage \/ TakeBase
  \/ BeginFinalize \/ RetryIntent \/ SwitchWal \/ PublishPin \/ CompleteStop \/ WaitWal
  \/ FreezeInventory \/ PublishMetadata \/ PublishSnapshot \/ SelectCapture
  \/ BeginRetire \/ WriteJournal \/ ResumeRetire \/ Unlink \/ Unlinked \/ Flush
  \/ PlanPrune \/ PruneBase \/ PruneSegment \/ EndOp \/ PowerLoss

Spec == Init /\ [][Next]_vars

(***************************************************************************)
(* select: what recovery accepts of SELECTED.                              *)
(***************************************************************************)
\* Metadata that is the pin's, of an existing base whose stop it follows.
Bound(id) ==
  /\ id \notin DOMAIN journal
  /\ Has("metadata", id) /\ Has("pin", id) /\ carriers["pin"][id] = carriers["metadata"][id]
  /\ LET promise == carriers["metadata"][id]
     IN  promise.base \in DOMAIN bases /\ promise.target > bases[promise.base].stop

Selectable(id) ==
  /\ Bound(id) /\ Has("inventory", id) /\ Has("snapshot", id)
  /\ LET promise == carriers["metadata"][id]
     IN  /\ Needed(promise) \subseteq DOMAIN wal
         /\ carriers["inventory"][id] = RetainedWal(promise)

(***************************************************************************)
(* Properties.                                                             *)
(***************************************************************************)
\* A pin keeps its base until retirement is acknowledged, and of the WAL from
\* that base on, every segment that has been received; no other carrier of a
\* capture outlives it, also through an interrupted retirement, its resumption
\* and a power loss.  "The pin is
\* removed last, after each obsolete evidence unlink is durable"
\* (recovery_repository.rs:212); "the pin precedes reception so pruning can
\* protect unfinished captures" (recovery_capture.rs:605).
EvidenceKept ==
  /\ \A id \in Pinned \ DOMAIN journal :
        /\ carriers["pin"][id].base \in DOMAIN bases
        /\ bases[carriers["pin"][id].base].start..(received - 1) \subseteq DOMAIN wal
  /\ \A k \in Kinds, id \in Captures : Has(k, id) => Has("pin", id)

\* The selected capture is complete and sound at every instant: only age
\* or bytes altered on the medium make recovery refuse it, and the snapshot's
\* records are those a replay to its target arrives at, although writers,
\* fences and retries came in between.
SelectedReplays ==
  selected # None =>
    /\ Bound(selected) /\ Has("inventory", selected) /\ Has("snapshot", selected)
    /\ LET promise == carriers["snapshot"][selected]
       IN  /\ Needed(promise) = DOMAIN carriers["inventory"][selected]
           /\ Needed(promise) \subseteq DOMAIN wal
           /\ promise.records = RecordsAt(promise.target)
           /\ (\A s \in DOMAIN wal : wal[s] = 0) => Selectable(selected)

\* The repository implements CaptureEvidence: an identifier stands for what its
\* pin froze through every retry, the selected one is not retired, and a
\* retired one is never republished ("prevents the identifier from ever being
\* republished", recovery_repository.rs:67).
Facts == [base : 1..MaxBases, token : 1..MaxTokens, records : 0..MaxWrites,
          target : 0..MaxSegment]

ASSUME NoneAssumption == None \notin Facts

Evidence == INSTANCE CaptureEvidence WITH
  Promises <- Facts,
  Nothing <- None,
  promise <- [id \in Captures |-> IF id \in Pinned \ DOMAIN journal THEN carriers["pin"][id] ELSE None],
  retired <- DOMAIN journal

ImplementsEvidence == Evidence!Spec
=============================================================================
