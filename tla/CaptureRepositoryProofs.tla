----------------------- MODULE CaptureRepositoryProofs -----------------------
(***************************************************************************)
(* Theorems of CaptureRepository for every number of captures, bases,      *)
(* segments, fences and writes: pinned evidence outlives interruptions and *)
(* power losses, the selected capture replays to what its snapshot says,   *)
(* and the repository implements CaptureEvidence.                          *)
(***************************************************************************)
EXTENDS CaptureRepository, FiniteSetTheorems, TLAPS

FinalizeSteps == {"intent", "pin", "stop", "wait", "inventory", "metadata", "snapshot", "select"}
LiveFacts == [base : 1..MaxBases, token : 1..MaxTokens, records : 0..MaxWrites]

Finalizes == [kind : {"finalize"}, step : FinalizeSteps, id : Captures, facts : LiveFacts,
              promise : Facts \cup {None}]
Retires == [kind : {"retire"}, id : Captures, step : {"journal", "unlink", "flush"}, next : 1..4]
Prunes == [kind : {"prune"}, expired : SUBSET (1..MaxBases), below : SUBSET (0..MaxSegment)]

SourceTyped ==
  /\ head \in 0..MaxSegment /\ token \in 0..MaxTokens
  /\ writes \subseteq 0..(head - 1)
  /\ IsFiniteSet(writes) /\ Cardinality(writes) \in 0..MaxWrites

ArchiveTyped ==
  /\ DOMAIN bases \subseteq 1..MaxBases
  /\ \A b \in DOMAIN bases : bases[b] \in [start : Nat, stop : Nat]
  /\ received \in 0..head /\ DOMAIN wal \subseteq 0..(received - 1)
  /\ \A s \in DOMAIN wal : wal[s] \in {0, 1}

LocalTyped ==
  /\ DOMAIN carriers = Kinds
  /\ \A k \in Kinds : DOMAIN carriers[k] \subseteq Captures
  /\ \A id \in Pinned : carriers["pin"][id] \in Facts
  /\ \A p \in pending : /\ p[1] \in Kinds /\ p[2] \in DOMAIN journal
                        /\ p[1] = "pin" => p[3] \in Facts
  /\ selected \in Captures \cup {None}
  /\ DOMAIN journal \subseteq Captures

OpTyped ==
  /\ op \in {Idle} \cup Finalizes \cup Retires \cup Prunes
  /\ op.kind = "finalize" /\ op.step = "pin" => op.promise \in Facts
  /\ op.kind = "retire" /\ op.step # "journal" => op.id \in DOMAIN journal

TypeInv == SourceTyped /\ ArchiveTyped /\ LocalTyped /\ OpTyped

\* The captures that recovery may still rely on.
Live == Pinned \ DOMAIN journal

RecordsIn(written, lsn) == Cardinality({s \in written : s < lsn})

\* What a pin froze: an existing base, a target after it that the primary has
\* left behind, and the records written before that target.
FactsSound(promise) ==
  /\ promise.base \in DOMAIN bases
  /\ bases[promise.base].stop < promise.target /\ promise.target < head
  /\ promise.records = RecordsIn(writes, promise.target)

InventorySound(id) ==
  LET needed == Needed(carriers["pin"][id])
      inventory == carriers["inventory"][id]
  IN  /\ inventory \in [needed -> {0, 1}]
      /\ needed \subseteq DOMAIN wal
      /\ \A s \in needed : inventory[s] = 1 => wal[s] = 1

\* Every carrier of a live capture says what its pin says.
LiveSafe ==
  \A id \in Live :
    /\ FactsSound(carriers["pin"][id])
    /\ \A k \in {"metadata", "snapshot"} : Has(k, id) => carriers[k][id] = carriers["pin"][id]
    /\ Has("inventory", id) => InventorySound(id)

Frozen == {"stop", "wait", "inventory", "metadata", "snapshot", "select"}
Waited == {"inventory", "metadata", "snapshot", "select"}

\* What the running finalize has established at its step.
FinalizeSafe ==
  op.kind = "finalize" =>
    /\ op.id \notin DOMAIN journal
    /\ op.facts.token = token /\ op.facts.records = Cardinality(writes)
    /\ op.facts.base \in DOMAIN bases
    /\ op.step = "pin" => FactsSound(op.promise)
    /\ op.step \in Frozen => op.id \in Pinned /\ op.promise = carriers["pin"][op.id]
    /\ op.step \in Waited => Needed(op.promise) \subseteq DOMAIN wal
    /\ op.step \in Waited \ {"inventory"} => Has("inventory", op.id)
    /\ op.step \in {"snapshot", "select"} => Has("metadata", op.id)
    /\ op.step = "select" => Has("snapshot", op.id)

\* The carriers in the order before the one being removed are gone for good.
RetireSafe ==
  op.kind = "retire" =>
    /\ op.id # selected
    /\ op.step = "journal" => op.id \in Live /\ op.next = 1
    /\ op.step = "flush" => ~Has(Order[op.next], op.id)
    /\ \A i \in 1..(op.next - 1) :
          ~Has(Order[i], op.id) /\ \A p \in pending : p[2] = op.id => p[1] # Order[i]

\* The running prune takes neither a pinned base nor WAL that a base it keeps needs.
PruneSafe ==
  op.kind = "prune" =>
    /\ op.expired \cap Protected = {}
    /\ \A s \in op.below, b \in DOMAIN bases \ op.expired : s < bases[b].start

\* No carrier outlives its pin, whatever a power loss brings back.
PinLast ==
  /\ \A k \in Kinds, id \in Captures : Has(k, id) => Has("pin", id)
  /\ \A p \in pending : p[2] \in Pinned \/ p[1] = "pin"

WalKept == \A b \in DOMAIN bases : bases[b].start..(received - 1) \subseteq DOMAIN wal

SelectedSafe ==
  selected # None =>
    selected \in Live /\ \A k \in Kinds : Has(k, selected)

SafetyInv == /\ LiveSafe /\ FinalizeSafe /\ RetireSafe /\ PruneSafe
             /\ PinLast /\ WalKept /\ SelectedSafe

-----------------------------------------------------------------------------
(* The operators.                                                           *)

\* The four kinds of carrier in the order of their removal (recovery_repository.rs).
LEMMA KindsKnown ==
  /\ Kinds = {"metadata", "inventory", "snapshot", "pin"}
  /\ Order[1] = "metadata" /\ Order[2] = "inventory" /\ Order[3] = "snapshot" /\ Order[4] = "pin"
  /\ Len(Order) = 4
  BY DEF Kinds, Order

\* Publishing an immutable carrier leaves it with the content, whether it was
\* there or not, and no other carrier changes (recovery_capture.rs).
LEMMA ImmutableCarrier ==
  ASSUME DOMAIN carriers = Kinds, NEW kind \in Kinds, NEW id, NEW content,
         Immutable(kind, id, content)
  PROVE  /\ DOMAIN carriers' = Kinds /\ pending' \subseteq pending
         /\ \A k \in Kinds \ {kind} : carriers'[k] = carriers[k]
         /\ DOMAIN carriers'[kind] = DOMAIN carriers[kind] \cup {id}
         /\ carriers'[kind][id] = content
         /\ \A other \in DOMAIN carriers[kind] \ {id} :
               carriers'[kind][other] = carriers[kind][other]
         /\ Has(kind, id) => carriers[kind][id] = content
  <1>1. CASE Has(kind, id)
    BY <1>1 DEF Immutable, Has
  <1>2. CASE ~Has(kind, id)
    BY <1>2 DEF Immutable, Publish, Put, Has
  <1> QED BY <1>1, <1>2

\* Unlinking removes one carrier and nothing else.
LEMMA UnlinkCarrier ==
  ASSUME DOMAIN carriers = Kinds, NEW kind \in Kinds, NEW id,
         carriers' = [carriers EXCEPT ![kind] = Without(@, id)]
  PROVE  /\ DOMAIN carriers' = Kinds
         /\ \A k \in Kinds \ {kind} : carriers'[k] = carriers[k]
         /\ DOMAIN carriers'[kind] = DOMAIN carriers[kind] \ {id}
         /\ \A other \in DOMAIN carriers[kind] \ {id} :
               carriers'[kind][other] = carriers[kind][other]
  BY DEF Without

\* A power loss brings back carriers whose removal was pending, and changes
\* none that is there.
LEMMA PowerLossCarriers ==
  ASSUME DOMAIN carriers = Kinds, PowerLoss
  PROVE  /\ DOMAIN carriers' = Kinds
         /\ \A k \in Kinds :
              /\ DOMAIN carriers[k] \subseteq DOMAIN carriers'[k]
              /\ \A id \in DOMAIN carriers[k] : carriers'[k][id] = carriers[k][id]
              /\ \A id \in DOMAIN carriers'[k] \ DOMAIN carriers[k] :
                    \E p \in pending : p[1] = k /\ p[2] = id /\ p[3] = carriers'[k][id]
  <1>1. PICK undone \in SUBSET pending :
          carriers' = [k \in Kinds |->
            [id \in DOMAIN carriers[k] \cup {p[2] : p \in {q \in undone : q[1] = k}} |->
               IF Has(k, id) THEN carriers[k][id]
               ELSE (CHOOSE p \in undone : p[1] = k /\ p[2] = id)[3]]]
    BY Zenon DEF PowerLoss
  <1>2. ASSUME NEW k \in Kinds
        PROVE  /\ DOMAIN carriers[k] \subseteq DOMAIN carriers'[k]
               /\ \A id \in DOMAIN carriers[k] : carriers'[k][id] = carriers[k][id]
               /\ \A id \in DOMAIN carriers'[k] \ DOMAIN carriers[k] :
                     \E p \in pending : p[1] = k /\ p[2] = id /\ p[3] = carriers'[k][id]
    <2>1. carriers'[k] = [id
            \in DOMAIN carriers[k] \cup {p[2] : p \in {q \in undone : q[1] = k}} |->
               IF Has(k, id) THEN carriers[k][id]
               ELSE (CHOOSE p \in undone : p[1] = k /\ p[2] = id)[3]]
      BY <1>1, <1>2
    <2>2. ASSUME NEW id \in DOMAIN carriers'[k] \ DOMAIN carriers[k]
          PROVE  \E p \in pending : p[1] = k /\ p[2] = id /\ p[3] = carriers'[k][id]
      <3>1. \E p \in undone : p[1] = k /\ p[2] = id
        BY <2>1, <2>2
      <3>2. carriers'[k][id] = (CHOOSE p \in undone : p[1] = k /\ p[2] = id)[3]
        BY <2>1, <2>2 DEF Has
      <3> DEFINE q == CHOOSE p \in undone : p[1] = k /\ p[2] = id
      <3>3. q \in undone /\ q[1] = k /\ q[2] = id
        BY <3>1
      <3> QED BY <3>2, <3>3
    <2> QED BY <2>1, <2>2 DEF Has
  <1> QED BY <1>1, <1>2

-----------------------------------------------------------------------------
(* Type correctness.                                                        *)

\* A repository starts without a base, a capture or a running program.
LEMMA InitTyped == Init => TypeInv
  <1> SUFFICES ASSUME Init PROVE TypeInv
    OBVIOUS
  <1>1. SourceTyped
    BY CaptureAssumption, FS_EmptySet DEF Init, SourceTyped
  <1>2. ArchiveTyped
    BY DEF Init, ArchiveTyped
  <1>3. LocalTyped
    BY KindsKnown DEF Init, LocalTyped, Pinned
  <1>4. OpTyped
    BY DEF Init, OpTyped, Idle
  <1> QED BY <1>1, <1>2, <1>3, <1>4 DEF TypeInv

\* What a finalize step writes into its own memory.
LEMMA ProceedTyped ==
  ASSUME TypeInv, NEW step \in FinalizeSteps \ {"pin"}, op.kind = "finalize", Proceed(step),
         UNCHANGED journal
  PROVE  OpTyped'
  BY DEF TypeInv, OpTyped, Proceed, Finalizes, Retires, Prunes, Idle, FinalizeSteps

\* Every step of the programs, the source and the host keeps the types.
LEMMA NextTyped == TypeInv /\ [Next]_vars => TypeInv'
  <1> SUFFICES ASSUME TypeInv, [Next]_vars PROVE TypeInv'
    OBVIOUS
  <1> USE DEF TypeInv
  <1>0. ASSUME UNCHANGED source PROVE SourceTyped'
    BY <1>0 DEF source, SourceTyped
  <1>a. ASSUME UNCHANGED <<source, bases, archive>> PROVE ArchiveTyped'
    BY <1>a DEF source, archive, ArchiveTyped
  <1>b. ASSUME UNCHANGED local PROVE LocalTyped'
    BY <1>b DEF local, LocalTyped, Pinned
  <1>c. ASSUME UNCHANGED <<op, local>> PROVE OpTyped'
    BY <1>c DEF OpTyped, local
  <1>d. ASSUME op' = Idle PROVE OpTyped'
    BY <1>d DEF OpTyped, Idle
  <1>1. CASE OpenFence
    <2>1. SourceTyped'
      BY <1>1, CaptureAssumption DEF OpenFence, SourceTyped
    <2>2. ArchiveTyped'
      BY <1>1 DEF OpenFence, archive, ArchiveTyped
    <2> QED BY <1>1, <2>1, <2>2, <1>b, <1>c DEF OpenFence
  <1>2. CASE CloseFence
    <2>1. SourceTyped'
      BY <1>2, CaptureAssumption DEF CloseFence, SourceTyped
    <2>2. ArchiveTyped'
      BY <1>2 DEF CloseFence, archive, ArchiveTyped
    <2> QED BY <1>2, <2>1, <2>2, <1>b, <1>c DEF CloseFence
  <1>3. CASE Write
    <2>1. Cardinality(writes \cup {head}) \in 0..MaxWrites /\ IsFiniteSet(writes \cup {head})
      BY <1>3, FS_AddElement, CaptureAssumption DEF Write, SourceTyped
    <2>2. SourceTyped'
      BY <1>3, <2>1, CaptureAssumption DEF Write, SourceTyped
    <2>3. ArchiveTyped'
      BY <1>3 DEF Write, archive, ArchiveTyped, SourceTyped
    <2> QED BY <1>3, <2>2, <2>3, <1>b, <1>c DEF Write
  <1>4. CASE Receive
    <2>1. ArchiveTyped'
      BY <1>4 DEF Receive, source, Put, ArchiveTyped, SourceTyped
    <2> QED BY <1>4, <2>1, <1>0, <1>b, <1>c DEF Receive
  <1>5. CASE Damage
    <2>1. ArchiveTyped'
      BY <1>5 DEF Damage, source, Put, ArchiveTyped
    <2> QED BY <1>5, <2>1, <1>0, <1>b, <1>c DEF Damage
  <1>6. CASE TakeBase
    <2>1. SourceTyped'
      BY <1>6, CaptureAssumption DEF TakeBase, SourceTyped
    <2>2. ArchiveTyped'
      BY <1>6 DEF TakeBase, archive, Put, ArchiveTyped, SourceTyped
    <2> QED BY <1>6, <2>1, <2>2, <1>b, <1>c DEF TakeBase
  <1>7. CASE BeginFinalize
    <2>1. OpTyped'
      BY <1>7, CaptureAssumption
         DEF BeginFinalize, OpTyped, Finalizes, FinalizeSteps, LiveFacts, SourceTyped, ArchiveTyped
    <2> QED BY <1>7, <2>1, <1>0, <1>a, <1>b DEF BeginFinalize
  <1>8. CASE RetryIntent
    <2>1. OpTyped'
      BY <1>8
         DEF RetryIntent, Finalizing, OpTyped, Finalizes, Retires, Prunes, Idle, FinalizeSteps,
             LocalTyped
    <2> QED BY <1>8, <2>1, <1>0, <1>a, <1>b DEF RetryIntent
  <1>9. CASE SwitchWal
    <2>1. SourceTyped'
      BY <1>9, CaptureAssumption DEF SwitchWal, SourceTyped
    <2>2. ArchiveTyped'
      BY <1>9 DEF SwitchWal, archive, ArchiveTyped, SourceTyped
    <2>3. op \in Finalizes
      BY <1>9 DEF SwitchWal, Finalizing, OpTyped, Retires, Prunes, Idle
    <2>4. PromiseOf(op.facts, head) \in Facts
      BY <2>3 DEF PromiseOf, Facts, Finalizes, LiveFacts, SourceTyped
    <2>5. OpTyped'
      BY <1>9, <2>3, <2>4 DEF SwitchWal, OpTyped, Finalizes, FinalizeSteps
    <2> QED BY <1>9, <2>1, <2>2, <2>5, <1>b DEF SwitchWal
  <1>10. CASE PublishPin
    <2>1. op \in Finalizes /\ op.promise \in Facts /\ "pin" \in Kinds
      BY <1>10, KindsKnown DEF PublishPin, Finalizing, OpTyped, Retires, Prunes, Idle
    <2>2. LocalTyped'
      BY <1>10, <2>1, ImmutableCarrier DEF PublishPin, LocalTyped, Pinned, Finalizes
    <2>3. OpTyped'
      BY <1>10, ProceedTyped DEF PublishPin, Finalizing, FinalizeSteps
    <2> QED BY <1>10, <2>2, <2>3, <1>0, <1>a DEF PublishPin
  <1>11. CASE CompleteStop
    <2>1. SourceTyped'
      BY <1>11, CaptureAssumption DEF CompleteStop, SourceTyped
    <2>2. ArchiveTyped'
      BY <1>11 DEF CompleteStop, archive, ArchiveTyped, SourceTyped
    <2>3. OpTyped'
      BY <1>11, ProceedTyped DEF CompleteStop, Finalizing, FinalizeSteps, local
    <2> QED BY <1>11, <2>1, <2>2, <2>3, <1>b DEF CompleteStop
  <1>12. CASE WaitWal
    <2>1. OpTyped'
      BY <1>12, ProceedTyped DEF WaitWal, Finalizing, FinalizeSteps, local
    <2> QED BY <1>12, <2>1, <1>0, <1>a, <1>b DEF WaitWal
  <1>13. CASE FreezeInventory
    <2>1. op \in Finalizes /\ {"pin", "inventory"} \subseteq Kinds
      BY <1>13, KindsKnown DEF FreezeInventory, Finalizing, OpTyped, Retires, Prunes, Idle
    <2>2. LocalTyped'
      BY <1>13, <2>1, ImmutableCarrier DEF FreezeInventory, LocalTyped, Pinned, Finalizes
    <2>3. OpTyped'
      BY <1>13, ProceedTyped DEF FreezeInventory, Finalizing, FinalizeSteps
    <2> QED BY <1>13, <2>2, <2>3, <1>0, <1>a DEF FreezeInventory
  <1>14. CASE PublishMetadata
    <2>1. op \in Finalizes /\ {"pin", "metadata"} \subseteq Kinds
      BY <1>14, KindsKnown DEF PublishMetadata, Finalizing, OpTyped, Retires, Prunes, Idle
    <2>2. LocalTyped'
      BY <1>14, <2>1, ImmutableCarrier DEF PublishMetadata, LocalTyped, Pinned, Finalizes
    <2>3. OpTyped'
      BY <1>14, ProceedTyped DEF PublishMetadata, Finalizing, FinalizeSteps
    <2> QED BY <1>14, <2>2, <2>3, <1>0, <1>a DEF PublishMetadata
  <1>15. CASE PublishSnapshot
    <2>1. op \in Finalizes /\ {"pin", "snapshot"} \subseteq Kinds
      BY <1>15, KindsKnown DEF PublishSnapshot, Finalizing, OpTyped, Retires, Prunes, Idle
    <2>2. LocalTyped'
      BY <1>15, <2>1, ImmutableCarrier DEF PublishSnapshot, LocalTyped, Pinned, Finalizes
    <2>3. OpTyped'
      BY <1>15, ProceedTyped DEF PublishSnapshot, Finalizing, FinalizeSteps
    <2> QED BY <1>15, <2>2, <2>3, <1>0, <1>a DEF PublishSnapshot
  <1>16. CASE SelectCapture
    <2>1. op \in Finalizes
      BY <1>16 DEF SelectCapture, Finalizing, OpTyped, Retires, Prunes, Idle
    <2>2. LocalTyped'
      BY <1>16, <2>1 DEF SelectCapture, LocalTyped, Pinned, Finalizes
    <2> QED BY <1>16, <2>2, <1>0, <1>a, <1>d DEF SelectCapture
  <1>17. CASE BeginRetire
    <2>1. OpTyped'
      BY <1>17, KindsKnown DEF BeginRetire, OpTyped, Retires, LocalTyped, Pinned
    <2> QED BY <1>17, <2>1, <1>0, <1>a, <1>b DEF BeginRetire
  <1>18. CASE WriteJournal
    <2>1. op \in Retires
      BY <1>18 DEF WriteJournal, OpTyped, Finalizes, Prunes, Idle
    <2>2. DOMAIN journal' = DOMAIN journal \cup {op.id}
      BY <1>18 DEF WriteJournal, Put
    <2>3. LocalTyped'
      BY <1>18, <2>1, <2>2 DEF WriteJournal, LocalTyped, Pinned, Retires
    <2>4. OpTyped'
      BY <1>18, <2>1, <2>2 DEF WriteJournal, Proceed, OpTyped, Retires
    <2> QED BY <1>18, <2>3, <2>4, <1>0, <1>a DEF WriteJournal
  <1>19. CASE ResumeRetire
    <2>1. OpTyped'
      BY <1>19 DEF ResumeRetire, OpTyped, Retires, LocalTyped, local
    <2> QED BY <1>19, <2>1, <1>0, <1>a, <1>b DEF ResumeRetire
  <1>20. CASE Unlink
    <2>1. op \in Retires /\ op.id \in DOMAIN journal /\ Order[op.next] \in Kinds
      BY <1>20, KindsKnown DEF Unlink, OpTyped, Finalizes, Retires, Prunes, Idle
    <2>2. carriers' = [carriers EXCEPT ![Order[op.next]] = Without(@, op.id)]
      BY <1>20 DEF Unlink
    <2>3. \A q \in pending' : q \in pending \/ (/\ q[1] = Order[op.next] /\ q[2] = op.id
                                                /\ q[3] = carriers[Order[op.next]][op.id])
      BY <1>20 DEF Unlink
    <2> DEFINE kind == Order[op.next]
    <2>8. /\ DOMAIN carriers' = Kinds
          /\ \A k \in Kinds \ {kind} : carriers'[k] = carriers[k]
          /\ DOMAIN carriers'[kind] = DOMAIN carriers[kind] \ {op.id}
          /\ \A other \in DOMAIN carriers[kind] \ {op.id} :
                carriers'[kind][other] = carriers[kind][other]
      BY <2>1, <2>2, UnlinkCarrier DEF LocalTyped
    <2> HIDE DEF kind
    <2>4. /\ DOMAIN carriers' = Kinds
          /\ \A k \in Kinds : DOMAIN carriers'[k] \subseteq DOMAIN carriers[k]
          /\ \A id \in Pinned' : id \in Pinned /\ carriers'["pin"][id] = carriers["pin"][id]
      BY <2>8, KindsKnown DEF Pinned
    <2>5. \A p \in pending' : /\ p[1] \in Kinds /\ p[2] \in DOMAIN journal'
                              /\ p[1] = "pin" => p[3] \in Facts
      BY <1>20, <2>1, <2>3 DEF Unlink, LocalTyped, Pinned, Has
    <2>9. UNCHANGED <<selected, journal>>
      BY <1>20 DEF Unlink
    <2>6. LocalTyped'
      BY <2>4, <2>5, <2>9 DEF LocalTyped
    <2>7. OpTyped'
      BY <1>20, <2>1 DEF Unlink, Proceed, OpTyped, Retires
    <2> QED BY <1>20, <2>6, <2>7, <1>0, <1>a DEF Unlink
  <1>21. CASE Unlinked
    <2>1. OpTyped'
      BY <1>21 DEF Unlinked, Proceed, OpTyped, Finalizes, Retires, Prunes, Idle, local
    <2> QED BY <1>21, <2>1, <1>0, <1>a, <1>b DEF Unlinked
  <1>22. CASE Flush
    <2>1. LocalTyped'
      BY <1>22 DEF Flush, LocalTyped, Pinned
    <2>2. op \in Retires /\ op.id \in DOMAIN journal
      BY <1>22 DEF Flush, OpTyped, Finalizes, Prunes, Idle
    <2>3. CASE op.next = 4
      BY <1>22, <2>1, <2>3, KindsKnown, <1>0, <1>a, <1>d DEF Flush
    <2>4. CASE op.next # 4
      <3>1. op' = [op EXCEPT !.next = @ + 1, !.step = "unlink"] /\ op.next + 1 \in 1..4
        BY <1>22, <2>2, <2>4, KindsKnown DEF Flush, Retires
      <3>2. op' \in Retires /\ op'.id = op.id
        BY <2>2, <3>1 DEF Retires
      <3>3. OpTyped'
        BY <1>22, <2>2, <3>2 DEF Flush, OpTyped, Retires
      <3> QED BY <1>22, <2>1, <3>3, <1>0, <1>a DEF Flush
    <2> QED BY <2>3, <2>4
  <1>23. CASE PlanPrune
    <2>1. OpTyped'
      BY <1>23 DEF PlanPrune, OpTyped, Prunes, ArchiveTyped
    <2> QED BY <1>23, <2>1, <1>0, <1>a, <1>b DEF PlanPrune
  <1>24. CASE PruneBase
    <2>1. ArchiveTyped'
      BY <1>24 DEF PruneBase, source, archive, Without, ArchiveTyped
    <2>2. OpTyped'
      BY <1>24 DEF PruneBase, OpTyped, Finalizes, Retires, Prunes, Idle
    <2> QED BY <1>24, <2>1, <2>2, <1>0, <1>b DEF PruneBase
  <1>25. CASE PruneSegment
    <2>1. ArchiveTyped'
      BY <1>25 DEF PruneSegment, source, Without, ArchiveTyped
    <2> QED BY <1>25, <2>1, <1>0, <1>b, <1>c DEF PruneSegment
  <1>26. CASE EndOp
    BY <1>26, <1>0, <1>a, <1>b, <1>d DEF EndOp
  <1>27. CASE PowerLoss
    <2>1. \A k \in Kinds : DOMAIN carriers'[k] \subseteq Captures
      BY <1>27, PowerLossCarriers DEF LocalTyped
    <2>2. \A id \in Pinned' : carriers'["pin"][id] \in Facts
      BY <1>27, PowerLossCarriers, KindsKnown DEF LocalTyped, Pinned
    <2>3. LocalTyped'
      BY <1>27, <2>1, <2>2, PowerLossCarriers DEF PowerLoss, LocalTyped
    <2> QED BY <1>27, <2>3, <1>0, <1>a, <1>d DEF PowerLoss
  <1>28. CASE UNCHANGED vars
    BY <1>28, <1>0, <1>a, <1>b, <1>c DEF vars
  <1> QED
    BY <1>1, <1>2, <1>3, <1>4, <1>5, <1>6, <1>7, <1>8, <1>9, <1>10, <1>11, <1>12, <1>13, <1>14,
       <1>15, <1>16, <1>17, <1>18, <1>19, <1>20, <1>21, <1>22, <1>23, <1>24, <1>25, <1>26, <1>27,
       <1>28 DEF Next

\* Type correctness, of every carrier and of the memory of the running program.
THEOREM TypeCorrect == Spec => []TypeInv
  BY InitTyped, NextTyped, PTL DEF Spec

-----------------------------------------------------------------------------
(* Safety.  What no step does, then each part of the invariant.             *)

\* The source only moves on, and what it wrote before an LSN it has left
\* behind stays as it was: a promise about that LSN never changes.
LEMMA SourceMonotone ==
  ASSUME TypeInv, [Next]_vars
  PROVE  /\ head <= head' /\ received <= received'
         /\ \A lsn \in 0..MaxSegment : lsn < head
              => RecordsIn(writes', lsn) = RecordsIn(writes, lsn)
  <1>1. /\ head <= head' /\ received <= received'
        /\ writes' = writes \/ (writes' = writes \cup {head})
    BY DEF TypeInv, SourceTyped, ArchiveTyped, Next, vars, source, archive, OpenFence, CloseFence,
           Write, Receive, Damage, TakeBase, BeginFinalize, RetryIntent, SwitchWal, PublishPin,
           CompleteStop, WaitWal, FreezeInventory, PublishMetadata, PublishSnapshot, SelectCapture,
           BeginRetire, WriteJournal, ResumeRetire, Unlink, Unlinked, Flush, PlanPrune, PruneBase,
           PruneSegment, EndOp, PowerLoss
  <1>2. ASSUME NEW lsn \in 0..MaxSegment, lsn < head
        PROVE  {s \in writes' : s < lsn} = {s \in writes : s < lsn}
    BY <1>1, <1>2 DEF TypeInv, SourceTyped
  <1> QED BY <1>1, <1>2 DEF RecordsIn

\* A base keeps its bounds.  Only a prune removes one, and none that a pin
\* protects (backup.rs, backup/pins.rs).
LEMMA BasesKept ==
  ASSUME TypeInv, SafetyInv, [Next]_vars
  PROVE  /\ \A b \in DOMAIN bases \cap DOMAIN bases' : bases'[b] = bases[b]
         /\ \A b \in DOMAIN bases' \ DOMAIN bases : bases'[b] = [start |-> head, stop |-> head]
         /\ \A b \in DOMAIN bases \ DOMAIN bases' : op.kind = "prune" /\ b \notin Protected
  <1>1. CASE TakeBase
    BY <1>1 DEF TakeBase, Put
  <1>2. CASE PruneBase
    BY <1>2 DEF PruneBase, Without, SafetyInv, PruneSafe
  <1>3. CASE UNCHANGED bases
    BY <1>3
  <1> QED
    BY <1>1, <1>2, <1>3
       DEF Next, vars, OpenFence, CloseFence, Write, Receive, Damage, BeginFinalize, RetryIntent,
           SwitchWal, PublishPin, CompleteStop, WaitWal, FreezeInventory, PublishMetadata,
           PublishSnapshot, SelectCapture, BeginRetire, WriteJournal, ResumeRetire, Unlink,
           Unlinked, Flush, PlanPrune, PruneSegment, EndOp, PowerLoss

\* A received segment that a remaining base needs stays in the archive, and
\* bytes that were altered stay altered.
LEMMA ArchiveKept ==
  ASSUME TypeInv, SafetyInv, [Next]_vars
  PROVE  /\ \A s \in DOMAIN wal \cap DOMAIN wal' : wal[s] = 1 => wal'[s] = 1
         /\ \A b \in DOMAIN bases \cap DOMAIN bases', s \in DOMAIN wal :
               bases[b].start <= s => s \in DOMAIN wal'
         /\ received..(received' - 1) \subseteq DOMAIN wal'
  <1>1. CASE Receive
    BY <1>1 DEF Receive, Put, TypeInv, ArchiveTyped, SourceTyped
  <1>2. CASE Damage
    BY <1>2 DEF Damage, Put, TypeInv, ArchiveTyped, SourceTyped
  <1>3. CASE PruneSegment
    <2>1. PICK s \in DOMAIN wal \cap op.below : wal' = Without(wal, s)
      BY <1>3 DEF PruneSegment
    <2>2. \A b \in DOMAIN bases : s < bases[b].start
      BY <1>3, <2>1 DEF PruneSegment, SafetyInv, PruneSafe
    <2>3. /\ received' = received /\ s \in Int
          /\ \A b \in DOMAIN bases : bases[b].start \in Nat
      BY <1>3, <2>1 DEF PruneSegment, TypeInv, ArchiveTyped, SourceTyped
    <2> QED BY <2>1, <2>2, <2>3 DEF Without, TypeInv, ArchiveTyped, SourceTyped
  <1>4. CASE UNCHANGED archive
    BY <1>4 DEF archive, TypeInv, ArchiveTyped, SourceTyped
  <1> QED
    BY <1>1, <1>2, <1>3, <1>4
       DEF Next, vars, OpenFence, CloseFence, Write, TakeBase, BeginFinalize, RetryIntent,
           SwitchWal, PublishPin, CompleteStop, WaitWal, FreezeInventory, PublishMetadata,
           PublishSnapshot, SelectCapture, BeginRetire, WriteJournal, ResumeRetire, Unlink,
           Unlinked, Flush, PlanPrune, PruneBase, EndOp, PowerLoss

\* A publication puts what was promised; nothing but a retirement whose journal
\* is written takes a carrier away, and nothing but a power loss, of such a
\* retirement, brings one back.
LEMMA CarriersKept ==
  ASSUME TypeInv, SafetyInv, [Next]_vars
  PROVE  /\ DOMAIN journal \subseteq DOMAIN journal'
         /\ \A k \in Kinds :
              /\ \A id \in DOMAIN carriers[k] \ DOMAIN journal : id \in DOMAIN carriers'[k]
              /\ \A id \in DOMAIN carriers[k] \cap DOMAIN carriers'[k] :
                    carriers'[k][id] = carriers[k][id]
              /\ \A id \in DOMAIN carriers'[k] \ DOMAIN carriers[k] :
                    \/ id \in DOMAIN journal
                    \/ /\ op.kind = "finalize" /\ op.id = id /\ op.step = k
                       /\ UNCHANGED <<source, bases, archive, journal>>
                       /\ carriers'[k][id] = IF k = "inventory" THEN RetainedWal(op.promise)
                                             ELSE op.promise
  <1> USE DEF TypeInv, LocalTyped
  <1>1. CASE PublishPin
    BY <1>1, KindsKnown, ImmutableCarrier DEF PublishPin, Finalizing, Has
  <1>2. CASE FreezeInventory
    BY <1>2, KindsKnown, ImmutableCarrier DEF FreezeInventory, Finalizing, Has
  <1>3. CASE PublishMetadata
    BY <1>3, KindsKnown, ImmutableCarrier DEF PublishMetadata, Finalizing, Has
  <1>4. CASE PublishSnapshot
    BY <1>4, KindsKnown, ImmutableCarrier DEF PublishSnapshot, Finalizing, Has
  <1>5. CASE Unlink
    <2>1. op.id \in DOMAIN journal /\ Order[op.next] \in Kinds
      BY <1>5, KindsKnown DEF Unlink, OpTyped, Finalizes, Retires, Prunes, Idle
    <2>2. carriers' = [carriers EXCEPT ![Order[op.next]] = Without(@, op.id)] /\ UNCHANGED journal
      BY <1>5 DEF Unlink
    <2> DEFINE kind == Order[op.next]
    <2>3. /\ \A k \in Kinds \ {kind} : carriers'[k] = carriers[k]
          /\ DOMAIN carriers'[kind] = DOMAIN carriers[kind] \ {op.id}
          /\ \A other \in DOMAIN carriers[kind] \ {op.id} :
                carriers'[kind][other] = carriers[kind][other]
      BY <2>1, <2>2, UnlinkCarrier
    <2> HIDE DEF kind
    <2> QED BY <2>1, <2>2, <2>3
  <1>6. CASE PowerLoss
    <2>1. \A k \in Kinds :
            /\ DOMAIN carriers[k] \subseteq DOMAIN carriers'[k]
            /\ \A id \in DOMAIN carriers[k] : carriers'[k][id] = carriers[k][id]
            /\ \A id \in DOMAIN carriers'[k] \ DOMAIN carriers[k] : id \in DOMAIN journal
      BY <1>6, PowerLossCarriers
    <2>2. UNCHANGED journal
      BY <1>6 DEF PowerLoss
    <2> QED BY <2>1, <2>2
  <1>7. CASE UNCHANGED carriers
    <2>1. DOMAIN journal \subseteq DOMAIN journal'
      BY <1>7
         DEF Next, vars, local, Put, OpenFence, CloseFence, Write, Receive, Damage, TakeBase,
             BeginFinalize, RetryIntent, SwitchWal, PublishPin, CompleteStop, WaitWal,
             FreezeInventory, PublishMetadata, PublishSnapshot, SelectCapture, BeginRetire,
             WriteJournal, ResumeRetire, Unlink, Unlinked, Flush, PlanPrune, PruneBase,
             PruneSegment, EndOp, PowerLoss
    <2> QED BY <1>7, <2>1
  <1> QED
    BY <1>1, <1>2, <1>3, <1>4, <1>5, <1>6, <1>7
       DEF Next, vars, local, OpenFence, CloseFence, Write, Receive, Damage, TakeBase,
           BeginFinalize, RetryIntent, SwitchWal, CompleteStop, WaitWal, SelectCapture,
           BeginRetire, WriteJournal, ResumeRetire, Unlinked, Flush, PlanPrune, PruneBase,
           PruneSegment, EndOp

\* What a capture promised goes on holding, and what it publishes next says
\* the same (recovery_capture.rs finalize, through every retry and kill).
LEMMA LiveNext ==
  ASSUME TypeInv, SafetyInv, [Next]_vars
  PROVE  LiveSafe'
  <1>1. TypeInv'
    BY NextTyped
  <1> SUFFICES ASSUME NEW id \in Live'
               PROVE  /\ FactsSound(carriers["pin"][id])'
                      /\ \A k \in {"metadata", "snapshot"} :
                            Has(k, id)' => carriers'[k][id] = carriers'["pin"][id]
                      /\ Has("inventory", id)' => InventorySound(id)'
    BY DEF LiveSafe
  <1>2. /\ id \in DOMAIN carriers'["pin"] /\ id \notin DOMAIN journal
        /\ {"pin", "metadata", "snapshot", "inventory"} \subseteq Kinds
        /\ {"pin", "metadata", "snapshot", "inventory"} \subseteq FinalizeSteps
    BY KindsKnown, CarriersKept DEF Live, Pinned, FinalizeSteps
  <1>3. CASE id \in Pinned
    <2> DEFINE pin == carriers["pin"][id]
    <2>1. carriers'["pin"][id] = pin /\ pin \in Facts
      BY <1>2, <1>3, CarriersKept DEF Pinned, TypeInv, LocalTyped
    <2>2. id \in Live /\ pin.base \in Protected /\ FactsSound(pin)
      BY <1>2, <1>3, <2>1 DEF Live, Protected, SafetyInv, LiveSafe
    <2>3. pin.base \in DOMAIN bases \cap DOMAIN bases' /\ bases'[pin.base] = bases[pin.base]
      BY <2>2, BasesKept DEF FactsSound
    <2>4. pin.target \in 0..MaxSegment /\ pin.target < head
      BY <2>1, <2>2 DEF Facts, FactsSound
    <2>5. FactsSound(carriers["pin"][id])'
      BY <2>1, <2>2, <2>3, <2>4, SourceMonotone, <1>1 DEF FactsSound, TypeInv, SourceTyped
    <2>6. \A k \in {"metadata", "snapshot", "inventory"} :
            Has(k, id)' /\ ~Has(k, id) =>
              /\ op.kind = "finalize" /\ op.id = id /\ op.step = k /\ op.promise = pin
              /\ UNCHANGED <<source, bases, archive>>
              /\ carriers'[k][id] = IF k = "inventory" THEN RetainedWal(pin) ELSE pin
      BY <1>2, CarriersKept DEF Has, SafetyInv, FinalizeSafe, Frozen
    <2>7. ASSUME NEW k \in {"metadata", "snapshot"}, Has(k, id)'
          PROVE  carriers'[k][id] = carriers'["pin"][id]
      <3>1. CASE Has(k, id)
        BY <1>2, <2>1, <2>2, <2>7, <3>1, CarriersKept DEF Has, SafetyInv, LiveSafe
      <3>2. CASE ~Has(k, id)
        BY <2>1, <2>6, <2>7, <3>2
      <3> QED BY <3>1, <3>2
    <2> DEFINE needed == bases[pin.base].start..(pin.target + 1)
    <2>8. ASSUME Has("inventory", id)'
          PROVE  InventorySound(id)'
      <3>1. Needed(carriers["pin"][id])' = needed /\ Needed(pin) = needed
        BY <2>1, <2>3 DEF Needed
      <3>2. CASE Has("inventory", id)
        <4>1. /\ carriers["inventory"][id] \in [needed -> {0, 1}] /\ needed \subseteq DOMAIN wal
              /\ \A s \in needed : carriers["inventory"][id][s] = 1 => wal[s] = 1
          BY <2>2, <3>1, <3>2 DEF SafetyInv, LiveSafe, InventorySound
        <4>2. carriers'["inventory"][id] = carriers["inventory"][id]
          BY <1>2, <2>8, <3>2, CarriersKept DEF Has
        <4>3. needed \subseteq DOMAIN wal'
          BY <2>3, <4>1, ArchiveKept DEF TypeInv, ArchiveTyped
        <4> QED BY <3>1, <4>1, <4>2, <4>3, ArchiveKept DEF InventorySound
      <3>3. CASE ~Has("inventory", id)
        <4>1. /\ op.kind = "finalize" /\ op.step = "inventory" /\ op.promise = pin
              /\ UNCHANGED <<source, bases, archive>>
              /\ carriers'["inventory"][id] = RetainedWal(pin)
          BY <2>6, <2>8, <3>3
        <4>2. needed \subseteq DOMAIN wal /\ wal' = wal
          BY <3>1, <4>1 DEF SafetyInv, FinalizeSafe, Waited, archive
        <4>3. carriers'["inventory"][id] = [s \in needed |-> wal[s]]
          BY <3>1, <4>1, <4>2 DEF RetainedWal
        <4>4. carriers'["inventory"][id] \in [needed -> {0, 1}]
          BY <4>2, <4>3 DEF TypeInv, ArchiveTyped
        <4> QED BY <3>1, <4>2, <4>3, <4>4 DEF InventorySound
      <3> QED BY <3>2, <3>3
    <2> QED BY <2>5, <2>7, <2>8
  <1>4. CASE id \notin Pinned
    <2>1. /\ op.kind = "finalize" /\ op.id = id /\ op.step = "pin"
          /\ UNCHANGED <<source, bases, archive>> /\ carriers'["pin"][id] = op.promise
      BY <1>2, <1>4, CarriersKept DEF Pinned
    <2>2. FactsSound(op.promise) /\ id \in Captures
      BY <2>1, <1>1, <1>2 DEF SafetyInv, FinalizeSafe, TypeInv, LocalTyped
    <2>3. FactsSound(carriers["pin"][id])'
      BY <2>1, <2>2 DEF FactsSound, source, archive
    <2>4. ASSUME NEW k \in {"metadata", "snapshot", "inventory"} PROVE ~Has(k, id)'
      <3>1. ~Has(k, id)
        BY <1>2, <1>4, <2>2 DEF SafetyInv, PinLast, Has, Pinned
      <3> QED BY <1>2, <2>1, <3>1, CarriersKept DEF Has
    <2> QED BY <2>3, <2>4
  <1> QED BY <1>3, <1>4

\* What a base needs of the archive is kept from the base on (backup.rs prune).
LEMMA WalNext ==
  ASSUME TypeInv, SafetyInv, [Next]_vars
  PROVE  WalKept'
  <1> SUFFICES ASSUME NEW b \in DOMAIN bases', NEW s \in bases'[b].start..(received' - 1)
               PROVE  s \in DOMAIN wal'
    BY DEF WalKept
  <1>1. CASE s >= received
    BY <1>1, ArchiveKept DEF TypeInv, ArchiveTyped
  <1>2. CASE s < received /\ b \in DOMAIN bases
    <2>1. bases'[b] = bases[b] /\ bases[b].start \in Nat
      BY <1>2, BasesKept DEF TypeInv, ArchiveTyped
    <2>2. s \in DOMAIN wal
      BY <1>2, <2>1 DEF SafetyInv, WalKept, TypeInv, ArchiveTyped
    <2> QED BY <1>2, <2>1, <2>2, ArchiveKept
  <1>3. CASE s < received /\ b \notin DOMAIN bases
    BY <1>3, BasesKept DEF TypeInv, ArchiveTyped, SourceTyped
  <1> QED BY <1>1, <1>2, <1>3 DEF TypeInv, ArchiveTyped, SourceTyped

\* The pin is the first carrier to come and the last to go, and a power loss
\* brings nothing back without it (recovery_repository.rs retire).
LEMMA PinNext ==
  ASSUME TypeInv, SafetyInv, [Next]_vars
  PROVE  PinLast'
  <1> USE DEF TypeInv, LocalTyped, SafetyInv, PinLast
  <1>1. ASSUME NEW k \in Kinds, k \in {"inventory", "metadata", "snapshot", "pin"},
               Finalizing(k), NEW content, Immutable(k, op.id, content), UNCHANGED journal
        PROVE  PinLast'
    <2>1. op.id \in Captures /\ (k = "pin" \/ op.id \in Pinned)
      BY <1>1 DEF Finalizing, OpTyped, Finalizes, Retires, Prunes, Idle, FinalizeSafe, Frozen
    <2>2. Pinned \subseteq Pinned' /\ pending' \subseteq pending
      BY <1>1, ImmutableCarrier, KindsKnown DEF Pinned
    <2>3. op.id \in Pinned'
      BY <1>1, <2>1, <2>2, ImmutableCarrier DEF Pinned
    <2>4. \A other \in Kinds : DOMAIN carriers'[other] \subseteq DOMAIN carriers[other] \cup {op.id}
      BY <1>1, ImmutableCarrier
    <2> QED BY <2>2, <2>3, <2>4 DEF Has, Pinned
  <1>2. CASE PublishPin
    BY <1>1, <1>2, KindsKnown DEF PublishPin, Finalizing
  <1>3. CASE FreezeInventory
    BY <1>1, <1>3, KindsKnown DEF FreezeInventory, Finalizing
  <1>4. CASE PublishMetadata
    BY <1>1, <1>4, KindsKnown DEF PublishMetadata, Finalizing
  <1>5. CASE PublishSnapshot
    BY <1>1, <1>5, KindsKnown DEF PublishSnapshot, Finalizing
  <1>6. CASE Unlink
    <2> DEFINE kind == Order[op.next]
    <2>1. /\ op \in Retires /\ op.next \in 1..4 /\ op.id \in DOMAIN journal
          /\ Order[op.next] \in Kinds /\ op.id \in Captures
      BY <1>6, KindsKnown DEF Unlink, OpTyped, Finalizes, Retires, Prunes, Idle
    <2>2. carriers' = [carriers EXCEPT ![Order[op.next]] = Without(@, op.id)]
      BY <1>6 DEF Unlink
    <2>3. pending' = pending \cup {<<kind, op.id, carriers[kind][op.id]>>}
            /\ op.id \in DOMAIN carriers[kind]
      BY <1>6 DEF Unlink, Has
    <2>4. /\ \A k \in Kinds \ {kind} : carriers'[k] = carriers[k]
          /\ DOMAIN carriers'[kind] = DOMAIN carriers[kind] \ {op.id}
      BY <2>1, <2>2, UnlinkCarrier
    <2>5. op.id \in Pinned
      BY <2>1, <2>3 DEF Has, Pinned
    <2> HIDE DEF kind
    <2>6. CASE kind = "pin"
      <3>1. op.next = 4
        BY <2>1, <2>6, KindsKnown DEF kind
      <3>2. /\ \A i \in 1..3 : ~Has(Order[i], op.id)
            /\ \A i \in 1..3 : \A p \in pending : p[2] = op.id => p[1] # Order[i]
        BY <1>6, <3>1 DEF RetireSafe, Unlink
      <3>3. /\ \A k \in Kinds \ {"pin"} : ~Has(k, op.id)
            /\ \A p \in pending : p[2] = op.id => p[1] = "pin"
        BY <3>2, KindsKnown
      <3> QED BY <2>3, <2>4, <2>6, <3>3 DEF Has, Pinned
    <2>7. CASE kind # "pin"
      <3>1. Pinned' = Pinned
        BY <2>4, <2>7, KindsKnown DEF Pinned
      <3> QED BY <2>1, <2>3, <2>4, <2>5, <3>1 DEF Has, Pinned
    <2> QED BY <2>6, <2>7
  <1>7. CASE PowerLoss
    <2>1. pending' = {}
      BY <1>7 DEF PowerLoss
    <2>2. /\ Pinned \subseteq Pinned'
          /\ \A k \in Kinds : \A id \in DOMAIN carriers'[k] \ DOMAIN carriers[k] :
                id \in Pinned \/ k = "pin"
      BY <1>7, PowerLossCarriers, KindsKnown DEF Pinned
    <2> QED BY <2>1, <2>2 DEF Has, Pinned
  <1>8. CASE UNCHANGED carriers /\ pending' \subseteq pending
    BY <1>8 DEF Has, Pinned
  <1> QED
    BY <1>2, <1>3, <1>4, <1>5, <1>6, <1>7, <1>8
       DEF Next, vars, local, OpenFence, CloseFence, Write, Receive, Damage, TakeBase,
           BeginFinalize, RetryIntent, SwitchWal, CompleteStop, WaitWal, SelectCapture,
           BeginRetire, WriteJournal, ResumeRetire, Unlinked, Flush, PlanPrune, PruneBase,
           PruneSegment, EndOp

\* SELECTED names a complete capture: it is written last, and retirement
\* refuses the capture it names (recovery_repository.rs).
LEMMA SelectedNext ==
  ASSUME TypeInv, SafetyInv, [Next]_vars
  PROVE  SelectedSafe'
  <1> USE DEF TypeInv, LocalTyped, SafetyInv, SelectedSafe
  <1>1. CASE SelectCapture
    <2>1. op.id \notin DOMAIN journal /\ op.id \in Pinned /\ \A k \in Kinds : Has(k, op.id)
      BY <1>1, KindsKnown
         DEF SelectCapture, Finalizing, FinalizeSafe, Frozen, Waited, Has, Pinned
    <2> QED BY <1>1, <2>1 DEF SelectCapture, Live, Pinned, Has
  <1>2. CASE selected' = selected
    <2> SUFFICES ASSUME selected # None
                 PROVE  selected \in Live' /\ \A k \in Kinds : Has(k, selected)'
      BY <1>2
    <2>1. selected \in Live /\ \A k \in Kinds : Has(k, selected)
      OBVIOUS
    <2>2. \A k \in Kinds : Has(k, selected)'
      BY <1>2, <2>1, CarriersKept DEF Has, Live
    <2>3. selected \notin DOMAIN journal'
      <3>1. CASE WriteJournal
        BY <2>1, <3>1 DEF WriteJournal, Put, RetireSafe, Live
      <3>2. CASE UNCHANGED journal
        BY <2>1, <3>2 DEF Live
      <3> QED
        BY <3>1, <3>2
           DEF Next, vars, local, OpenFence, CloseFence, Write, Receive, Damage, TakeBase,
               BeginFinalize, RetryIntent, SwitchWal, PublishPin, CompleteStop, WaitWal,
               FreezeInventory, PublishMetadata, PublishSnapshot, SelectCapture, BeginRetire,
               ResumeRetire, Unlink, Unlinked, Flush, PlanPrune, PruneBase, PruneSegment, EndOp,
               PowerLoss
    <2> QED BY <1>2, <2>2, <2>3, KindsKnown DEF Live, Pinned, Has
  <1> QED
    BY <1>1, <1>2
       DEF Next, vars, local, OpenFence, CloseFence, Write, Receive, Damage, TakeBase,
           BeginFinalize, RetryIntent, SwitchWal, PublishPin, CompleteStop, WaitWal,
           FreezeInventory, PublishMetadata, PublishSnapshot, BeginRetire, WriteJournal,
           ResumeRetire, Unlink, Unlinked, Flush, PlanPrune, PruneBase, PruneSegment, EndOp,
           PowerLoss

\* Each removal of a retirement waits until the one before it is durable, also
\* where there was nothing to remove (recovery_repository.rs retire).
LEMMA RetireNext ==
  ASSUME TypeInv, SafetyInv, [Next]_vars
  PROVE  RetireSafe'
  <1> USE DEF TypeInv, LocalTyped, SafetyInv
  <1>1. CASE op' = op /\ UNCHANGED local
    BY <1>1 DEF RetireSafe, local, Live, Pinned, Has
  <1>2. CASE op'.kind # "retire"
    BY <1>2 DEF RetireSafe
  <1>4. CASE BeginRetire
    BY <1>4 DEF BeginRetire, RetireSafe, local, Live, Pinned
  <1>5. CASE ResumeRetire
    BY <1>5 DEF ResumeRetire, RetireSafe, local
  <1>6. ASSUME op.kind = "retire"
        PROVE  op \in Retires /\ op.next \in 1..4 /\ Order[op.next] \in Kinds
    BY <1>6, KindsKnown DEF OpTyped, Finalizes, Retires, Prunes, Idle
  <1>7. CASE WriteJournal
    <2>1. op.next = 1 /\ op' = [op EXCEPT !.step = "unlink"] /\ op.id # selected
      BY <1>7 DEF WriteJournal, Proceed, RetireSafe
    <2> QED BY <1>6, <1>7, <2>1 DEF WriteJournal, RetireSafe, Retires
  <1>8. CASE Unlink
    <2> DEFINE kind == Order[op.next]
    <2>1. /\ op \in Retires /\ op.next \in 1..4 /\ kind \in Kinds
          /\ op' = [op EXCEPT !.step = "flush"] /\ UNCHANGED selected
      BY <1>6, <1>8 DEF Unlink, Proceed
    <2>2. carriers' = [carriers EXCEPT ![kind] = Without(@, op.id)]
      BY <1>8 DEF Unlink
    <2>3. pending' = pending \cup {<<kind, op.id, carriers[kind][op.id]>>}
      BY <1>8 DEF Unlink
    <2>4. /\ \A k \in Kinds \ {kind} : carriers'[k] = carriers[k]
          /\ DOMAIN carriers'[kind] = DOMAIN carriers[kind] \ {op.id}
      BY <2>1, <2>2, UnlinkCarrier
    <2>5. op'.kind = "retire" /\ op'.id = op.id /\ op'.next = op.next /\ op'.step = "flush"
      BY <2>1 DEF Retires
    <2>6. \A i \in 1..(op.next - 1) : Order[i] \in Kinds \ {kind}
      BY <2>1, KindsKnown
    <2> HIDE DEF kind
    <2>7. \A i \in 1..(op.next - 1) : ~Has(Order[i], op.id)'
      BY <1>8, <2>4, <2>5, <2>6 DEF RetireSafe, Has, Unlink
    <2>8. \A i \in 1..(op.next - 1) : \A p \in pending' : p[2] = op.id => p[1] # Order[i]
      BY <1>8, <2>3, <2>6 DEF RetireSafe, Unlink
    <2>9. ~Has(Order[op.next], op.id)'
      BY <2>4, <2>5 DEF Has, kind
    <2> QED BY <1>8, <2>1, <2>5, <2>7, <2>8, <2>9 DEF RetireSafe, Unlink
  <1>9. CASE Unlinked
    <2>1. /\ op'.kind = "retire" /\ op'.id = op.id /\ op'.next = op.next /\ op'.step = "flush"
          /\ UNCHANGED local
      BY <1>6, <1>9 DEF Unlinked, Proceed, Retires
    <2> QED BY <1>9, <2>1 DEF Unlinked, RetireSafe, local, Has
  <1>10. CASE Flush
    <2>1. CASE op.next = 4
      BY <1>10, <2>1, KindsKnown DEF Flush, Idle, RetireSafe
    <2>2. CASE op.next # 4
      <3>1. op' = [op EXCEPT !.next = @ + 1, !.step = "unlink"] /\ op.next \in 1..3
        BY <1>6, <1>10, <2>2, KindsKnown DEF Flush, Retires
      <3>2. /\ op'.kind = "retire" /\ op'.id = op.id /\ op'.next = op.next + 1
            /\ op'.step = "unlink" /\ UNCHANGED <<carriers, selected>>
        BY <1>6, <1>10, <3>1 DEF Flush, Retires
      <3>3. \A p \in pending' : p \in pending /\ p[1] # Order[op.next]
        BY <1>10 DEF Flush
      <3>4. \A i \in 1..op.next : ~Has(Order[i], op.id) /\ \A p \in pending' : p[2] = op.id
              => p[1] # Order[i]
        BY <1>10, <3>1, <3>3 DEF Flush, RetireSafe
      <3> QED BY <1>10, <3>1, <3>2, <3>4 DEF RetireSafe, Flush, Has
    <2> QED BY <2>1, <2>2
  <1>12. CASE \/ OpenFence \/ CloseFence \/ Write \/ Receive \/ Damage \/ TakeBase
              \/ PruneSegment \/ UNCHANGED vars
    BY <1>1, <1>12
       DEF OpenFence, CloseFence, Write, Receive, Damage, TakeBase, PruneSegment, vars
  <1>13. CASE BeginFinalize \/ SelectCapture \/ PlanPrune \/ EndOp \/ PowerLoss
    BY <1>2, <1>13 DEF BeginFinalize, SelectCapture, PlanPrune, EndOp, PowerLoss, Idle
  <1>14. ASSUME op.kind = "finalize"
         PROVE  op \in Finalizes
    BY <1>14 DEF OpTyped, Retires, Prunes, Idle
  <1>15. CASE \/ RetryIntent \/ SwitchWal \/ PublishPin \/ CompleteStop \/ WaitWal
              \/ FreezeInventory \/ PublishMetadata \/ PublishSnapshot
    BY <1>2, <1>14, <1>15
       DEF RetryIntent, SwitchWal, PublishPin, CompleteStop, WaitWal, FreezeInventory,
           PublishMetadata, PublishSnapshot, Finalizing, Proceed, Finalizes
  <1>16. CASE PruneBase
    <2>1. op \in Prunes
      BY <1>16 DEF PruneBase, OpTyped, Finalizes, Retires, Idle
    <2> QED BY <1>2, <1>16, <2>1 DEF PruneBase, Prunes
  <1> QED
    BY <1>4, <1>5, <1>7, <1>8, <1>9, <1>10, <1>12, <1>13, <1>15, <1>16 DEF Next

\* A prune removes only what no pin protects, also after bases went
\* (backup.rs prune, backup/pins.rs).
LEMMA PruneNext ==
  ASSUME TypeInv, SafetyInv, [Next]_vars
  PROVE  PruneSafe'
  <1> USE DEF TypeInv, SafetyInv
  <1>1. CASE UNCHANGED <<op, bases, carriers>>
    BY <1>1 DEF PruneSafe, Protected, Pinned
  <1>2. CASE op'.kind # "prune"
    BY <1>2 DEF PruneSafe
  <1>3. CASE PlanPrune
    <2>1. UNCHANGED <<bases, carriers>>
      BY <1>3 DEF PlanPrune, local
    <2> QED BY <1>3, <2>1 DEF PlanPrune, PruneSafe, Protected, Pinned
  <1>4. CASE PruneBase
    <2>1. op \in Prunes
      BY <1>4 DEF PruneBase, OpTyped, Finalizes, Retires, Idle
    <2>2. PICK b \in op.expired : bases' = Without(bases, b)
            /\ op' = [op EXCEPT !.expired = @ \ {b}]
      BY <1>4 DEF PruneBase
    <2>3. /\ op'.expired = op.expired \ {b} /\ op'.below = op.below
          /\ DOMAIN bases' = DOMAIN bases \ {b}
          /\ \A c \in DOMAIN bases' : bases'[c] = bases[c]
      BY <2>1, <2>2 DEF Prunes, Without
    <2>4. Protected' = Protected
      BY <1>4 DEF PruneBase, local, Protected, Pinned
    <2> QED BY <1>4, <2>3, <2>4 DEF PruneBase, PruneSafe
  <1>5. ASSUME op.kind \in {"finalize", "retire"}
        PROVE  op \in Finalizes \cup Retires
    BY <1>5 DEF OpTyped, Prunes, Idle
  <1>6. CASE \/ OpenFence \/ CloseFence \/ Write \/ Receive \/ Damage \/ PruneSegment
             \/ UNCHANGED vars
    BY <1>1, <1>6 DEF OpenFence, CloseFence, Write, Receive, Damage, PruneSegment, local, vars
  <1>7. CASE \/ TakeBase \/ BeginFinalize \/ SelectCapture \/ BeginRetire \/ ResumeRetire
             \/ EndOp \/ PowerLoss
    BY <1>2, <1>7
       DEF TakeBase, BeginFinalize, SelectCapture, BeginRetire, ResumeRetire, EndOp, PowerLoss,
           Idle
  <1>8. CASE \/ RetryIntent \/ SwitchWal \/ PublishPin \/ CompleteStop \/ WaitWal
             \/ FreezeInventory \/ PublishMetadata \/ PublishSnapshot
    BY <1>2, <1>5, <1>8
       DEF RetryIntent, SwitchWal, PublishPin, CompleteStop, WaitWal, FreezeInventory,
           PublishMetadata, PublishSnapshot, Finalizing, Proceed, Finalizes, Retires
  <1>9. CASE WriteJournal \/ Unlink \/ Unlinked \/ Flush
    <2>1. op.kind = "retire"
      BY <1>9 DEF WriteJournal, Unlink, Unlinked, Flush
    <2>2. op \in Retires
      BY <1>5, <2>1 DEF Finalizes
    <2>3. CASE WriteJournal \/ Unlink \/ Unlinked
      BY <1>2, <2>2, <2>3 DEF WriteJournal, Unlink, Unlinked, Proceed, Retires
    <2>4. CASE Flush
      BY <1>2, <2>2, <2>4 DEF Flush, Retires, Idle
    <2> QED BY <1>9, <2>3, <2>4
  <1> QED BY <1>3, <1>4, <1>6, <1>7, <1>8, <1>9 DEF Next

\* A step of finalize relies only on what the steps before it established: the
\* fence it holds a lease on keeps the records still, its lock keeps away
\* retire and prune, and what it published stays (recovery_capture.rs).
LEMMA FinalizeNext ==
  ASSUME TypeInv, SafetyInv, [Next]_vars
  PROVE  FinalizeSafe'
  <1> USE DEF TypeInv, SafetyInv
  <1>1. CASE op'.kind # "finalize"
    BY <1>1 DEF FinalizeSafe
  <1>2. ASSUME op.kind = "finalize"
        PROVE  /\ op \in Finalizes /\ token # 0 /\ op.id \notin DOMAIN journal
               /\ op.facts.token = token /\ op.facts.records = Cardinality(writes)
               /\ op.facts.base \in DOMAIN bases
    <2>1. op \in Finalizes
      BY <1>2 DEF OpTyped, Retires, Prunes, Idle
    <2> QED BY <1>2, <2>1 DEF FinalizeSafe, Finalizes, LiveFacts
  <1>3. ASSUME op.kind = "finalize", UNCHANGED <<token, writes, bases, journal>>,
               op'.kind = "finalize", op'.id = op.id, op'.facts = op.facts,
               op'.step = "pin" => FactsSound(op.promise)',
               op'.step \in Frozen => op.id \in Pinned' /\ op'.promise = carriers'["pin"][op.id],
               op'.step \in Waited => Needed(op.promise)' \subseteq DOMAIN wal',
               op'.step \in Waited \ {"inventory"} => Has("inventory", op.id)',
               op'.step \in {"snapshot", "select"} => Has("metadata", op.id)',
               op'.step = "select" => Has("snapshot", op.id)'
        PROVE  FinalizeSafe'
    BY <1>2, <1>3 DEF FinalizeSafe, Has, Pinned
  <1>4. ASSUME op.kind = "finalize", op' = op, UNCHANGED <<head, token, writes, bases, local>>,
               \A s \in DOMAIN wal : s \in DOMAIN wal'
        PROVE  FinalizeSafe'
    <2>1. op.step = "pin" => FactsSound(op.promise)'
      BY <1>4 DEF FinalizeSafe, FactsSound
    <2>2. Needed(op.promise)' = Needed(op.promise)
      BY <1>4 DEF Needed
    <2> QED
      BY <1>3, <1>4, <2>1, <2>2 DEF FinalizeSafe, Has, Pinned, local
  <1>5. CASE OpenFence \/ CloseFence \/ Write \/ TakeBase
    BY <1>1, <1>2, <1>5 DEF OpenFence, CloseFence, Write, TakeBase, Idle
  <1>6. CASE Receive \/ Damage \/ UNCHANGED vars
    <2>1. op' = op /\ UNCHANGED <<head, token, writes, bases, local>>
      BY <1>6 DEF Receive, Damage, source, vars
    <2>2. \A s \in DOMAIN wal : s \in DOMAIN wal'
      BY <1>6 DEF Receive, Damage, Put, vars, archive
    <2> QED BY <1>1, <1>4, <2>1, <2>2
  <1>7. CASE BeginFinalize
    BY <1>7 DEF BeginFinalize, FinalizeSafe, source, local, Frozen, Waited
  <1>8. CASE RetryIntent
    <2>1. op.kind = "finalize" /\ op.id \in Pinned /\ UNCHANGED <<source, bases, archive, local>>
      BY <1>8 DEF RetryIntent, Finalizing
    <2>2. op' = [op EXCEPT !.promise = carriers["pin"][op.id], !.step = "stop"]
      BY <1>8 DEF RetryIntent
    <2>3. /\ op'.kind = "finalize" /\ op'.id = op.id /\ op'.facts = op.facts /\ op'.step = "stop"
          /\ op'.promise = carriers'["pin"][op.id] /\ op.id \in Pinned'
      BY <1>2, <2>1, <2>2 DEF Finalizes, local, Pinned
    <2> QED BY <1>3, <2>1, <2>3 DEF source, local, Waited
  <1>9. CASE SwitchWal
    <2>1. op.kind = "finalize" /\ UNCHANGED <<writes, token, bases, archive, local>>
      BY <1>9 DEF SwitchWal, Finalizing
    <2>2. op' = [op EXCEPT !.promise = PromiseOf(op.facts, head), !.step = "pin"]
      BY <1>9 DEF SwitchWal
    <2>3. /\ op'.kind = "finalize" /\ op'.id = op.id /\ op'.facts = op.facts /\ op'.step = "pin"
          /\ op'.promise = PromiseOf(op.facts, head)
      BY <1>2, <2>1, <2>2 DEF Finalizes
    <2>4. RecordsIn(writes, head) = Cardinality(writes)
      <3>1. \A s \in writes : s < head
        BY DEF SourceTyped
      <3>2. {s \in writes : s < head} = writes
        BY <3>1
      <3> QED BY <3>2 DEF RecordsIn
    <2>5. op'.promise.base = op.facts.base /\ op'.promise.target = head
            /\ op'.promise.records = Cardinality(writes)
      BY <1>2, <2>1, <2>3 DEF PromiseOf
    <2>6. op.facts.base \in DOMAIN bases' /\ bases'[op.facts.base].stop < head /\ head < head'
      BY <1>2, <1>9, <2>1 DEF SwitchWal, SourceTyped, ArchiveTyped
    <2>7. FactsSound(op.promise)'
      BY <2>1, <2>4, <2>5, <2>6 DEF FactsSound
    <2> QED BY <1>3, <2>1, <2>3, <2>7 DEF local, Frozen, Waited
  <1>10. CASE PublishPin
    <2>1. /\ op.kind = "finalize" /\ UNCHANGED <<source, bases, archive, journal>>
          /\ op' = [op EXCEPT !.step = "stop"] /\ op.step = "pin"
      BY <1>10 DEF PublishPin, Finalizing, Proceed
    <2>2. /\ op'.kind = "finalize" /\ op'.id = op.id /\ op'.facts = op.facts /\ op'.step = "stop"
          /\ op'.promise = op.promise
      BY <1>2, <2>1 DEF Finalizes
    <2>3. op.id \in Pinned' /\ carriers'["pin"][op.id] = op.promise
      BY <1>10, KindsKnown, ImmutableCarrier DEF PublishPin, LocalTyped, Pinned
    <2> QED BY <1>3, <2>1, <2>2, <2>3 DEF source, Waited
  <1>11. CASE CompleteStop
    <2>1. /\ op.kind = "finalize" /\ op.step = "stop"
          /\ UNCHANGED <<writes, token, bases, archive, local>>
          /\ op' = [op EXCEPT !.step = "wait"]
      BY <1>11 DEF CompleteStop, Finalizing, Proceed
    <2>2. /\ op'.kind = "finalize" /\ op'.id = op.id /\ op'.facts = op.facts /\ op'.step = "wait"
          /\ op'.promise = op.promise
      BY <1>2, <2>1 DEF Finalizes
    <2>3. op.id \in Pinned /\ op.promise = carriers["pin"][op.id]
      BY <2>1 DEF FinalizeSafe, Frozen
    <2> QED BY <1>3, <2>1, <2>2, <2>3 DEF local, Pinned, Waited
  <1>12. CASE WaitWal
    <2>1. /\ op.kind = "finalize" /\ op.step = "wait" /\ UNCHANGED <<source, bases, archive, local>>
          /\ op' = [op EXCEPT !.step = "inventory"] /\ Needed(op.promise) \subseteq DOMAIN wal
      BY <1>12 DEF WaitWal, Finalizing, Proceed
    <2>2. /\ op'.kind = "finalize" /\ op'.id = op.id /\ op'.facts = op.facts
          /\ op'.step = "inventory" /\ op'.promise = op.promise
      BY <1>2, <2>1 DEF Finalizes
    <2>3. op.id \in Pinned /\ op.promise = carriers["pin"][op.id]
      BY <2>1 DEF FinalizeSafe, Frozen
    <2>4. Needed(op.promise)' \subseteq DOMAIN wal'
      BY <2>1, <2>2 DEF Needed, archive
    <2> QED BY <1>3, <2>1, <2>2, <2>3, <2>4 DEF source, local, Pinned, Waited
  <1>13. ASSUME NEW k \in {"inventory", "metadata", "snapshot"}, Finalizing(k), NEW content,
                Immutable(k, op.id, content), UNCHANGED <<source, bases, archive, journal>>,
                op' = [op EXCEPT !.step = IF k = "inventory" THEN "metadata"
                                          ELSE IF k = "metadata" THEN "snapshot" ELSE "select"]
         PROVE  FinalizeSafe'
    <2>1. op.kind = "finalize" /\ op.step = k /\ op.step \in Frozen /\ op.step \in Waited
      BY <1>13 DEF Finalizing, Frozen, Waited
    <2>2. /\ op'.kind = "finalize" /\ op'.id = op.id /\ op'.facts = op.facts
          /\ op'.step = (IF k = "inventory" THEN "metadata"
                         ELSE IF k = "metadata" THEN "snapshot" ELSE "select")
          /\ op'.promise = op.promise
      BY <1>2, <1>13, <2>1 DEF Finalizes
    <2>3. /\ op.id \in Pinned /\ op.promise = carriers["pin"][op.id]
          /\ Needed(op.promise) \subseteq DOMAIN wal
      BY <2>1 DEF FinalizeSafe
    <2>4. /\ \A other \in Kinds \ {k} : carriers'[other] = carriers[other]
          /\ op.id \in DOMAIN carriers'[k]
      BY <1>13, KindsKnown, ImmutableCarrier DEF LocalTyped
    <2>5. Needed(op.promise)' \subseteq DOMAIN wal'
      BY <1>13, <2>2, <2>3 DEF Needed, archive
    <2>6. op.id \in Pinned' /\ op'.promise = carriers'["pin"][op.id]
      BY <2>2, <2>3, <2>4, KindsKnown DEF Pinned
    <2>7. /\ op.step # "inventory" => Has("inventory", op.id)
          /\ op.step = "snapshot" => Has("metadata", op.id)
      BY <2>1 DEF FinalizeSafe, Waited
    <2>8. /\ op'.step \in {"metadata", "snapshot", "select"} => Has("inventory", op.id)'
          /\ op'.step \in {"snapshot", "select"} => Has("metadata", op.id)'
          /\ op'.step = "select" => Has("snapshot", op.id)'
      BY <2>1, <2>2, <2>4, <2>7, KindsKnown DEF Has
    <2> QED BY <1>3, <1>13, <2>1, <2>2, <2>5, <2>6, <2>8 DEF source, Waited
  <1>14. CASE FreezeInventory
    BY <1>13, <1>14 DEF FreezeInventory, Finalizing, Proceed
  <1>15. CASE PublishMetadata
    BY <1>13, <1>15 DEF PublishMetadata, Finalizing, Proceed
  <1>16. CASE PublishSnapshot
    BY <1>13, <1>16 DEF PublishSnapshot, Finalizing, Proceed
  <1>17. ASSUME op.kind \in {"retire", "prune"}
         PROVE  op \in Retires \cup Prunes
    BY <1>17 DEF OpTyped, Finalizes, Idle
  <1>18. CASE SelectCapture \/ BeginRetire \/ ResumeRetire \/ PlanPrune \/ EndOp \/ PowerLoss
    BY <1>1, <1>18
       DEF SelectCapture, BeginRetire, ResumeRetire, PlanPrune, EndOp, PowerLoss, Idle
  <1>19. CASE WriteJournal \/ Unlink \/ Unlinked \/ Flush
    <2>1. op.kind = "retire"
      BY <1>19 DEF WriteJournal, Unlink, Unlinked, Flush
    <2>2. op \in Retires
      BY <1>17, <2>1 DEF Prunes
    <2>3. CASE WriteJournal \/ Unlink \/ Unlinked
      BY <1>1, <2>2, <2>3 DEF WriteJournal, Unlink, Unlinked, Proceed, Retires
    <2>4. CASE Flush
      BY <1>1, <2>2, <2>4 DEF Flush, Retires, Idle
    <2> QED BY <1>19, <2>3, <2>4
  <1>20. CASE PruneBase
    <2>1. op \in Prunes
      BY <1>17, <1>20 DEF PruneBase, Retires
    <2> QED BY <1>1, <1>20, <2>1 DEF PruneBase, Prunes
  <1>21. CASE PruneSegment
    BY <1>1, <1>21 DEF PruneSegment
  <1> QED
    BY <1>5, <1>6, <1>7, <1>8, <1>9, <1>10, <1>11, <1>12, <1>14, <1>15, <1>16, <1>18, <1>19,
       <1>20, <1>21 DEF Next

\* Nothing is captured yet.
LEMMA InitSafe == Init => SafetyInv
  BY KindsKnown
     DEF Init, SafetyInv, LiveSafe, FinalizeSafe, RetireSafe, PruneSafe, PinLast, WalKept,
         SelectedSafe, Live, Pinned, Has, Idle

\* The inductive invariant.
THEOREM SafetyInvariant == Spec => [](TypeInv /\ SafetyInv)
  <1>1. Init => TypeInv /\ SafetyInv
    BY InitTyped, InitSafe
  <1>2. TypeInv /\ SafetyInv /\ [Next]_vars => (TypeInv /\ SafetyInv)'
    BY NextTyped, LiveNext, FinalizeNext, RetireNext, PruneNext, PinNext, WalNext, SelectedNext
       DEF SafetyInv
  <1> QED BY <1>1, <1>2, PTL DEF Spec

\* Through interrupted retirements, prunes and power losses, a pin keeps its
\* base and the received WAL from that base on, and no carrier outlives it.
THEOREM EvidenceIsKept == Spec => []EvidenceKept
  <1>1. TypeInv /\ SafetyInv => EvidenceKept
    BY DEF SafetyInv, LiveSafe, Live, FactsSound, WalKept, PinLast, EvidenceKept
  <1> QED BY <1>1, SafetyInvariant, PTL

\* The selected capture is complete at every instant, and a replay to its
\* target arrives at the records its snapshot holds.
THEOREM SelectionReplays == Spec => []SelectedReplays
  <1>1. ASSUME TypeInv, SafetyInv
        PROVE  SelectedReplays
    <2> SUFFICES ASSUME selected # None PROVE SelectedReplays
      BY DEF SelectedReplays
    <2> DEFINE pin == carriers["pin"][selected]
    <2> DEFINE inventory == carriers["inventory"][selected]
    <2> DEFINE needed == Needed(pin)
    <2>1. /\ selected \in Live /\ selected \notin DOMAIN journal
          /\ Has("pin", selected) /\ Has("metadata", selected)
          /\ Has("inventory", selected) /\ Has("snapshot", selected)
      BY <1>1, KindsKnown DEF SafetyInv, SelectedSafe, Live
    <2>2. /\ carriers["metadata"][selected] = pin /\ carriers["snapshot"][selected] = pin
          /\ FactsSound(pin) /\ InventorySound(selected) /\ pin \in Facts
      BY <1>1, <2>1 DEF SafetyInv, LiveSafe, TypeInv, LocalTyped, Pinned, Has
    <2>3. bases[pin.base].stop \in Int /\ pin.target \in Int
      BY <1>1, <2>2 DEF FactsSound, TypeInv, ArchiveTyped, Facts
    <2>4. Bound(selected)
      BY <2>1, <2>2, <2>3 DEF Bound, FactsSound
    <2>5. /\ inventory \in [needed -> {0, 1}] /\ needed \subseteq DOMAIN wal
          /\ \A s \in needed : inventory[s] = 1 => wal[s] = 1
      BY <2>2 DEF InventorySound
    <2>6. pin.records = RecordsAt(pin.target)
      BY <2>2 DEF FactsSound, RecordsAt, RecordsIn
    <2>7. ASSUME \A s \in DOMAIN wal : wal[s] = 0
          PROVE  Selectable(selected)
      <3>1. \A s \in needed : inventory[s] = wal[s]
        BY <2>5, <2>7
      <3>2. inventory = [s \in needed \cap DOMAIN wal |-> wal[s]]
        BY <2>5, <3>1
      <3>3. inventory = RetainedWal(pin)
        BY <3>2 DEF RetainedWal
      <3> QED BY <2>1, <2>2, <2>4, <2>5, <3>3 DEF Selectable
    <2>8. needed = DOMAIN inventory
      BY <2>5
    <2> QED BY <2>1, <2>2, <2>4, <2>5, <2>6, <2>7, <2>8 DEF SelectedReplays
  <1> QED BY <1>1, SafetyInvariant, PTL

-----------------------------------------------------------------------------
(* The implementation of CaptureEvidence.  Publishing the pin makes the     *)
(* promise, replacing SELECTED selects, and writing the journal retires;    *)
(* no other step shows.                                                     *)

\* What Evidence takes for promise.
PromiseMap == [id \in Captures |-> IF id \in Live THEN carriers["pin"][id] ELSE None]

\* Nothing is promised, selected or retired at first.
LEMMA EvidenceInit == Init => Evidence!Init
  BY KindsKnown DEF Init, Evidence!Init, Pinned

\* A step that leaves the pins of the captures that are not retired, SELECTED
\* and the journals alone is not seen.
LEMMA EvidenceStutters ==
  ASSUME TypeInv, SafetyInv, [Next]_vars, UNCHANGED <<selected, journal>>,
         ~PublishPin
  PROVE  UNCHANGED Evidence!evidence
  <1>1. \A id \in Captures : id \in Live' <=> id \in Live
    <2>1. ASSUME NEW id \in Live PROVE id \in Live'
      BY <2>1, KindsKnown, CarriersKept DEF Live, Pinned
    <2>2. ASSUME NEW id \in Live', id \notin Live PROVE FALSE
      <3>1. op.kind = "finalize" /\ op.step = "pin"
              /\ id \in DOMAIN carriers'["pin"] \ DOMAIN carriers["pin"]
        BY <2>2, KindsKnown, CarriersKept DEF Live, Pinned
      <3>2. ~PowerLoss
        BY <2>2, <3>1, KindsKnown, PowerLossCarriers DEF Live, TypeInv, LocalTyped
      <3>3. carriers' # carriers /\ ~Unlink
        BY <3>1 DEF Unlink
      <3> QED
        BY <3>1, <3>2, <3>3
           DEF Next, vars, local, Finalizing, OpenFence, CloseFence, Write, Receive, Damage,
               TakeBase, BeginFinalize, RetryIntent, SwitchWal, CompleteStop, WaitWal,
               FreezeInventory, PublishMetadata, PublishSnapshot, SelectCapture, BeginRetire,
               WriteJournal, ResumeRetire, Unlinked, Flush, PlanPrune, PruneBase, PruneSegment,
               EndOp
    <2> QED BY <2>1, <2>2
  <1>2. \A id \in Live : carriers'["pin"][id] = carriers["pin"][id]
    BY KindsKnown, CarriersKept DEF Live, Pinned
  <1> QED BY <1>1, <1>2 DEF Live, Evidence!evidence

\* Every step of the repository is a step of CaptureEvidence or is not seen.
LEMMA EvidenceNext ==
  ASSUME TypeInv, SafetyInv, [Next]_vars
  PROVE  [Evidence!Next]_(Evidence!evidence)
  <1>1. TypeInv'
    BY NextTyped
  <1>2. CASE PublishPin
    <2>1. /\ op.kind = "finalize" /\ op.step = "pin" /\ op.id \in Captures
          /\ op.id \notin DOMAIN journal /\ op.promise \in Facts
          /\ UNCHANGED <<selected, journal>> /\ Immutable("pin", op.id, op.promise)
      BY <1>2
         DEF PublishPin, Finalizing, SafetyInv, FinalizeSafe, TypeInv, OpTyped, Finalizes, Retires,
             Prunes, Idle
    <2>2. /\ Pinned' = Pinned \cup {op.id} /\ carriers'["pin"][op.id] = op.promise
          /\ \A id \in Pinned \ {op.id} : carriers'["pin"][id] = carriers["pin"][id]
          /\ op.id \in Pinned => carriers["pin"][op.id] = op.promise
      BY <2>1, KindsKnown, ImmutableCarrier DEF Pinned, Has, TypeInv, LocalTyped
    <2>3. PromiseMap' = [PromiseMap EXCEPT ![op.id] = op.promise]
      BY <2>1, <2>2 DEF PromiseMap, Live
    <2>4. CASE op.id \in Pinned
      <3>1. PromiseMap' = PromiseMap
        BY <2>1, <2>2, <2>3, <2>4 DEF PromiseMap, Live
      <3> QED BY <2>1, <3>1 DEF PromiseMap, Live, Evidence!evidence
    <2>5. CASE op.id \notin Pinned
      <3>1. PromiseMap[op.id] = None
        BY <2>1, <2>5 DEF PromiseMap, Live
      <3>2. PICK c \in Captures : c = op.id
        BY <2>1
      <3>3. Evidence!Promise(c)
        BY <2>1, <2>3, <3>1, <3>2 DEF Evidence!Promise, PromiseMap, Live
      <3> QED BY <3>3 DEF Evidence!Next
    <2> QED BY <2>4, <2>5
  <1>3. CASE SelectCapture
    <2>1. /\ op.id \in Live /\ op.id \in Captures /\ selected' = op.id
          /\ UNCHANGED <<carriers, journal>>
      BY <1>3
         DEF SelectCapture, Finalizing, SafetyInv, FinalizeSafe, Frozen, Live, Pinned, TypeInv,
             OpTyped, Finalizes, Retires, Prunes, Idle
    <2>2. PromiseMap[op.id] \in Facts /\ PromiseMap' = PromiseMap
      BY <2>1 DEF PromiseMap, Live, Pinned, TypeInv, LocalTyped
    <2>3. Evidence!Select(op.id)
      BY <2>1, <2>2, NoneAssumption DEF Evidence!Select, PromiseMap, Live
    <2> QED BY <2>1, <2>3 DEF Evidence!Next
  <1>4. CASE WriteJournal
    <2>1. /\ op.id \in Live /\ op.id \in Captures /\ op.id # selected
          /\ UNCHANGED <<carriers, selected>>
      BY <1>4
         DEF WriteJournal, SafetyInv, RetireSafe, TypeInv, OpTyped, Finalizes, Retires, Prunes, Idle
    <2>2. DOMAIN journal' = DOMAIN journal \cup {op.id}
      BY <1>4 DEF WriteJournal, Put
    <2>3. PromiseMap[op.id] \in Facts /\ PromiseMap' = [PromiseMap EXCEPT ![op.id] = None]
      BY <2>1, <2>2 DEF PromiseMap, Live, Pinned, TypeInv, LocalTyped
    <2>4. PICK c \in Captures : c = op.id
      BY <2>1
    <2>5. Evidence!Retire(c)
      BY <2>1, <2>2, <2>3, <2>4, NoneAssumption DEF Evidence!Retire, PromiseMap, Live
    <2> QED BY <2>5 DEF Evidence!Next
  <1>5. CASE UNCHANGED <<selected, journal>> /\ ~PublishPin
    BY <1>5, EvidenceStutters
  <1> QED
    BY <1>2, <1>3, <1>4, <1>5
       DEF Next, vars, local, OpenFence, CloseFence, Write, Receive, Damage, TakeBase,
           BeginFinalize, RetryIntent, SwitchWal, CompleteStop, WaitWal, FreezeInventory,
           PublishMetadata, PublishSnapshot, BeginRetire, ResumeRetire, Unlink, Unlinked, Flush,
           PlanPrune, PruneBase, PruneSegment, EndOp, PowerLoss

\* The repository implements CaptureEvidence: an identifier stands for what its
\* pin froze, SELECTED names a capture that is not retired, and a retired
\* identifier is never promised or selected again.
THEOREM RefinesEvidence == Spec => ImplementsEvidence
  <1>1. Init => Evidence!Init
    BY EvidenceInit
  <1>2. TypeInv /\ SafetyInv /\ [Next]_vars => [Evidence!Next]_(Evidence!evidence)
    BY EvidenceNext
  <1> QED BY <1>1, <1>2, SafetyInvariant, PTL DEF Spec, Evidence!Spec, ImplementsEvidence
=============================================================================
