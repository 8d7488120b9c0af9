----------------------- MODULE PrimaryAuthorityProofs -----------------------
(***************************************************************************)
(* Theorems of PrimaryAuthority for every number of trees, saves, policies *)
(* and crashes: type correctness, that a child of an upgrade never runs    *)
(* beside a postmaster, that no acknowledged save is lost, and that the    *)
(* records find the tree they name, validated under the bound policy.      *)
(***************************************************************************)
EXTENDS PrimaryAuthority, TLAPS

ManagedSteps == UpgradeSteps \ {"idle", "adopt", "adopt_sync"}
TreeSteps == {"pg_upgrade", "validate", "seal", "ready"}
BuildSteps == {"copy", "initdb"} \cup TreeSteps
SourceSteps == {"keep_staging", "keep_staging_sync", "keep_copy", "keep_copy_sync",
                "clear_target", "clear_target_sync", "journal", "journal_sync"}
PublishSteps == {"ready_sync", "rename", "rename_sync", "previous", "previous_sync",
                 "identity", "identity_sync", "unlink"}

\* The tree of the running upgrade is known.
OwnsTree == command.pc \in TreeSteps \/ (command.pc = "initdb" /\ upgrader = "initdb")

OpTyped ==
    /\ command.pc \in ManagedSteps => command.policy \in Policies
    /\ OwnsTree => command.tree \in Trees
    /\ upgrader # "none" /\ command.pc # "idle" => command.pc = upgrader

TypeInv == AuthorityTypeOK /\ OpTyped

\* The cluster that an image of the authority directory lets a host serve.
Effective(s) == IF s.identity \in Trees THEN s.identity ELSE 0

\* Of every image a power loss may leave: its cluster holds every acknowledged
\* save, and so does the tree its ready journal is about to publish.
ImageSafe(s) ==
    /\ s.identity = Unregistered => s.journal = NoUpgrade
    /\ s.journal.phase = "building" => s.identity = 0
    /\ saves[Effective(s)] = acked
    /\ s.journal.phase = "ready" =>
          IF s.identity \in Trees THEN s.identity = s.journal.tree
                                  ELSE saves[s.journal.tree] = acked

ImagesSafe == \A s \in state.may : ImageSafe(s)
NowOnDisk == state.now \in state.may

\* Once no journal is visible, no image can move the authority to another cluster.
OneHistory ==
    Journal = NoUpgrade =>
        \A s \in state.may :
            IF Identity \in Trees THEN s.identity = Identity
                                  ELSE s.journal = NoUpgrade /\ s.identity \notin Trees

\* Who runs: the leased primary serves the registered cluster, an unguarded one
\* the source; no upgrade is under way beside either.
ServingSafe ==
    /\ Running # Unregistered =>
          /\ Journal = NoUpgrade /\ Running = Effective(state.now)
          /\ command.pc \notin ManagedSteps /\ upgrader = "none"
    /\ ~server.leased => Running \in {Unregistered, 0}

SettledBuilding == state.may = {state.now} /\ Journal.phase = "building" /\ Identity = 0

WorkerSafe == upgrader # "none" => SettledBuilding /\ Running = Unregistered

StepSafe ==
    /\ command.pc = "adopt" => Identity = Unregistered
    /\ command.pc \in SourceSteps => Identity = 0
    /\ command.pc = "journal_sync" => Journal.phase = "building"
    /\ command.pc \in BuildSteps => SettledBuilding
    /\ command.pc \in BuildSteps \ {"copy"} => copied = acked
    /\ command.pc \in {"validate", "seal", "ready"} => saves[command.tree] = acked
    /\ OwnsTree => parent.now.staging = command.tree
    /\ command.pc \in PublishSteps => Journal.phase = "ready"
    /\ command.pc \in {"identity_sync", "unlink"} => Identity = Journal.tree
    /\ command.pc = "unlink" => state.may = {state.now}
    /\ command.pc = "unlink_sync" => Identity \in Trees

SafetyInv == /\ NowOnDisk /\ ImagesSafe /\ OneHistory
             /\ ServingSafe /\ WorkerSafe /\ StepSafe

-----------------------------------------------------------------------------
(* Type correctness.                                                        *)

\* A rename, an unlink, a flush or a power loss leaves a directory of the same
\* images (durable.rs).
LEMMA DirectoryTyped ==
    ASSUME NEW Images, NEW dir \in Directory(Images), NEW image \in Images
    PROVE  /\ Settled(image) \in Directory(Images)
           /\ Changed(dir, image) \in Directory(Images)
           /\ Synced(dir) \in Directory(Images)
           /\ AfterLoss(dir) \subseteq Directory(Images)
  BY DEF Directory, Settled, Changed, Synced, AfterLoss

\* The constants that actions write are in the sets their variables range over.
LEMMA ConstantsTyped ==
    /\ 0 \in Clusters /\ NoTree \in Clusters /\ 0 \in 0..MaxSaves
    /\ Trees \subseteq Clusters
    /\ NoUpgrade \in UpgradeJournals
  BY AuthorityAssumption DEF UpgradeJournals, Clusters, Trees, NoTree

\* The authority starts unregistered, without a journal (postgres.rs).
LEMMA InitTyped == AuthorityInit => TypeInv
  <1> SUFFICES ASSUME AuthorityInit PROVE TypeInv
    OBVIOUS
  <1>1. AuthorityTypeOK
    BY AuthorityAssumption
       DEF AuthorityInit, AuthorityTypeOK, Directory, Settled, StateImages, DataImages,
           UpgradeJournals, AtRest, NoServer, UpgradeSteps, Clusters, Policies, NoTree
  <1>2. OpTyped
    BY DEF AuthorityInit, OpTyped, AtRest, ManagedSteps, OwnsTree, TreeSteps
  <1> QED BY <1>1, <1>2 DEF TypeInv

\* Every step of the program, of its children and of the host keeps the types.
LEMMA NextTyped == TypeInv /\ [AuthorityNext]_authorityVars => TypeInv'
  <1> SUFFICES ASSUME TypeInv, [AuthorityNext]_authorityVars PROVE TypeInv'
    OBVIOUS
  <1>1. CASE AdoptBegin
    <2>1. AuthorityTypeOK'
      BY <1>1, ConstantsTyped
         DEF AdoptBegin, TypeInv, AuthorityTypeOK, AtRest, UpgradeSteps, disk, records
    <2>2. OpTyped'
      BY <1>1 DEF AdoptBegin, OpTyped, OwnsTree, ManagedSteps, TreeSteps, ExclusiveHeld
    <2> QED BY <2>1, <2>2 DEF TypeInv
  <1>2. CASE AdoptWrite
    <2>1. [state.now EXCEPT !.identity = 0] \in StateImages
      BY <1>2, ConstantsTyped DEF TypeInv, AuthorityTypeOK, Directory, StateImages
    <2>2. state' \in Directory(StateImages)
      BY <1>2, <2>1, DirectoryTyped DEF AdoptWrite, SetState, TypeInv, AuthorityTypeOK
    <2>3. AuthorityTypeOK'
      BY <1>2, <2>2, ConstantsTyped
         DEF AdoptWrite, Goto, TypeInv, AuthorityTypeOK, UpgradeSteps, records
    <2>4. OpTyped'
      BY <1>2
         DEF AdoptWrite, Goto, TypeInv, AuthorityTypeOK, Jobs, OpTyped, OwnsTree,
             ManagedSteps, TreeSteps
    <2> QED BY <2>3, <2>4 DEF TypeInv
  <1>3. CASE AdoptSync
    <2>1. state' \in Directory(StateImages)
      BY <1>3 DEF AdoptSync, TypeInv, AuthorityTypeOK, Directory, Synced, Settled
    <2>2. AuthorityTypeOK'
      BY <1>3, <2>1, ConstantsTyped
         DEF AdoptSync, TypeInv, AuthorityTypeOK, AtRest, UpgradeSteps, records
    <2>3. OpTyped'
      BY <1>3 DEF AdoptSync, OpTyped, OwnsTree, ManagedSteps, TreeSteps, AtRest
    <2> QED BY <2>2, <2>3 DEF TypeInv
  <1>4. CASE UpgradeStart
    <2>1. AuthorityTypeOK'
      BY <1>4, ConstantsTyped
         DEF UpgradeStart, TypeInv, AuthorityTypeOK, UpgradeSteps, disk, records
    <2>2. OpTyped'
      BY <1>4
         DEF UpgradeStart, TypeInv, AuthorityTypeOK, OpTyped, OwnsTree, TreeSteps,
             ExclusiveHeld
    <2> QED BY <2>1, <2>2 DEF TypeInv
  <1>5. CASE \E retry \in BOOLEAN : UpgradeResume(retry)
    <2>1. Journal \in UpgradeJournals /\ Journal.tree \in Clusters
      BY ConstantsTyped
         DEF TypeInv, AuthorityTypeOK, Directory, StateImages, Journal, UpgradeJournals,
             NoUpgrade
    <2>2. saves[0] \in 0..MaxSaves
      BY ConstantsTyped DEF TypeInv, AuthorityTypeOK
    <2>3. AuthorityTypeOK'
      BY <1>5, <2>1, <2>2, ConstantsTyped
         DEF UpgradeResume, TypeInv, AuthorityTypeOK, UpgradeSteps, disk, records
    <2>4. OpTyped'
      BY <1>5
         DEF UpgradeResume, TypeInv, AuthorityTypeOK, OpTyped, OwnsTree, TreeSteps,
             ExclusiveHeld
    <2> QED BY <2>3, <2>4 DEF TypeInv
  <1>6. CASE KeepStaging
    <2>1. [parent.now EXCEPT !.kept = parent.now.staging, !.staging = NoTree] \in DataImages
      BY <1>6, ConstantsTyped DEF TypeInv, AuthorityTypeOK, Directory, DataImages
    <2>2. Changed(parent, [parent.now EXCEPT !.kept = parent.now.staging, !.staging = NoTree])
            \in Directory(DataImages)
      BY <2>1, DirectoryTyped DEF TypeInv, AuthorityTypeOK
    <2>3. parent' \in Directory(DataImages)
      BY <1>6, <2>2 DEF KeepStaging, SetData, TypeInv, AuthorityTypeOK
    <2>4. AuthorityTypeOK'
      BY <1>6, <2>3, ConstantsTyped
         DEF KeepStaging, Goto, Fail, TypeInv, AuthorityTypeOK, AtRest, UpgradeSteps,
             records
    <2>5. OpTyped'
      BY <1>6
         DEF KeepStaging, Goto, Fail, TypeInv, AuthorityTypeOK, Jobs, OpTyped, OwnsTree,
             ManagedSteps, TreeSteps, AtRest
    <2> QED BY <2>4, <2>5 DEF TypeInv
  <1>7. CASE DataSync("keep_staging_sync", "keep_copy")
    <2>2. parent' \in Directory(DataImages)
      BY <1>7 DEF DataSync, TypeInv, AuthorityTypeOK, Directory, Synced, Settled
    <2>3. AuthorityTypeOK'
      BY <1>7, <2>2, ConstantsTyped
         DEF DataSync, Goto, TypeInv, AuthorityTypeOK, UpgradeSteps, records
    <2>4. OpTyped'
      BY <1>7
         DEF DataSync, Goto, TypeInv, AuthorityTypeOK, Jobs, OpTyped, OwnsTree,
             ManagedSteps, TreeSteps
    <2> QED BY <2>3, <2>4 DEF TypeInv
  <1>8. CASE KeepCopy
    <2>1. [parent.now EXCEPT !.copyKept = TRUE, !.copy = FALSE] \in DataImages
      BY <1>8, ConstantsTyped DEF TypeInv, AuthorityTypeOK, Directory, DataImages
    <2>2. Changed(parent, [parent.now EXCEPT !.copyKept = TRUE, !.copy = FALSE])
            \in Directory(DataImages)
      BY <2>1, DirectoryTyped DEF TypeInv, AuthorityTypeOK
    <2>3. parent' \in Directory(DataImages)
      BY <1>8, <2>2 DEF KeepCopy, SetData, TypeInv, AuthorityTypeOK
    <2>4. AuthorityTypeOK'
      BY <1>8, <2>3, ConstantsTyped
         DEF KeepCopy, Goto, Fail, TypeInv, AuthorityTypeOK, AtRest, UpgradeSteps, records
    <2>5. OpTyped'
      BY <1>8
         DEF KeepCopy, Goto, Fail, TypeInv, AuthorityTypeOK, Jobs, OpTyped, OwnsTree,
             ManagedSteps, TreeSteps, AtRest
    <2> QED BY <2>4, <2>5 DEF TypeInv
  <1>9. CASE DataSync("keep_copy_sync", "clear_target")
    <2>2. parent' \in Directory(DataImages)
      BY <1>9 DEF DataSync, TypeInv, AuthorityTypeOK, Directory, Synced, Settled
    <2>3. AuthorityTypeOK'
      BY <1>9, <2>2, ConstantsTyped
         DEF DataSync, Goto, TypeInv, AuthorityTypeOK, UpgradeSteps, records
    <2>4. OpTyped'
      BY <1>9
         DEF DataSync, Goto, TypeInv, AuthorityTypeOK, Jobs, OpTyped, OwnsTree,
             ManagedSteps, TreeSteps
    <2> QED BY <2>3, <2>4 DEF TypeInv
  <1>10. CASE ClearTarget
    <2>1. [parent.now EXCEPT !.target = NoTree] \in DataImages
      BY <1>10, ConstantsTyped DEF TypeInv, AuthorityTypeOK, Directory, DataImages
    <2>2. Changed(parent, [parent.now EXCEPT !.target = NoTree]) \in Directory(DataImages)
      BY <2>1, DirectoryTyped DEF TypeInv, AuthorityTypeOK
    <2>3. parent' \in Directory(DataImages)
      BY <1>10, <2>2 DEF ClearTarget, SetData, TypeInv, AuthorityTypeOK
    <2>4. AuthorityTypeOK'
      BY <1>10, <2>3, ConstantsTyped
         DEF ClearTarget, Goto, Fail, TypeInv, AuthorityTypeOK, AtRest, UpgradeSteps,
             records
    <2>5. OpTyped'
      BY <1>10
         DEF ClearTarget, Goto, Fail, TypeInv, AuthorityTypeOK, Jobs, OpTyped, OwnsTree,
             ManagedSteps, TreeSteps, AtRest
    <2> QED BY <2>4, <2>5 DEF TypeInv
  <1>11. CASE DataSync("clear_target_sync", "clear_target")
    <2>2. parent' \in Directory(DataImages)
      BY <1>11 DEF DataSync, TypeInv, AuthorityTypeOK, Directory, Synced, Settled
    <2>3. AuthorityTypeOK'
      BY <1>11, <2>2, ConstantsTyped
         DEF DataSync, Goto, TypeInv, AuthorityTypeOK, UpgradeSteps, records
    <2>4. OpTyped'
      BY <1>11
         DEF DataSync, Goto, TypeInv, AuthorityTypeOK, Jobs, OpTyped, OwnsTree,
             ManagedSteps, TreeSteps
    <2> QED BY <2>3, <2>4 DEF TypeInv
  <1>12. CASE JournalBuilding
    <2>1. [state.now EXCEPT !.journal =
            [phase |-> "building", policy |-> command.policy, digest |-> command.digest, tree |-> NoTree]]
          \in StateImages
      BY <1>12, ConstantsTyped
         DEF JournalBuilding, TypeInv, AuthorityTypeOK, Directory, StateImages, OpTyped,
             ManagedSteps, UpgradeJournals
    <2>2. state' \in Directory(StateImages)
      BY <1>12, <2>1, DirectoryTyped DEF JournalBuilding, SetState, TypeInv,
                                         AuthorityTypeOK
    <2>3. AuthorityTypeOK'
      BY <1>12, <2>2, ConstantsTyped
         DEF JournalBuilding, Goto, TypeInv, AuthorityTypeOK, UpgradeSteps, records
    <2>4. OpTyped'
      BY <1>12
         DEF JournalBuilding, Goto, TypeInv, AuthorityTypeOK, Jobs, OpTyped, OwnsTree,
             ManagedSteps, TreeSteps
    <2> QED BY <2>3, <2>4 DEF TypeInv
  <1>13. CASE StateSync("journal_sync", "copy")
    <2>2. state' \in Directory(StateImages)
      BY <1>13 DEF StateSync, TypeInv, AuthorityTypeOK, Directory, Synced, Settled
    <2>3. AuthorityTypeOK'
      BY <1>13, <2>2, ConstantsTyped
         DEF StateSync, Goto, TypeInv, AuthorityTypeOK, UpgradeSteps, records
    <2>4. OpTyped'
      BY <1>13
         DEF StateSync, Goto, TypeInv, AuthorityTypeOK, Jobs, OpTyped, OwnsTree,
             ManagedSteps, TreeSteps
    <2> QED BY <2>3, <2>4 DEF TypeInv
  <1>14. CASE SpawnCopy
    <2>1. [parent.now EXCEPT !.copy = TRUE] \in DataImages
      BY DEF TypeInv, AuthorityTypeOK, Directory, DataImages
    <2>2. parent' \in Directory(DataImages)
      BY <1>14, <2>1, DirectoryTyped DEF SpawnCopy, SetData, TypeInv, AuthorityTypeOK
    <2>3. AuthorityTypeOK'
      BY <1>14, <2>2 DEF SpawnCopy, TypeInv, AuthorityTypeOK, Jobs, records
    <2>4. OpTyped'
      BY <1>14 DEF SpawnCopy, TypeInv, OpTyped, OwnsTree
    <2> QED BY <2>3, <2>4 DEF TypeInv
  <1>15. CASE SpawnInitdb
    <2>1. PICK n \in Trees :
            /\ SetData([parent.now EXCEPT !.staging = n])
            /\ stage' = [stage EXCEPT ![n] = "partial"]
            /\ madeUnder' = [madeUnder EXCEPT ![n] = 0]
            /\ synced' = synced \ {n}
            /\ command' = [command EXCEPT !.tree = n]
      BY <1>15 DEF SpawnInitdb
    <2>2. [parent.now EXCEPT !.staging = n] \in DataImages
      BY ConstantsTyped DEF TypeInv, AuthorityTypeOK, Directory, DataImages
    <2>3. parent' \in Directory(DataImages)
      BY <2>1, <2>2, DirectoryTyped DEF SetData, TypeInv, AuthorityTypeOK
    <2>4. AuthorityTypeOK'
      BY <1>15, <2>1, <2>3, ConstantsTyped
         DEF SpawnInitdb, TypeInv, AuthorityTypeOK, Jobs, records
    <2>5. OpTyped'
      BY <1>15, <2>1 DEF SpawnInitdb, TypeInv, OpTyped
    <2> QED BY <2>4, <2>5 DEF TypeInv
  <1>16. CASE SpawnOther
    <2>1. AuthorityTypeOK'
      BY <1>16, ConstantsTyped DEF SpawnOther, TypeInv, AuthorityTypeOK, disk, records,
                                   Jobs
    <2>2. OpTyped'
      BY <1>16 DEF SpawnOther, TypeInv, OpTyped, OwnsTree
    <2> QED BY <2>1, <2>2 DEF TypeInv
  <1>17. CASE Seal
    <2>1. CASE command' = AtRest /\ UNCHANGED <<synced, parent>>
      BY <1>17, <2>1, ConstantsTyped
         DEF Seal, TypeInv, AuthorityTypeOK, OpTyped, OwnsTree, ManagedSteps, TreeSteps,
             AtRest, UpgradeSteps, records
    <2>2. CASE /\ Goto("ready") /\ synced' = synced \cup {command.tree}
               /\ parent' = IF FsyncCommitsName THEN Synced(parent) ELSE parent
      <3>1. parent' \in Directory(DataImages)
        BY <2>2 DEF TypeInv, AuthorityTypeOK, Directory, Synced, Settled
      <3>2. AuthorityTypeOK'
        BY <1>17, <2>2, <3>1
           DEF Seal, Goto, TypeInv, AuthorityTypeOK, OpTyped, OwnsTree, TreeSteps,
               UpgradeSteps, records
      <3>3. OpTyped'
        BY <1>17, <2>2
           DEF Seal, Goto, TypeInv, AuthorityTypeOK, Jobs, OpTyped, OwnsTree,
               ManagedSteps, TreeSteps
      <3> QED BY <3>2, <3>3 DEF TypeInv
    <2> QED BY <1>17, <2>1, <2>2 DEF Seal, Fail
  <1>18. CASE JournalReady
    <2>1. [state.now EXCEPT !.journal =
            [phase |-> "ready", policy |-> command.policy, digest |-> command.digest, tree |-> command.tree]]
          \in StateImages
      BY <1>18, ConstantsTyped
         DEF JournalReady, TypeInv, AuthorityTypeOK, Directory, StateImages, OpTyped,
             ManagedSteps, OwnsTree, TreeSteps, UpgradeJournals
    <2>2. state' \in Directory(StateImages)
      BY <1>18, <2>1, DirectoryTyped DEF JournalReady, SetState, TypeInv, AuthorityTypeOK
    <2>3. AuthorityTypeOK'
      BY <1>18, <2>2, ConstantsTyped
         DEF JournalReady, Goto, TypeInv, AuthorityTypeOK, UpgradeSteps, records
    <2>4. OpTyped'
      BY <1>18
         DEF JournalReady, Goto, TypeInv, AuthorityTypeOK, Jobs, OpTyped, OwnsTree,
             ManagedSteps, TreeSteps
    <2> QED BY <2>3, <2>4 DEF TypeInv
  <1>19. CASE StateSync("ready_sync", "rename")
    <2>2. state' \in Directory(StateImages)
      BY <1>19 DEF StateSync, TypeInv, AuthorityTypeOK, Directory, Synced, Settled
    <2>3. AuthorityTypeOK'
      BY <1>19, <2>2, ConstantsTyped
         DEF StateSync, Goto, TypeInv, AuthorityTypeOK, UpgradeSteps, records
    <2>4. OpTyped'
      BY <1>19
         DEF StateSync, Goto, TypeInv, AuthorityTypeOK, Jobs, OpTyped, OwnsTree,
             ManagedSteps, TreeSteps
    <2> QED BY <2>3, <2>4 DEF TypeInv
  <1>20. CASE PublishRename
    <2>1. [parent.now EXCEPT !.target = Candidate, !.staging = NoTree] \in DataImages
      BY <1>20, ConstantsTyped
         DEF TypeInv, AuthorityTypeOK, Directory, DataImages, Candidate
    <2>2. Changed(parent, [parent.now EXCEPT !.target = Candidate, !.staging = NoTree])
            \in Directory(DataImages)
      BY <2>1, DirectoryTyped DEF TypeInv, AuthorityTypeOK
    <2>3. parent' \in Directory(DataImages)
      BY <1>20, <2>2 DEF PublishRename, SetData, TypeInv, AuthorityTypeOK
    <2>4. AuthorityTypeOK'
      BY <1>20, <2>3, ConstantsTyped
         DEF PublishRename, Goto, Fail, TypeInv, AuthorityTypeOK, AtRest, UpgradeSteps,
             records
    <2>5. OpTyped'
      BY <1>20
         DEF PublishRename, Goto, Fail, TypeInv, AuthorityTypeOK, Jobs, OpTyped,
             OwnsTree, ManagedSteps, TreeSteps, AtRest
    <2> QED BY <2>4, <2>5 DEF TypeInv
  <1>21. CASE DataSync("rename_sync", "previous")
    <2>2. parent' \in Directory(DataImages)
      BY <1>21 DEF DataSync, TypeInv, AuthorityTypeOK, Directory, Synced, Settled
    <2>3. AuthorityTypeOK'
      BY <1>21, <2>2, ConstantsTyped
         DEF DataSync, Goto, TypeInv, AuthorityTypeOK, UpgradeSteps, records
    <2>4. OpTyped'
      BY <1>21
         DEF DataSync, Goto, TypeInv, AuthorityTypeOK, Jobs, OpTyped, OwnsTree,
             ManagedSteps, TreeSteps
    <2> QED BY <2>3, <2>4 DEF TypeInv
  <1>22. CASE PublishPrevious
    <2>1. [state.now EXCEPT !.previous = TRUE] \in StateImages
      BY <1>22, ConstantsTyped DEF TypeInv, AuthorityTypeOK, Directory, StateImages
    <2>2. state' \in Directory(StateImages)
      BY <1>22, <2>1, DirectoryTyped DEF PublishPrevious, SetState, TypeInv,
                                         AuthorityTypeOK
    <2>3. AuthorityTypeOK'
      BY <1>22, <2>2, ConstantsTyped
         DEF PublishPrevious, Goto, TypeInv, AuthorityTypeOK, UpgradeSteps, records
    <2>4. OpTyped'
      BY <1>22
         DEF PublishPrevious, Goto, TypeInv, AuthorityTypeOK, Jobs, OpTyped, OwnsTree,
             ManagedSteps, TreeSteps
    <2> QED BY <2>3, <2>4 DEF TypeInv
  <1>23. CASE StateSync("previous_sync", "identity")
    <2>2. state' \in Directory(StateImages)
      BY <1>23 DEF StateSync, TypeInv, AuthorityTypeOK, Directory, Synced, Settled
    <2>3. AuthorityTypeOK'
      BY <1>23, <2>2, ConstantsTyped
         DEF StateSync, Goto, TypeInv, AuthorityTypeOK, UpgradeSteps, records
    <2>4. OpTyped'
      BY <1>23
         DEF StateSync, Goto, TypeInv, AuthorityTypeOK, Jobs, OpTyped, OwnsTree,
             ManagedSteps, TreeSteps
    <2> QED BY <2>3, <2>4 DEF TypeInv
  <1>24. CASE PublishIdentity
    <2>1. [state.now EXCEPT !.identity = Journal.tree] \in StateImages
      BY <1>24, ConstantsTyped
         DEF TypeInv, AuthorityTypeOK, Directory, StateImages, Journal, UpgradeJournals,
             NoUpgrade
    <2>2. state' \in Directory(StateImages)
      BY <1>24, <2>1, DirectoryTyped DEF PublishIdentity, SetState, TypeInv,
                                         AuthorityTypeOK
    <2>3. AuthorityTypeOK'
      BY <1>24, <2>2, ConstantsTyped
         DEF PublishIdentity, Goto, TypeInv, AuthorityTypeOK, UpgradeSteps, records
    <2>4. OpTyped'
      BY <1>24
         DEF PublishIdentity, Goto, TypeInv, AuthorityTypeOK, Jobs, OpTyped, OwnsTree,
             ManagedSteps, TreeSteps
    <2> QED BY <2>3, <2>4 DEF TypeInv
  <1>25. CASE StateSync("identity_sync", "unlink")
    <2>2. state' \in Directory(StateImages)
      BY <1>25 DEF StateSync, TypeInv, AuthorityTypeOK, Directory, Synced, Settled
    <2>3. AuthorityTypeOK'
      BY <1>25, <2>2, ConstantsTyped
         DEF StateSync, Goto, TypeInv, AuthorityTypeOK, UpgradeSteps, records
    <2>4. OpTyped'
      BY <1>25
         DEF StateSync, Goto, TypeInv, AuthorityTypeOK, Jobs, OpTyped, OwnsTree,
             ManagedSteps, TreeSteps
    <2> QED BY <2>3, <2>4 DEF TypeInv
  <1>26. CASE PublishUnlink
    <2>1. [state.now EXCEPT !.journal = NoUpgrade] \in StateImages
      BY <1>26, ConstantsTyped DEF TypeInv, AuthorityTypeOK, Directory, StateImages
    <2>2. state' \in Directory(StateImages)
      BY <1>26, <2>1, DirectoryTyped DEF PublishUnlink, SetState, TypeInv, AuthorityTypeOK
    <2>3. AuthorityTypeOK'
      BY <1>26, <2>2, ConstantsTyped
         DEF PublishUnlink, Goto, TypeInv, AuthorityTypeOK, UpgradeSteps, records
    <2>4. OpTyped'
      BY <1>26
         DEF PublishUnlink, Goto, TypeInv, AuthorityTypeOK, Jobs, OpTyped, OwnsTree,
             ManagedSteps, TreeSteps
    <2> QED BY <2>3, <2>4 DEF TypeInv
  <1>27. CASE StateSync("unlink_sync", "idle")
    <2>2. state' \in Directory(StateImages)
      BY <1>27 DEF StateSync, TypeInv, AuthorityTypeOK, Directory, Synced, Settled
    <2>3. AuthorityTypeOK'
      BY <1>27, <2>2, ConstantsTyped
         DEF StateSync, TypeInv, AuthorityTypeOK, AtRest, UpgradeSteps, records
    <2>4. OpTyped'
      BY <1>27 DEF StateSync, OpTyped, OwnsTree, ManagedSteps, TreeSteps, AtRest
    <2> QED BY <2>3, <2>4 DEF TypeInv
  <1>28. CASE WorkerDone
    <2>1. stage' \in [Trees -> {"partial", "upgraded", "valid"}]
      BY <1>28 DEF WorkerDone, TypeInv, AuthorityTypeOK
    <2>2. madeUnder' \in [Trees -> Policies \cup {0}]
      BY <1>28 DEF WorkerDone, TypeInv, AuthorityTypeOK
    <2>3. saves' \in [Clusters -> 0..MaxSaves] /\ copied' \in 0..MaxSaves
      BY <1>28, ConstantsTyped DEF WorkerDone, TypeInv, AuthorityTypeOK
    <2>4. CASE command.pc = "idle"
      BY <1>28, <2>1, <2>2, <2>3, <2>4
         DEF WorkerDone, TypeInv, AuthorityTypeOK, OpTyped, OwnsTree
    <2>5. CASE command.pc # "idle"
      <3>1. /\ upgrader \in Jobs /\ command.pc = upgrader
            /\ command' = [command EXCEPT !.pc = NextJob[upgrader]]
            /\ NextJob[upgrader] \in TreeSteps \cup {"initdb"}
        BY <1>28, <2>5
           DEF WorkerDone, Goto, TypeInv, AuthorityTypeOK, OpTyped, Jobs, NextJob,
               TreeSteps
      <3>2. AuthorityTypeOK'
        BY <1>28, <2>1, <2>2, <2>3, <3>1
           DEF WorkerDone, TypeInv, AuthorityTypeOK, TreeSteps, UpgradeSteps
      <3>3. OpTyped'
        BY <1>28, <2>5, <3>1
           DEF WorkerDone, NextJob, TypeInv, Jobs, OpTyped, OwnsTree, ManagedSteps,
               TreeSteps, UpgradeSteps
      <3> QED BY <3>2, <3>3 DEF TypeInv
    <2> QED BY <2>4, <2>5
  <1>29. CASE WorkerFail
    <2>1. AuthorityTypeOK'
      BY <1>29, ConstantsTyped
         DEF WorkerFail, Fail, TypeInv, AuthorityTypeOK, AtRest, UpgradeSteps, disk,
             records
    <2>2. OpTyped'
      BY <1>29 DEF WorkerFail, Fail, OpTyped, OwnsTree, ManagedSteps, TreeSteps, AtRest
    <2> QED BY <2>1, <2>2 DEF TypeInv
  <1>30. CASE Serve
    <2>1. Identity \in Clusters
      BY <1>30 DEF Serve, TypeInv, AuthorityTypeOK, Directory, StateImages, Identity
    <2>2. AuthorityTypeOK'
      BY <1>30, <2>1 DEF Serve, TypeInv, AuthorityTypeOK, disk, records
    <2>3. OpTyped'
      BY <1>30 DEF Serve, TypeInv, OpTyped, OwnsTree
    <2> QED BY <2>2, <2>3 DEF TypeInv
  <1>31. CASE LegacyServe
    <2>1. AuthorityTypeOK'
      BY <1>31, ConstantsTyped DEF LegacyServe, TypeInv, AuthorityTypeOK, disk, records
    <2>2. OpTyped'
      BY <1>31 DEF LegacyServe, TypeInv, OpTyped, OwnsTree
    <2> QED BY <2>1, <2>2 DEF TypeInv
  <1>32. CASE SaveWrite
    <2>1. saves' \in [Clusters -> 0..MaxSaves] /\ acked' \in 0..MaxSaves
      <3>1. Running \in Clusters
        BY <1>32 DEF SaveWrite, TypeInv, AuthorityTypeOK, Running
      <3>2. saves[Running] \in 0..MaxSaves
        BY <3>1 DEF TypeInv, AuthorityTypeOK
      <3> QED BY <1>32, <3>1, <3>2, AuthorityAssumption
                 DEF SaveWrite, TypeInv, AuthorityTypeOK
    <2>2. AuthorityTypeOK'
      BY <1>32, <2>1 DEF SaveWrite, TypeInv, AuthorityTypeOK, disk, procs
    <2>3. OpTyped'
      BY <1>32 DEF SaveWrite, TypeInv, OpTyped, OwnsTree, procs
    <2> QED BY <2>2, <2>3 DEF TypeInv
  <1>33. CASE ServerStop
    <2>1. AuthorityTypeOK'
      BY <1>33, ConstantsTyped
         DEF ServerStop, TypeInv, AuthorityTypeOK, disk, records, NoServer
    <2>2. OpTyped'
      BY <1>33 DEF ServerStop, TypeInv, OpTyped, OwnsTree
    <2> QED BY <2>1, <2>2 DEF TypeInv
  <1>34. CASE PolicyChange
    <2>1. AuthorityTypeOK'
      BY <1>34, ConstantsTyped, AuthorityAssumption
         DEF PolicyChange, Policies, TypeInv, AuthorityTypeOK, disk, records, procs
    <2>2. OpTyped'
      BY <1>34 DEF PolicyChange, TypeInv, OpTyped, OwnsTree, procs
    <2> QED BY <2>1, <2>2 DEF TypeInv
  <1>35. CASE OpKill
    <2>1. AuthorityTypeOK'
      BY <1>35, ConstantsTyped, AuthorityAssumption
         DEF OpKill, TypeInv, AuthorityTypeOK, AtRest, UpgradeSteps, disk, records
    <2>2. OpTyped'
      BY <1>35 DEF OpKill, OpTyped, OwnsTree, ManagedSteps, TreeSteps, AtRest
    <2> QED BY <2>1, <2>2 DEF TypeInv
  <1>36. CASE ServerKill
    <2>1. AuthorityTypeOK'
      BY <1>36, ConstantsTyped, AuthorityAssumption
         DEF ServerKill, TypeInv, AuthorityTypeOK, disk, records, NoServer
    <2>2. OpTyped'
      BY <1>36 DEF ServerKill, TypeInv, OpTyped, OwnsTree
    <2> QED BY <2>1, <2>2 DEF TypeInv
  <1>37. CASE PowerLoss
    <2>1. state' \in Directory(StateImages) /\ parent' \in Directory(DataImages)
      BY <1>37 DEF PowerLoss, TypeInv, AuthorityTypeOK, Directory, AfterLoss, Settled
    <2>2. stage' \in [Trees -> {"partial", "upgraded", "valid"}]
      BY <1>37 DEF PowerLoss, TypeInv, AuthorityTypeOK
    <2>3. AuthorityTypeOK'
      BY <1>37, <2>1, <2>2, ConstantsTyped, AuthorityAssumption
         DEF PowerLoss, TypeInv, AuthorityTypeOK, AtRest, NoServer, UpgradeSteps, records
    <2>4. OpTyped'
      BY <1>37 DEF PowerLoss, OpTyped, OwnsTree, ManagedSteps, TreeSteps, AtRest
    <2> QED BY <2>3, <2>4 DEF TypeInv
  <1>38. CASE UNCHANGED authorityVars
    BY <1>38 DEF authorityVars, TypeInv, AuthorityTypeOK, OpTyped, OwnsTree
  <1> QED
    BY <1>1, <1>2, <1>3, <1>4, <1>5, <1>6, <1>7, <1>8, <1>9, <1>10, <1>11, <1>12, <1>13,
       <1>14,
       <1>15, <1>16, <1>17, <1>18, <1>19, <1>20, <1>21, <1>22, <1>23, <1>24, <1>25, <1>26,
       <1>27, <1>28, <1>29, <1>30, <1>31, <1>32, <1>33, <1>34, <1>35, <1>36, <1>37, <1>38
       DEF AuthorityNext, AdoptCluster, Upgrade

\* Type correctness of the authority's files, leases and processes.
THEOREM TypeCorrect == AuthoritySpec => []AuthorityTypeOK
  <1>1. AuthorityInit => TypeInv
    BY InitTyped
  <1>2. TypeInv /\ [AuthorityNext]_authorityVars => TypeInv'
    BY NextTyped
  <1>3. TypeInv => AuthorityTypeOK
    BY DEF TypeInv
  <1> QED BY <1>1, <1>2, <1>3, PTL DEF AuthoritySpec

-----------------------------------------------------------------------------
(* The inductive invariant.                                                 *)

\* Nothing is registered, served or saved yet (postgres.rs).
LEMMA InitSafe == AuthorityInit => SafetyInv
  BY ConstantsTyped
     DEF AuthorityInit, SafetyInv, NowOnDisk, ImagesSafe, ImageSafe, OneHistory,
         ServingSafe, WorkerSafe, StepSafe, Settled, AtRest, NoServer, Effective,
         Identity, Running, SourceSteps, BuildSteps, TreeSteps, PublishSteps, NoUpgrade

\* Every step keeps the images, the journal, the processes and the place of the
\* running upgrade consistent with one another.
LEMMA NextSafe == TypeInv /\ TypeInv' /\ SafetyInv /\ [AuthorityNext]_authorityVars => SafetyInv'
  <1> SUFFICES ASSUME TypeInv, TypeInv', SafetyInv, [AuthorityNext]_authorityVars PROVE SafetyInv'
    OBVIOUS
  <1>1. CASE AdoptBegin
    <2>1. NowOnDisk' /\ ImagesSafe'
      BY <1>1 DEF AdoptBegin, disk, records, SafetyInv, NowOnDisk, ImagesSafe, ImageSafe
    <2>2. OneHistory'
      BY <1>1 DEF AdoptBegin, disk, SafetyInv, OneHistory, Identity, Journal
    <2>3. ServingSafe' /\ WorkerSafe'
      BY <1>1
         DEF AdoptBegin, disk, SafetyInv, ServingSafe, WorkerSafe, Journal, Running,
             ManagedSteps, TypeInv, AuthorityTypeOK, OpTyped, Jobs
    <2>4. StepSafe'
      BY <1>1
         DEF AdoptBegin, disk, StepSafe, OwnsTree, SourceSteps, BuildSteps, TreeSteps,
             PublishSteps, Identity
    <2> QED BY <2>1, <2>2, <2>3, <2>4 DEF SafetyInv
  <1>2. CASE AdoptWrite
    <2>1. PICK s \in StateImages :
            /\ state'.now = s /\ state'.may = state.may \cup {s}
            /\ s.identity = 0 /\ s.journal = Journal
      BY <1>2
         DEF AdoptWrite, SetState, Changed, Journal, TypeInv, AuthorityTypeOK,
             Directory, StateImages
    <2>2. NowOnDisk' /\ ImagesSafe'
      BY <1>2, <2>1, ConstantsTyped
         DEF AdoptWrite, SafetyInv, NowOnDisk, ImagesSafe, ImageSafe, StepSafe, Effective,
             Journal, Identity, records, Trees, Unregistered
    <2>3. OneHistory'
      BY <1>2, <2>1
         DEF AdoptWrite, SafetyInv, OneHistory, StepSafe, Journal, Identity, Trees,
             Unregistered
    <2>4. ServingSafe' /\ WorkerSafe'
      BY <1>2, <2>1
         DEF AdoptWrite, Goto, SafetyInv, ServingSafe, WorkerSafe, StepSafe, ManagedSteps,
             Effective, Journal, Identity, Running, TypeInv, OpTyped
    <2>5. StepSafe'
      BY <1>2, <2>1
         DEF AdoptWrite, Goto, StepSafe, OwnsTree, BuildSteps, TreeSteps, PublishSteps,
             Identity
    <2> QED BY <2>2, <2>3, <2>4, <2>5 DEF SafetyInv
  <1>3. CASE AdoptSync
    <2>1. NowOnDisk' /\ ImagesSafe'
      BY <1>3
         DEF AdoptSync, Synced, Settled, records, SafetyInv, NowOnDisk, ImagesSafe,
             ImageSafe
    <2>2. OneHistory'
      BY <1>3 DEF AdoptSync, Synced, Settled, OneHistory, Identity, Journal
    <2>3. ServingSafe' /\ WorkerSafe'
      BY <1>3
         DEF AdoptSync, Synced, Settled, SafetyInv, ServingSafe, WorkerSafe, Journal,
             Running, ManagedSteps, AtRest, TypeInv, AuthorityTypeOK, OpTyped, Jobs
    <2>4. StepSafe'
      BY <1>3
         DEF AdoptSync, StepSafe, OwnsTree, SourceSteps, BuildSteps, TreeSteps,
             PublishSteps, AtRest
    <2> QED BY <2>1, <2>2, <2>3, <2>4 DEF SafetyInv
  <1>4. CASE UpgradeStart
    <2>1. NowOnDisk' /\ ImagesSafe'
      BY <1>4 DEF UpgradeStart, disk, records, SafetyInv, NowOnDisk, ImagesSafe, ImageSafe
    <2>2. OneHistory'
      BY <1>4 DEF UpgradeStart, disk, SafetyInv, OneHistory, Identity
    <2>3. ServingSafe' /\ WorkerSafe'
      BY <1>4
         DEF UpgradeStart, SafetyInv, ServingSafe, WorkerSafe, SharedHeld, Running,
             TypeInv, AuthorityTypeOK, OpTyped, Jobs, Stopped
    <2>4. StepSafe'
      BY <1>4
         DEF UpgradeStart, disk, StepSafe, OwnsTree, BuildSteps, TreeSteps, PublishSteps,
             Identity
    <2> QED BY <2>1, <2>2, <2>3, <2>4 DEF SafetyInv
  <1>5. CASE \E retry \in BOOLEAN : UpgradeResume(retry)
    <2>1. NowOnDisk' /\ ImagesSafe'
      BY <1>5 DEF UpgradeResume, disk, records, SafetyInv, NowOnDisk, ImagesSafe,
                  ImageSafe
    <2>2. OneHistory'
      BY <1>5 DEF UpgradeResume, disk, OneHistory, Journal
    <2>3. ServingSafe' /\ WorkerSafe'
      BY <1>5
         DEF UpgradeResume, SafetyInv, ServingSafe, WorkerSafe, Running, TypeInv,
             AuthorityTypeOK, OpTyped, Jobs
    <2>4. StepSafe'
      BY <1>5
         DEF UpgradeResume, disk, StepSafe, OwnsTree, SourceSteps, BuildSteps, TreeSteps,
             PublishSteps, Identity, Journal
    <2> QED BY <2>1, <2>2, <2>3, <2>4 DEF SafetyInv
  <1>6. CASE KeepStaging
    <2>1. NowOnDisk' /\ ImagesSafe'
      BY <1>6 DEF KeepStaging, records, SafetyInv, NowOnDisk, ImagesSafe, ImageSafe
    <2>2. OneHistory'
      BY <1>6 DEF KeepStaging, SafetyInv, OneHistory, Identity, Journal
    <2>3. ServingSafe' /\ WorkerSafe'
      BY <1>6
         DEF KeepStaging, SafetyInv, ServingSafe, WorkerSafe, Running, ManagedSteps,
             TypeInv, AuthorityTypeOK, OpTyped, Jobs
    <2>4. StepSafe'
      BY <1>6
         DEF KeepStaging, Goto, Fail, SafetyInv, StepSafe, OwnsTree, SourceSteps,
             BuildSteps, TreeSteps, PublishSteps, Identity, AtRest, TypeInv,
             AuthorityTypeOK
    <2> QED BY <2>1, <2>2, <2>3, <2>4 DEF SafetyInv
  <1>7. CASE DataSync("keep_staging_sync", "keep_copy")
    <2>1. NowOnDisk' /\ ImagesSafe'
      BY <1>7 DEF DataSync, records, SafetyInv, NowOnDisk, ImagesSafe, ImageSafe
    <2>2. OneHistory'
      BY <1>7 DEF DataSync, SafetyInv, OneHistory, Identity, Journal
    <2>3. ServingSafe' /\ WorkerSafe'
      BY <1>7
         DEF DataSync, SafetyInv, ServingSafe, WorkerSafe, Running, ManagedSteps, TypeInv,
             AuthorityTypeOK, OpTyped, Jobs
    <2>4. StepSafe'
      BY <1>7
         DEF DataSync, Goto, SafetyInv, StepSafe, OwnsTree, SourceSteps, BuildSteps,
             TreeSteps, PublishSteps, Identity
    <2> QED BY <2>1, <2>2, <2>3, <2>4 DEF SafetyInv
  <1>8. CASE KeepCopy
    <2>1. NowOnDisk' /\ ImagesSafe'
      BY <1>8 DEF KeepCopy, records, SafetyInv, NowOnDisk, ImagesSafe, ImageSafe
    <2>2. OneHistory'
      BY <1>8 DEF KeepCopy, SafetyInv, OneHistory, Identity, Journal
    <2>3. ServingSafe' /\ WorkerSafe'
      BY <1>8
         DEF KeepCopy, SafetyInv, ServingSafe, WorkerSafe, Running, ManagedSteps, TypeInv,
             AuthorityTypeOK, OpTyped, Jobs
    <2>4. StepSafe'
      BY <1>8
         DEF KeepCopy, Goto, Fail, SafetyInv, StepSafe, OwnsTree, SourceSteps, BuildSteps,
             TreeSteps, PublishSteps, Identity, AtRest, TypeInv, AuthorityTypeOK
    <2> QED BY <2>1, <2>2, <2>3, <2>4 DEF SafetyInv
  <1>9. CASE DataSync("keep_copy_sync", "clear_target")
    <2>1. NowOnDisk' /\ ImagesSafe'
      BY <1>9 DEF DataSync, records, SafetyInv, NowOnDisk, ImagesSafe, ImageSafe
    <2>2. OneHistory'
      BY <1>9 DEF DataSync, SafetyInv, OneHistory, Identity, Journal
    <2>3. ServingSafe' /\ WorkerSafe'
      BY <1>9
         DEF DataSync, SafetyInv, ServingSafe, WorkerSafe, Running, ManagedSteps, TypeInv,
             AuthorityTypeOK, OpTyped, Jobs
    <2>4. StepSafe'
      BY <1>9
         DEF DataSync, Goto, SafetyInv, StepSafe, OwnsTree, SourceSteps, BuildSteps,
             TreeSteps, PublishSteps, Identity
    <2> QED BY <2>1, <2>2, <2>3, <2>4 DEF SafetyInv
  <1>10. CASE ClearTarget
    <2>1. NowOnDisk' /\ ImagesSafe'
      BY <1>10 DEF ClearTarget, records, SafetyInv, NowOnDisk, ImagesSafe, ImageSafe
    <2>2. OneHistory'
      BY <1>10 DEF ClearTarget, SafetyInv, OneHistory, Identity, Journal
    <2>3. ServingSafe' /\ WorkerSafe'
      BY <1>10
         DEF ClearTarget, SafetyInv, ServingSafe, WorkerSafe, Running, ManagedSteps,
             TypeInv, AuthorityTypeOK, OpTyped, Jobs
    <2>4. StepSafe'
      BY <1>10
         DEF ClearTarget, Goto, Fail, SafetyInv, StepSafe, OwnsTree, SourceSteps,
             BuildSteps, TreeSteps, PublishSteps, Identity, AtRest, TypeInv,
             AuthorityTypeOK
    <2> QED BY <2>1, <2>2, <2>3, <2>4 DEF SafetyInv
  <1>11. CASE DataSync("clear_target_sync", "clear_target")
    <2>1. NowOnDisk' /\ ImagesSafe'
      BY <1>11 DEF DataSync, records, SafetyInv, NowOnDisk, ImagesSafe, ImageSafe
    <2>2. OneHistory'
      BY <1>11 DEF DataSync, SafetyInv, OneHistory, Identity, Journal
    <2>3. ServingSafe' /\ WorkerSafe'
      BY <1>11
         DEF DataSync, SafetyInv, ServingSafe, WorkerSafe, Running, ManagedSteps, TypeInv,
             AuthorityTypeOK, OpTyped, Jobs
    <2>4. StepSafe'
      BY <1>11
         DEF DataSync, Goto, SafetyInv, StepSafe, OwnsTree, SourceSteps, BuildSteps,
             TreeSteps, PublishSteps, Identity
    <2> QED BY <2>1, <2>2, <2>3, <2>4 DEF SafetyInv
  <1>12. CASE JournalBuilding
    <2>1. PICK s \in StateImages :
            /\ state'.now = s /\ state'.may = state.may \cup {s}
            /\ s.identity = Identity
            /\ s.journal = [phase |-> "building", policy |-> command.policy,
                              digest |-> command.digest, tree |-> NoTree]
      BY <1>12
         DEF JournalBuilding, SetState, Changed, Identity, TypeInv, AuthorityTypeOK,
             Directory, StateImages
    <2>2. NowOnDisk' /\ ImagesSafe'
      BY <1>12, <2>1, ConstantsTyped
         DEF JournalBuilding, SafetyInv, NowOnDisk, ImagesSafe, ImageSafe, StepSafe,
             Effective, Identity, records, SourceSteps, Unregistered
    <2>3. OneHistory'
      BY <1>12, <2>1 DEF OneHistory, Journal, NoUpgrade
    <2>4. ServingSafe' /\ WorkerSafe'
      BY <1>12, <2>1
         DEF JournalBuilding, SafetyInv, ServingSafe, WorkerSafe, ManagedSteps, Running,
             TypeInv, AuthorityTypeOK, OpTyped, Jobs
    <2>5. StepSafe'
      BY <1>12, <2>1
         DEF JournalBuilding, Goto, SafetyInv, StepSafe, OwnsTree, SourceSteps,
             BuildSteps, TreeSteps, PublishSteps, Journal, Identity
    <2> QED BY <2>2, <2>3, <2>4, <2>5 DEF SafetyInv
  <1>13. CASE StateSync("journal_sync", "copy")
    <2>1. NowOnDisk' /\ ImagesSafe'
      BY <1>13
         DEF StateSync, Synced, Settled, records, SafetyInv, NowOnDisk, ImagesSafe,
             ImageSafe
    <2>2. OneHistory'
      BY <1>13 DEF StateSync, Synced, Settled, OneHistory, Identity, Journal
    <2>3. ServingSafe' /\ WorkerSafe'
      BY <1>13
         DEF StateSync, SafetyInv, ServingSafe, WorkerSafe, Running, ManagedSteps,
             TypeInv, AuthorityTypeOK, OpTyped, Jobs
    <2>4. StepSafe'
      BY <1>13
         DEF StateSync, Goto, Synced, Settled, SafetyInv, StepSafe, SettledBuilding,
             OwnsTree, SourceSteps, TreeSteps, PublishSteps, Identity, Journal, TypeInv,
             AuthorityTypeOK
    <2> QED BY <2>1, <2>2, <2>3, <2>4 DEF SafetyInv
  <1>14. CASE SpawnCopy
    <2>1. NowOnDisk' /\ ImagesSafe'
      BY <1>14 DEF SpawnCopy, records, SafetyInv, NowOnDisk, ImagesSafe, ImageSafe
    <2>2. OneHistory'
      BY <1>14 DEF SpawnCopy, SafetyInv, OneHistory, Identity, Journal
    <2>3. ServingSafe' /\ WorkerSafe'
      BY <1>14
         DEF SpawnCopy, SafetyInv, ServingSafe, WorkerSafe, SettledBuilding, Identity,
             Journal, Running, ManagedSteps, TypeInv, AuthorityTypeOK, StepSafe,
             BuildSteps
    <2>4. StepSafe'
      BY <1>14
         DEF SpawnCopy, SafetyInv, StepSafe, SettledBuilding, OwnsTree, TreeSteps,
             Identity, Journal
    <2> QED BY <2>1, <2>2, <2>3, <2>4 DEF SafetyInv
  <1>15. CASE SpawnInitdb
    <2>1. PICK n \in Trees : /\ parent' = Changed(parent, [parent.now EXCEPT !.staging = n])
                             /\ command' = [command EXCEPT !.tree = n]
      BY <1>15 DEF SpawnInitdb, SetData
    <2>2. command'.pc = "initdb" /\ command'.tree = n /\ parent'.now.staging = n
      BY <1>15, <2>1
         DEF SpawnInitdb, Changed, TypeInv, AuthorityTypeOK, Directory, DataImages
    <2>3. SettledBuilding /\ copied = acked /\ Running = Unregistered
      BY <1>15
         DEF SpawnInitdb, SafetyInv, StepSafe, ServingSafe, BuildSteps, ManagedSteps,
             UpgradeSteps
    <2>4. UNCHANGED <<state, saves, acked, copied, server>> /\ upgrader' = "initdb"
      BY <1>15 DEF SpawnInitdb, records
    <2>5. NowOnDisk' /\ ImagesSafe' /\ OneHistory'
      BY <2>4 DEF SafetyInv, NowOnDisk, ImagesSafe, ImageSafe, OneHistory, Identity,
                  Journal
    <2>6. ServingSafe' /\ WorkerSafe'
      BY <2>3, <2>4 DEF ServingSafe, WorkerSafe, SettledBuilding, Running, Identity,
                        Journal
    <2>7. StepSafe'
      BY <2>2, <2>3, <2>4 DEF StepSafe, SettledBuilding, PublishSteps, Identity, Journal
    <2> QED BY <2>5, <2>6, <2>7 DEF SafetyInv
  <1>16. CASE SpawnOther
    <2>1. NowOnDisk' /\ ImagesSafe'
      BY <1>16 DEF SpawnOther, disk, records, SafetyInv, NowOnDisk, ImagesSafe, ImageSafe
    <2>2. OneHistory'
      BY <1>16 DEF SpawnOther, disk, SafetyInv, OneHistory, Identity, Journal
    <2>3. ServingSafe' /\ WorkerSafe'
      BY <1>16
         DEF SpawnOther, disk, SafetyInv, ServingSafe, WorkerSafe, SettledBuilding,
             Identity, Journal, Running, ManagedSteps, TypeInv, AuthorityTypeOK,
             StepSafe, BuildSteps, TreeSteps
    <2>4. StepSafe'
      BY <1>16
         DEF SpawnOther, disk, records, SafetyInv, StepSafe, SettledBuilding, OwnsTree,
             Identity, Journal
    <2> QED BY <2>1, <2>2, <2>3, <2>4 DEF SafetyInv
  <1>17. CASE Seal
    <2>1. NowOnDisk' /\ ImagesSafe'
      BY <1>17 DEF Seal, records, SafetyInv, NowOnDisk, ImagesSafe, ImageSafe
    <2>2. OneHistory'
      BY <1>17 DEF Seal, SafetyInv, OneHistory, Identity, Journal
    <2>3. ServingSafe' /\ WorkerSafe'
      BY <1>17
         DEF Seal, SafetyInv, ServingSafe, WorkerSafe, Running, ManagedSteps, TypeInv,
             AuthorityTypeOK, OpTyped, Jobs
    <2>4. StepSafe'
      BY <1>17
         DEF Seal, Goto, Fail, Synced, Settled, records, SafetyInv, StepSafe,
             SettledBuilding, OwnsTree, BuildSteps, TreeSteps, PublishSteps, Identity,
             Journal, AtRest, TypeInv, AuthorityTypeOK
    <2> QED BY <2>1, <2>2, <2>3, <2>4 DEF SafetyInv
  <1>18. CASE JournalReady
    <2>1. PICK s \in StateImages :
            /\ state'.now = s /\ state'.may = state.may \cup {s}
            /\ s.identity = Identity
            /\ s.journal = [phase |-> "ready", policy |-> command.policy,
                              digest |-> command.digest, tree |-> command.tree]
      BY <1>18
         DEF JournalReady, SetState, Changed, Identity, TypeInv, AuthorityTypeOK,
             Directory, StateImages
    <2>2. NowOnDisk' /\ ImagesSafe'
      BY <1>18, <2>1, ConstantsTyped
         DEF JournalReady, SafetyInv, NowOnDisk, ImagesSafe, ImageSafe, StepSafe,
             Effective, Identity, records, BuildSteps, TreeSteps, SettledBuilding,
             Trees, Unregistered
    <2>3. OneHistory'
      BY <1>18, <2>1 DEF OneHistory, Journal, NoUpgrade
    <2>4. ServingSafe' /\ WorkerSafe'
      BY <1>18, <2>1
         DEF JournalReady, SafetyInv, ServingSafe, WorkerSafe, ManagedSteps, Running,
             TypeInv, AuthorityTypeOK, OpTyped, Jobs
    <2>5. StepSafe'
      BY <1>18, <2>1
         DEF JournalReady, Goto, StepSafe, OwnsTree, SourceSteps, BuildSteps, TreeSteps,
             Journal
    <2> QED BY <2>2, <2>3, <2>4, <2>5 DEF SafetyInv
  <1>19. CASE StateSync("ready_sync", "rename")
    <2>1. NowOnDisk' /\ ImagesSafe'
      BY <1>19
         DEF StateSync, Synced, Settled, records, SafetyInv, NowOnDisk, ImagesSafe,
             ImageSafe
    <2>2. OneHistory'
      BY <1>19 DEF StateSync, Synced, Settled, OneHistory, Identity, Journal
    <2>3. ServingSafe' /\ WorkerSafe'
      BY <1>19
         DEF StateSync, SafetyInv, ServingSafe, WorkerSafe, Running, ManagedSteps,
             TypeInv, AuthorityTypeOK, OpTyped, Jobs
    <2>4. StepSafe'
      BY <1>19
         DEF StateSync, Goto, Synced, Settled, SafetyInv, StepSafe, OwnsTree, SourceSteps,
             BuildSteps, TreeSteps, PublishSteps, Journal, TypeInv, AuthorityTypeOK
    <2> QED BY <2>1, <2>2, <2>3, <2>4 DEF SafetyInv
  <1>20. CASE PublishRename
    <2>1. NowOnDisk' /\ ImagesSafe'
      BY <1>20 DEF PublishRename, records, SafetyInv, NowOnDisk, ImagesSafe, ImageSafe
    <2>2. OneHistory'
      BY <1>20 DEF PublishRename, SafetyInv, OneHistory, Identity, Journal
    <2>3. ServingSafe' /\ WorkerSafe'
      BY <1>20
         DEF PublishRename, SafetyInv, ServingSafe, WorkerSafe, Running, ManagedSteps,
             TypeInv, AuthorityTypeOK, OpTyped, Jobs
    <2>4. StepSafe'
      BY <1>20
         DEF PublishRename, Goto, Fail, SafetyInv, StepSafe, OwnsTree, SourceSteps,
             BuildSteps, TreeSteps, PublishSteps, Journal, AtRest, TypeInv,
             AuthorityTypeOK
    <2> QED BY <2>1, <2>2, <2>3, <2>4 DEF SafetyInv
  <1>21. CASE DataSync("rename_sync", "previous")
    <2>1. NowOnDisk' /\ ImagesSafe'
      BY <1>21 DEF DataSync, records, SafetyInv, NowOnDisk, ImagesSafe, ImageSafe
    <2>2. OneHistory'
      BY <1>21 DEF DataSync, SafetyInv, OneHistory, Identity, Journal
    <2>3. ServingSafe' /\ WorkerSafe'
      BY <1>21
         DEF DataSync, SafetyInv, ServingSafe, WorkerSafe, Running, ManagedSteps, TypeInv,
             AuthorityTypeOK, OpTyped, Jobs
    <2>4. StepSafe'
      BY <1>21
         DEF DataSync, Goto, SafetyInv, StepSafe, OwnsTree, SourceSteps, BuildSteps,
             TreeSteps, PublishSteps, Journal
    <2> QED BY <2>1, <2>2, <2>3, <2>4 DEF SafetyInv
  <1>22. CASE PublishPrevious
    <2>1. PICK s \in StateImages :
            /\ state'.now = s /\ state'.may = state.may \cup {s}
            /\ s.identity = Identity /\ s.journal = Journal
      BY <1>22
         DEF PublishPrevious, SetState, Changed, Journal, Identity, TypeInv,
             AuthorityTypeOK, Directory, StateImages
    <2>2. NowOnDisk' /\ ImagesSafe'
      BY <1>22, <2>1, ConstantsTyped
         DEF PublishPrevious, SafetyInv, NowOnDisk, ImagesSafe, ImageSafe, Effective,
             Journal, Identity, records
    <2>3. OneHistory'
      BY <1>22, <2>1 DEF SafetyInv, OneHistory, Journal, Identity
    <2>4. ServingSafe' /\ WorkerSafe'
      BY <1>22, <2>1
         DEF PublishPrevious, SafetyInv, ServingSafe, WorkerSafe, ManagedSteps, Running,
             TypeInv, AuthorityTypeOK, OpTyped, Jobs
    <2>5. StepSafe'
      BY <1>22, <2>1
         DEF PublishPrevious, Goto, SafetyInv, StepSafe, OwnsTree, SourceSteps,
             BuildSteps, TreeSteps, PublishSteps, Journal
    <2> QED BY <2>2, <2>3, <2>4, <2>5 DEF SafetyInv
  <1>23. CASE StateSync("previous_sync", "identity")
    <2>1. NowOnDisk' /\ ImagesSafe'
      BY <1>23
         DEF StateSync, Synced, Settled, records, SafetyInv, NowOnDisk, ImagesSafe,
             ImageSafe
    <2>2. OneHistory'
      BY <1>23 DEF StateSync, Synced, Settled, OneHistory, Identity, Journal
    <2>3. ServingSafe' /\ WorkerSafe'
      BY <1>23
         DEF StateSync, SafetyInv, ServingSafe, WorkerSafe, Running, ManagedSteps,
             TypeInv, AuthorityTypeOK, OpTyped, Jobs
    <2>4. StepSafe'
      BY <1>23
         DEF StateSync, Goto, Synced, Settled, SafetyInv, StepSafe, OwnsTree, SourceSteps,
             BuildSteps, TreeSteps, PublishSteps, Journal, TypeInv, AuthorityTypeOK
    <2> QED BY <2>1, <2>2, <2>3, <2>4 DEF SafetyInv
  <1>24. CASE PublishIdentity
    <2>1. PICK s \in StateImages :
            /\ state'.now = s /\ state'.may = state.may \cup {s}
            /\ s.identity = Journal.tree /\ s.journal = Journal
      BY <1>24
         DEF PublishIdentity, SetState, Changed, Journal, TypeInv, AuthorityTypeOK,
             Directory, StateImages
    <2>2. Journal.phase = "ready" /\ Journal.tree \in Trees
      <3>1. Journal.phase = "ready"
        BY <1>24 DEF PublishIdentity, SafetyInv, StepSafe, PublishSteps
      <3>2. Journal \in UpgradeJournals
        BY DEF TypeInv, AuthorityTypeOK, Directory, StateImages, Journal
      <3> QED BY <3>1, <3>2 DEF UpgradeJournals, NoUpgrade
    <2>3. NowOnDisk' /\ ImagesSafe'
      BY <1>24, <2>1, <2>2
         DEF PublishIdentity, SafetyInv, NowOnDisk, ImagesSafe, ImageSafe, Effective,
             Journal, records, Trees, Unregistered
    <2>4. OneHistory'
      BY <1>24, <2>1, <2>2 DEF OneHistory, Journal, NoUpgrade
    <2>5. ServingSafe' /\ WorkerSafe'
      BY <1>24, <2>1, <2>2
         DEF PublishIdentity, SafetyInv, ServingSafe, WorkerSafe, ManagedSteps, Running,
             TypeInv, AuthorityTypeOK, OpTyped, Jobs
    <2>6. StepSafe'
      BY <1>24, <2>1, <2>2
         DEF PublishIdentity, Goto, StepSafe, OwnsTree, SourceSteps, BuildSteps,
             TreeSteps, Journal, Identity
    <2> QED BY <2>3, <2>4, <2>5, <2>6 DEF SafetyInv
  <1>25. CASE StateSync("identity_sync", "unlink")
    <2>1. NowOnDisk' /\ ImagesSafe'
      BY <1>25
         DEF StateSync, Synced, Settled, records, SafetyInv, NowOnDisk, ImagesSafe,
             ImageSafe
    <2>2. OneHistory'
      BY <1>25 DEF StateSync, Synced, Settled, OneHistory, Identity, Journal
    <2>3. ServingSafe' /\ WorkerSafe'
      BY <1>25
         DEF StateSync, SafetyInv, ServingSafe, WorkerSafe, Running, ManagedSteps,
             TypeInv, AuthorityTypeOK, OpTyped, Jobs
    <2>4. StepSafe'
      BY <1>25
         DEF StateSync, Goto, Synced, Settled, SafetyInv, StepSafe, OwnsTree,
             SourceSteps, BuildSteps, TreeSteps, PublishSteps, Identity, Journal,
             TypeInv, AuthorityTypeOK
    <2> QED BY <2>1, <2>2, <2>3, <2>4 DEF SafetyInv
  <1>26. CASE PublishUnlink
    <2>1. PICK s \in StateImages :
            /\ state'.now = s /\ state'.may = state.may \cup {s}
            /\ s.identity = Identity /\ s.journal = NoUpgrade
      BY <1>26
         DEF PublishUnlink, SetState, Changed, Identity, TypeInv, AuthorityTypeOK,
             Directory, StateImages
    <2>2. Journal.phase = "ready" /\ Journal.tree \in Trees
      <3>1. Journal.phase = "ready"
        BY <1>26 DEF PublishUnlink, SafetyInv, StepSafe, PublishSteps
      <3>2. Journal \in UpgradeJournals
        BY DEF TypeInv, AuthorityTypeOK, Directory, StateImages, Journal
      <3> QED BY <3>1, <3>2 DEF UpgradeJournals, NoUpgrade
    <2>3. NowOnDisk' /\ ImagesSafe'
      BY <1>26, <2>1, <2>2
         DEF PublishUnlink, SafetyInv, NowOnDisk, ImagesSafe, ImageSafe, Effective,
             Identity, records, NoUpgrade
    <2>4. OneHistory'
      BY <1>26, <2>1, <2>2 DEF PublishUnlink, SafetyInv, OneHistory, StepSafe, Identity
    <2>5. ServingSafe' /\ WorkerSafe'
      BY <1>26, <2>1, <2>2
         DEF PublishUnlink, SafetyInv, ServingSafe, WorkerSafe, ManagedSteps, Running,
             TypeInv, AuthorityTypeOK, OpTyped, Jobs
    <2>6. StepSafe'
      BY <1>26, <2>1, <2>2
         DEF PublishUnlink, Goto, SafetyInv, StepSafe, OwnsTree, SourceSteps, BuildSteps,
             TreeSteps, PublishSteps, Identity
    <2> QED BY <2>3, <2>4, <2>5, <2>6 DEF SafetyInv
  <1>27. CASE StateSync("unlink_sync", "idle")
    <2>1. NowOnDisk' /\ ImagesSafe'
      BY <1>27
         DEF StateSync, Synced, Settled, records, SafetyInv, NowOnDisk, ImagesSafe,
             ImageSafe
    <2>2. OneHistory'
      BY <1>27 DEF StateSync, Synced, Settled, OneHistory, Identity, Journal
    <2>3. ServingSafe' /\ WorkerSafe'
      BY <1>27
         DEF StateSync, SafetyInv, ServingSafe, WorkerSafe, Running, ManagedSteps,
             TypeInv, AuthorityTypeOK, OpTyped, Jobs
    <2>4. StepSafe'
      BY <1>27
         DEF StateSync, StepSafe, OwnsTree, SourceSteps, BuildSteps, TreeSteps,
             PublishSteps, AtRest
    <2> QED BY <2>1, <2>2, <2>3, <2>4 DEF SafetyInv
  <1>28. CASE WorkerDone
    <2> DEFINE n == parent.now.staging
    <2>1. SettledBuilding /\ Running = Unregistered /\ upgrader' = "none"
      BY <1>28 DEF WorkerDone, SafetyInv, WorkerSafe
    <2>2. saves[0] = acked /\ UNCHANGED <<state, parent, acked, server>>
      BY <1>28, <2>1
         DEF WorkerDone, SafetyInv, ImagesSafe, ImageSafe, SettledBuilding, Effective,
             Identity
    <2>3. saves'[0] = acked
      BY <1>28, <2>2, ConstantsTyped DEF WorkerDone, NoTree, TypeInv, AuthorityTypeOK
    <2>4. NowOnDisk' /\ ImagesSafe' /\ OneHistory'
      BY <2>1, <2>2, <2>3
         DEF NowOnDisk, ImagesSafe, ImageSafe, OneHistory, SettledBuilding, Effective,
             Identity, Journal, Unregistered
    <2>5. ServingSafe' /\ WorkerSafe'
      BY <2>1, <2>2 DEF ServingSafe, WorkerSafe, Running
    <2>6. StepSafe'
      <3>1. CASE command.pc = "idle"
        BY <1>28, <2>1, <2>2, <3>1
           DEF WorkerDone, StepSafe, OwnsTree, SourceSteps, BuildSteps, TreeSteps,
               PublishSteps
      <3>2. CASE command.pc # "idle"
        <4>1. upgrader \in Jobs /\ command.pc = upgrader
          BY <1>28, <3>2 DEF WorkerDone, TypeInv, AuthorityTypeOK, OpTyped
        <4>2. command'.pc = NextJob[upgrader] /\ command'.tree = command.tree
          BY <1>28, <3>2 DEF WorkerDone, Goto, TypeInv, AuthorityTypeOK
        <4>3. copied' = acked
          BY <1>28, <2>2, <4>1
             DEF WorkerDone, SafetyInv, StepSafe, BuildSteps, TreeSteps, Jobs
        <4>4. upgrader # "copy" => n = command.tree /\ command.tree \in Trees
          BY <4>1 DEF SafetyInv, StepSafe, TypeInv, OpTyped, OwnsTree, TreeSteps, Jobs
        <4>5. upgrader \in {"pg_upgrade", "validate"} => saves'[command.tree] = acked
          BY <1>28, <2>2, <4>1, <4>3, <4>4, ConstantsTyped
             DEF WorkerDone, SafetyInv, StepSafe, NoTree, TypeInv, AuthorityTypeOK
        <4> QED
          BY <2>1, <2>2, <4>1, <4>2, <4>3, <4>4, <4>5
             DEF StepSafe, SettledBuilding, OwnsTree, TreeSteps, PublishSteps, NextJob,
                 Jobs, Identity, Journal
      <3> QED BY <3>1, <3>2
    <2> QED BY <2>4, <2>5, <2>6 DEF SafetyInv
  <1>29. CASE WorkerFail
    <2>1. NowOnDisk' /\ ImagesSafe'
      BY <1>29 DEF WorkerFail, disk, records, SafetyInv, NowOnDisk, ImagesSafe, ImageSafe
    <2>2. OneHistory'
      BY <1>29 DEF WorkerFail, disk, SafetyInv, OneHistory, Identity, Journal
    <2>3. ServingSafe' /\ WorkerSafe'
      BY <1>29 DEF WorkerFail, SafetyInv, ServingSafe, WorkerSafe, Running
    <2>4. StepSafe'
      BY <1>29
         DEF WorkerFail, Fail, StepSafe, OwnsTree, SourceSteps, BuildSteps, TreeSteps,
             PublishSteps, AtRest
    <2> QED BY <2>1, <2>2, <2>3, <2>4 DEF SafetyInv
  <1>30. CASE Serve
    <2>1. Identity \in Clusters /\ Identity # Unregistered /\ Journal = NoUpgrade
      BY <1>30 DEF Serve, RejectUpgrade, TypeInv, AuthorityTypeOK
    <2>2. Effective(state.now) = Identity
      BY <2>1, AuthorityAssumption DEF Effective, Identity, Clusters, Trees
    <2>3. upgrader = "none" /\ command.pc \notin ManagedSteps
      BY <1>30 DEF Serve, ExclusiveHeld, ManagedSteps
    <2>4. UNCHANGED <<state, parent, saves, acked, copied, command, upgrader>>
      BY <1>30 DEF Serve, disk, records
    <2>5. ServingSafe' /\ WorkerSafe'
      BY <1>30, <2>1, <2>2, <2>3, <2>4 DEF Serve, ServingSafe, WorkerSafe, Journal,
                                           Running
    <2>6. NowOnDisk' /\ ImagesSafe' /\ OneHistory' /\ StepSafe'
      BY <2>4
         DEF SafetyInv, NowOnDisk, ImagesSafe, ImageSafe, OneHistory, StepSafe,
             SettledBuilding, OwnsTree, Identity, Journal
    <2> QED BY <2>5, <2>6 DEF SafetyInv
  <1>31. CASE LegacyServe
    <2>1. Identity = Unregistered /\ Journal = NoUpgrade /\ Effective(state.now) = 0
      BY <1>31
         DEF LegacyServe, SafetyInv, NowOnDisk, ImagesSafe, ImageSafe, Effective,
             Identity, Journal, Trees, Unregistered
    <2>2. upgrader = "none"
      BY <2>1 DEF SafetyInv, WorkerSafe, SettledBuilding, Unregistered
    <2>3. command.pc \notin ManagedSteps
      BY <2>1
         DEF SafetyInv, StepSafe, SettledBuilding, SourceSteps, BuildSteps, TreeSteps,
             PublishSteps, ManagedSteps, UpgradeSteps, NoUpgrade, Trees, Unregistered
    <2>4. UNCHANGED <<state, parent, saves, acked, copied, command, upgrader>>
      BY <1>31 DEF LegacyServe, disk, records
    <2>5. ServingSafe' /\ WorkerSafe'
      BY <1>31, <2>1, <2>2, <2>3, <2>4
         DEF LegacyServe, ServingSafe, WorkerSafe, Journal, Running
    <2>6. NowOnDisk' /\ ImagesSafe' /\ OneHistory' /\ StepSafe'
      BY <2>4
         DEF SafetyInv, NowOnDisk, ImagesSafe, ImageSafe, OneHistory, StepSafe,
             SettledBuilding, OwnsTree, Identity, Journal
    <2> QED BY <2>5, <2>6 DEF SafetyInv
  <1>32. CASE SaveWrite
    <2>1. Running # Unregistered /\ command.pc \notin ManagedSteps /\ upgrader = "none"
      BY <1>32 DEF SaveWrite, SafetyInv, ServingSafe
    <2>2. \A s \in state.may : /\ Effective(s) = Running
                               /\ s.journal.phase = "ready" => s.identity \in Trees
      BY <1>32, <2>1 DEF SafetyInv, OneHistory, ServingSafe, Effective, Identity,
                         NoUpgrade
    <2>3. saves'[Running] = acked' /\ UNCHANGED <<state, command, upgrader, parent>>
      <3>1. Running \in Clusters
        BY <2>1 DEF TypeInv, AuthorityTypeOK, Running
      <3>2. saves[Running] = acked
        BY <2>2 DEF SafetyInv, NowOnDisk, ImagesSafe, ImageSafe
      <3> QED BY <1>32, <3>1, <3>2 DEF SaveWrite, TypeInv, AuthorityTypeOK, disk, procs
    <2>4. NowOnDisk' /\ ImagesSafe'
      BY <2>2, <2>3 DEF SafetyInv, NowOnDisk, ImagesSafe, ImageSafe
    <2>5. OneHistory' /\ ServingSafe' /\ WorkerSafe'
      BY <1>32, <2>1, <2>3
         DEF SaveWrite, SafetyInv, OneHistory, ServingSafe, WorkerSafe, Identity,
             Journal, Running, procs
    <2>6. StepSafe'
      BY <2>1, <2>3
         DEF SafetyInv, StepSafe, ManagedSteps, OwnsTree, BuildSteps, TreeSteps, Identity,
             Journal, TypeInv, AuthorityTypeOK
    <2> QED BY <2>4, <2>5, <2>6 DEF SafetyInv
  <1>33. CASE ServerStop
    <2>1. NowOnDisk' /\ ImagesSafe'
      BY <1>33 DEF ServerStop, disk, records, SafetyInv, NowOnDisk, ImagesSafe, ImageSafe
    <2>2. OneHistory'
      BY <1>33 DEF ServerStop, disk, SafetyInv, OneHistory, Identity, Journal
    <2>3. ServingSafe' /\ WorkerSafe'
      BY <1>33 DEF ServerStop, SafetyInv, ServingSafe, WorkerSafe, Running, NoServer
    <2>4. StepSafe'
      BY <1>33
         DEF ServerStop, disk, records, SafetyInv, StepSafe, SettledBuilding, OwnsTree,
             Identity, Journal
    <2> QED BY <2>1, <2>2, <2>3, <2>4 DEF SafetyInv
  <1>34. CASE PolicyChange
    <2>1. NowOnDisk' /\ ImagesSafe'
      BY <1>34 DEF PolicyChange, disk, records, SafetyInv, NowOnDisk, ImagesSafe,
                   ImageSafe
    <2>2. OneHistory'
      BY <1>34 DEF PolicyChange, disk, SafetyInv, OneHistory, Identity, Journal
    <2>3. ServingSafe' /\ WorkerSafe'
      BY <1>34
         DEF PolicyChange, disk, procs, SafetyInv, ServingSafe, WorkerSafe,
             SettledBuilding, Identity, Journal, Running
    <2>4. StepSafe'
      BY <1>34
         DEF PolicyChange, disk, records, procs, SafetyInv, StepSafe, SettledBuilding,
             OwnsTree, Identity, Journal
    <2> QED BY <2>1, <2>2, <2>3, <2>4 DEF SafetyInv
  <1>35. CASE OpKill
    <2>1. NowOnDisk' /\ ImagesSafe'
      BY <1>35 DEF OpKill, disk, records, SafetyInv, NowOnDisk, ImagesSafe, ImageSafe
    <2>2. OneHistory'
      BY <1>35 DEF OpKill, disk, SafetyInv, OneHistory, Identity, Journal
    <2>3. ServingSafe' /\ WorkerSafe'
      BY <1>35
         DEF OpKill, disk, SafetyInv, ServingSafe, WorkerSafe, SettledBuilding, Identity,
             Journal, Running, ManagedSteps, AtRest
    <2>4. StepSafe'
      BY <1>35
         DEF OpKill, StepSafe, OwnsTree, SourceSteps, BuildSteps, TreeSteps,
             PublishSteps, AtRest
    <2> QED BY <2>1, <2>2, <2>3, <2>4 DEF SafetyInv
  <1>36. CASE ServerKill
    <2>1. NowOnDisk' /\ ImagesSafe'
      BY <1>36 DEF ServerKill, disk, records, SafetyInv, NowOnDisk, ImagesSafe, ImageSafe
    <2>2. OneHistory'
      BY <1>36 DEF ServerKill, disk, SafetyInv, OneHistory, Identity, Journal
    <2>3. ServingSafe' /\ WorkerSafe'
      BY <1>36 DEF ServerKill, SafetyInv, ServingSafe, WorkerSafe, Running, NoServer
    <2>4. StepSafe'
      BY <1>36
         DEF ServerKill, disk, records, SafetyInv, StepSafe, SettledBuilding, OwnsTree,
             Identity, Journal
    <2> QED BY <2>1, <2>2, <2>3, <2>4 DEF SafetyInv
  <1>37. CASE PowerLoss
    <2>1. PICK s \in state.may : state'.now = s /\ state'.may = {s}
      BY <1>37 DEF PowerLoss, AfterLoss, Settled
    <2>2. /\ command'.pc = "idle" /\ upgrader' = "none" /\ UNCHANGED <<saves, acked>>
          /\ server' = NoServer
      BY <1>37 DEF PowerLoss, AtRest, records
    <2>3. NowOnDisk' /\ ImagesSafe'
      BY <2>1, <2>2 DEF SafetyInv, NowOnDisk, ImagesSafe, ImageSafe
    <2>4. OneHistory'
      BY <2>1 DEF OneHistory, Identity, Journal
    <2>5. ServingSafe' /\ WorkerSafe' /\ StepSafe'
      BY <2>2
         DEF ServingSafe, WorkerSafe, StepSafe, OwnsTree, NoServer, Running, SourceSteps,
             BuildSteps, TreeSteps, PublishSteps
    <2> QED BY <2>3, <2>4, <2>5 DEF SafetyInv
  <1>38. CASE UNCHANGED authorityVars
    BY <1>38
       DEF authorityVars, SafetyInv, NowOnDisk, ImagesSafe, ImageSafe, OneHistory,
           ServingSafe, WorkerSafe, StepSafe, SettledBuilding, Identity, Journal,
           Running, OwnsTree
  <1> QED
    BY <1>1, <1>2, <1>3, <1>4, <1>5, <1>6, <1>7, <1>8, <1>9, <1>10, <1>11, <1>12, <1>13,
       <1>14,
       <1>15, <1>16, <1>17, <1>18, <1>19, <1>20, <1>21, <1>22, <1>23, <1>24, <1>25, <1>26,
       <1>27, <1>28, <1>29, <1>30, <1>31, <1>32, <1>33, <1>34, <1>35, <1>36, <1>37, <1>38
       DEF AuthorityNext, AdoptCluster, Upgrade

\* The invariant holds in every behaviour.
LEMMA Invariance == AuthoritySpec => [](TypeInv /\ SafetyInv)
  <1>1. AuthorityInit => TypeInv /\ SafetyInv
    BY InitTyped, InitSafe
  <1>2. TypeInv /\ SafetyInv /\ [AuthorityNext]_authorityVars => TypeInv' /\ SafetyInv'
    BY NextTyped, NextSafe
  <1> QED BY <1>1, <1>2, PTL DEF AuthoritySpec

-----------------------------------------------------------------------------
(* What it implies.                                                         *)

\* No acknowledged save is lost: the registered and the served cluster hold
\* every acknowledged save, after any kills and power losses (publish_leased,
\* reject_upgrade, the leases).
THEOREM SavesKept == AuthoritySpec => []NoSaveLost
  <1>1. TypeInv /\ SafetyInv => NoSaveLost
    <2> SUFFICES ASSUME TypeInv, SafetyInv PROVE NoSaveLost
      OBVIOUS
    <2>1. saves[Effective(state.now)] = acked
      BY DEF SafetyInv, NowOnDisk, ImagesSafe, ImageSafe
    <2>2. Identity # Unregistered => Effective(state.now) = Identity
      <3>1. Identity \in Clusters \cup {Unregistered}
        BY DEF TypeInv, AuthorityTypeOK, Directory, StateImages, Identity
      <3> QED BY <3>1, AuthorityAssumption DEF Effective, Identity, Clusters, Trees
    <2> QED BY <2>1, <2>2 DEF NoSaveLost, SafetyInv, ServingSafe
  <1> QED BY <1>1, Invariance, PTL

\* A child of an upgrade never runs beside a postmaster, even when the upgrade
\* that started it is gone: the lease it inherited refuses every guarded start,
\* and the registered identity every unguarded one (upgrader, serve).
THEOREM WorkersRunAlone == AuthoritySpec => []WorkerAlone
  <1>1. SafetyInv => WorkerAlone
    BY DEF SafetyInv, WorkerSafe, WorkerAlone
  <1> QED BY <1>1, Invariance, PTL

-----------------------------------------------------------------------------
(* The tree that a record names.                                            *)

InTarget(n) == \A d \in parent.may \cup {parent.now} : d.target = n
InParent(n) == \A d \in parent.may \cup {parent.now} : n \in {d.target, d.staging}
Whole(n) == stage[n] = "valid" /\ n \in synced

\* Of every image a power loss may leave: the tree its records name is there,
\* whole, and was made under the policy that the journal binds.
RecordSafe(s) ==
    /\ s.identity \in Trees => InTarget(s.identity) /\ Whole(s.identity)
    /\ s.journal.phase = "ready" =>
          /\ InParent(s.journal.tree) /\ Whole(s.journal.tree)
          /\ madeUnder[s.journal.tree] = s.journal.policy

RecordsSafe == \A s \in state.may : RecordSafe(s)

\* No image is ahead of what is visible, and all of them name the same tree.
NoneAhead ==
    /\ Identity \notin Trees => \A s \in state.may : s.identity \notin Trees
    /\ Identity \notin Trees /\ Journal.phase # "ready" =>
          \A s \in state.may : s.journal.phase # "ready"
    /\ Journal.phase = "ready" =>
          \A s \in state.may :
            /\ s.journal.phase = "ready" => s.journal.tree = Journal.tree
            /\ s.identity \in Trees => s.identity = Journal.tree

TargetSteps == {"previous", "previous_sync", "identity", "identity_sync", "unlink"}

UpgradeSafe ==
    /\ command.pc \in SourceSteps => Journal.phase # "ready"
    /\ command.pc \in ManagedSteps => command.policy <= policy
    /\ command.pc = "seal" =>
          /\ stage[command.tree] = "valid"
          /\ command.policy <= madeUnder[command.tree] /\ madeUnder[command.tree] <= policy
    /\ command.pc = "ready" =>
          Whole(command.tree) /\ InParent(command.tree) /\ madeUnder[command.tree] = command.policy
    /\ command.pc \in PublishSteps => command.policy = Journal.policy
    /\ command.pc = "rename_sync" => parent.now.target = Journal.tree
    /\ command.pc \in TargetSteps => InTarget(Journal.tree)

RecordInv == RecordsSafe /\ NoneAhead /\ UpgradeSafe

\* At first nothing is recorded.
LEMMA InitRecord == AuthorityInit => RecordInv
  BY ConstantsTyped
     DEF AuthorityInit, RecordInv, RecordsSafe, RecordSafe, NoneAhead, UpgradeSafe,
         Settled, AtRest, NoUpgrade, Identity, Journal, Unregistered, Trees,
         SourceSteps, ManagedSteps, PublishSteps, TargetSteps

\* A rename or an unlink in the authority directory: an adoption, a journal or a
\* step of a publication.
Written ==
    /\ command.pc \in {"adopt", "journal", "ready", "previous", "identity", "unlink"}
    /\ UNCHANGED <<parent, stage, madeUnder, synced>>
    /\ state'.now \in StateImages
    /\ state'.may = state.may \cup {state'.now}
    /\ command.pc = "adopt" => state'.now.identity = 0
    /\ command.pc \in {"journal", "ready", "previous", "unlink"} => state'.now.identity = Identity
    /\ command.pc = "identity" => state'.now.identity = Journal.tree
    /\ command.pc \in {"adopt", "previous", "identity"} => state'.now.journal = Journal
    /\ command.pc = "journal" => state'.now.journal.phase = "building"
    /\ command.pc = "ready" =>
          /\ state'.now.journal.phase = "ready" /\ state'.now.journal.tree = command.tree
          /\ state'.now.journal.policy = command.policy
    /\ command.pc = "unlink" => state'.now.journal = NoUpgrade

\* The authority directory is otherwise only flushed, or falls back to an image.
LEMMA StateChanges ==
    ASSUME TypeInv, [AuthorityNext]_authorityVars
    PROVE  \/ UNCHANGED state
           \/ \E s \in state.may \cup {state.now} : state' = Settled(s)
           \/ Written
  <1> USE DEF SetState, Changed, Identity, Journal, Written
  <1>1. TypeInv'
    BY NextTyped
  <1>2. ASSUME AdoptWrite \/ JournalBuilding \/ PublishPrevious \/ PublishIdentity \/ PublishUnlink
               \/ JournalReady
        PROVE  state'.now \in StateImages
    BY <1>1 DEF TypeInv, AuthorityTypeOK, Directory
  <1>3. CASE AdoptWrite
    BY <1>2, <1>3 DEF AdoptWrite, TypeInv, AuthorityTypeOK, Directory, StateImages
  <1>4. CASE JournalBuilding
    BY <1>2, <1>4 DEF JournalBuilding, TypeInv, AuthorityTypeOK, Directory, StateImages
  <1>5. CASE JournalReady
    BY <1>2, <1>5 DEF JournalReady, TypeInv, AuthorityTypeOK, Directory, StateImages
  <1>6. CASE PublishPrevious
    BY <1>2, <1>6 DEF PublishPrevious, TypeInv, AuthorityTypeOK, Directory, StateImages
  <1>7. CASE PublishIdentity
    BY <1>2, <1>7 DEF PublishIdentity, TypeInv, AuthorityTypeOK, Directory, StateImages
  <1>8. CASE PublishUnlink
    BY <1>2, <1>8 DEF PublishUnlink, TypeInv, AuthorityTypeOK, Directory, StateImages
  <1>9. CASE PowerLoss
    BY <1>9 DEF PowerLoss, AfterLoss
  <1>10. ASSUME NEW from, NEW to, StateSync(from, to)
         PROVE  \E s \in state.may \cup {state.now} : state' = Settled(s)
    BY <1>10 DEF StateSync, Synced
  <1>11. CASE AdoptSync
    BY <1>11 DEF AdoptSync, Synced
  <1>12. CASE UNCHANGED state
    BY <1>12
  <1> QED
    BY <1>3, <1>4, <1>5, <1>6, <1>7, <1>8, <1>9, <1>10, <1>11, <1>12
       DEF AuthorityNext, AdoptCluster, Upgrade, authorityVars, disk, AdoptBegin,
           UpgradeStart, UpgradeResume, KeepStaging, KeepCopy, ClearTarget, DataSync,
           SpawnCopy, SpawnInitdb, SpawnOther, Seal, PublishRename, WorkerDone,
           WorkerFail, Serve, LegacyServe, SaveWrite, ServerStop, PolicyChange, OpKill,
           ServerKill

\* What happens to the trees and to the directory they are in: a step that changes
\* either runs before a record exists, or it publishes the recorded tree
\* (SettledBuilding, sync_tree, publish_leased).
LEMMA TreeChanges ==
    ASSUME TypeInv, SafetyInv, RecordInv, [AuthorityNext]_authorityVars
    PROVE  \/ UNCHANGED <<parent, stage, madeUnder, synced>>
           \/ command.pc \in SourceSteps \/ SettledBuilding
           \/ /\ command.pc = "rename" /\ UNCHANGED <<state, stage, madeUnder, synced>>
              /\ Publishable /\ parent.now.staging # NoTree
              /\ parent' = Changed(parent, [parent.now EXCEPT !.target = Candidate, !.staging = NoTree])
           \/ /\ command.pc = "rename_sync" /\ UNCHANGED <<state, stage, madeUnder, synced>>
              /\ parent' = Synced(parent)
           \/ PowerLoss
  <1> USE DEF SafetyInv, StepSafe, WorkerSafe
  <1>1. CASE PublishRename
    BY <1>1 DEF PublishRename, SetData
  <1>2. CASE DataSync("rename_sync", "previous")
    BY <1>2 DEF DataSync
  <1>3. CASE \/ KeepStaging \/ KeepCopy \/ ClearTarget
             \/ DataSync("keep_staging_sync", "keep_copy")
             \/ DataSync("keep_copy_sync", "clear_target")
             \/ DataSync("clear_target_sync", "clear_target")
    BY <1>3 DEF KeepStaging, KeepCopy, ClearTarget, DataSync, SourceSteps
  <1>4. CASE SpawnCopy \/ SpawnInitdb \/ Seal
    BY <1>4 DEF SpawnCopy, SpawnInitdb, Seal, BuildSteps, TreeSteps
  <1>5. CASE WorkerDone
    BY <1>5 DEF WorkerDone
  <1>6. CASE UNCHANGED <<parent, stage, madeUnder, synced>> \/ PowerLoss
    BY <1>6
  <1> QED
    BY <1>1, <1>2, <1>3, <1>4, <1>5, <1>6
       DEF AuthorityNext, AdoptCluster, Upgrade, authorityVars, disk, AdoptBegin,
           AdoptWrite, AdoptSync, UpgradeStart, UpgradeResume, JournalBuilding,
           StateSync, SpawnOther, JournalReady, PublishPrevious, PublishIdentity,
           PublishUnlink, WorkerFail, Serve, LegacyServe, SaveWrite, ServerStop,
           PolicyChange, OpKill, ServerKill

\* Records follow what is visible, and only one upgrade ever gets to a ready
\* journal (publish_leased).
LEMMA NoneAheadNext ==
    ASSUME TypeInv, SafetyInv, RecordInv, [AuthorityNext]_authorityVars
    PROVE  NoneAhead'
  <1> USE DEF SafetyInv, RecordInv
  <1>1. Journal.phase = "ready" => Journal.tree \in Trees
    BY ConstantsTyped
       DEF TypeInv, AuthorityTypeOK, Directory, StateImages, UpgradeJournals, NoUpgrade,
           Journal
  <1>2. CASE UNCHANGED state
    BY <1>2 DEF NoneAhead, Identity, Journal
  <1>3. CASE \E s \in state.may \cup {state.now} : state' = Settled(s)
    <2>1. PICK s \in state.may : state'.now = s /\ state'.may = {s}
      BY <1>3 DEF Settled, NowOnDisk
    <2> QED BY <2>1 DEF NoneAhead, Identity, Journal, ImagesSafe, ImageSafe
  <1>4. CASE command.pc = "adopt" /\ Written
    <2>1. /\ Identity = Unregistered /\ Journal = NoUpgrade /\ Unregistered \notin Trees
          /\ 0 \notin Trees
      BY <1>4
         DEF StepSafe, ImagesSafe, ImageSafe, NowOnDisk, Identity, Journal, Trees,
             Unregistered
    <2> QED BY <1>4, <2>1 DEF Written, NoneAhead, Identity, Journal, NoUpgrade
  <1>5. CASE command.pc = "journal" /\ Written
    <2>1. Identity = 0 /\ Journal.phase # "ready" /\ 0 \notin Trees
      BY <1>5 DEF StepSafe, UpgradeSafe, SourceSteps, Trees
    <2> QED BY <1>5, <2>1 DEF Written, NoneAhead, Identity, Journal
  <1>6. CASE command.pc = "ready" /\ Written
    <2>1. /\ Identity = 0 /\ Journal.phase = "building" /\ 0 \notin Trees
          /\ state.may = {state.now}
      BY <1>6 DEF StepSafe, BuildSteps, TreeSteps, SettledBuilding, Trees
    <2> QED BY <1>6, <2>1 DEF Written, NoneAhead, Identity, Journal
  <1>7. CASE command.pc = "previous" /\ Written
    <2>1. Journal.phase = "ready"
      BY <1>7 DEF StepSafe, PublishSteps
    <2> QED BY <1>7, <2>1 DEF Written, NoneAhead, Identity, Journal, NowOnDisk
  <1>8. CASE command.pc = "identity" /\ Written
    <2>1. Journal.phase = "ready"
      BY <1>8 DEF StepSafe, PublishSteps
    <2> QED BY <1>1, <1>8, <2>1 DEF Written, NoneAhead, Identity, Journal
  <1>9. CASE command.pc = "unlink" /\ Written
    <2>1. Journal.phase = "ready" /\ Identity = Journal.tree
      BY <1>9 DEF StepSafe, PublishSteps
    <2> QED BY <1>1, <1>9, <2>1 DEF Written, NoneAhead, Identity, Journal, NoUpgrade
  <1> QED BY <1>2, <1>3, <1>4, <1>5, <1>6, <1>7, <1>8, <1>9, StateChanges DEF Written

\* A recorded tree stays there, whole, and as it was made (publish_leased).
LEMMA RecordsNext ==
    ASSUME TypeInv, SafetyInv, RecordInv, [AuthorityNext]_authorityVars
    PROVE  RecordsSafe'
  <1> USE DEF SafetyInv, RecordInv
  <1> DEFINE Kept(s) ==
        /\ s.identity \in Trees =>
              /\ \A d \in parent'.may \cup {parent'.now} : d.target = s.identity
              /\ stage'[s.identity] = "valid" /\ s.identity \in synced'
        /\ s.journal.phase = "ready" =>
              /\ \A d \in parent'.may \cup {parent'.now} : s.journal.tree \in {d.target, d.staging}
              /\ stage'[s.journal.tree] = "valid" /\ s.journal.tree \in synced'
              /\ madeUnder'[s.journal.tree] = s.journal.policy
  <1>1. ASSUME NEW s \in state.may
        PROVE  Kept(s)
    <2>1. RecordSafe(s)
      BY DEF RecordsSafe
    <2>2. CASE UNCHANGED <<parent, stage, madeUnder, synced>>
      BY <2>1, <2>2 DEF RecordSafe, InTarget, InParent, Whole
    <2>3. CASE command.pc \in SourceSteps \/ SettledBuilding
      <3>1. Identity = 0 /\ Journal.phase # "ready" /\ 0 \notin Trees
        BY <2>3 DEF StepSafe, UpgradeSafe, SettledBuilding, Trees
      <3> QED BY <3>1 DEF NoneAhead
    <2>4. CASE /\ command.pc = "rename" /\ UNCHANGED <<state, stage, madeUnder, synced>>
               /\ Publishable /\ parent.now.staging # NoTree
               /\ parent' = Changed(parent, [parent.now EXCEPT !.target = Candidate, !.staging = NoTree])
      <3>1. /\ parent.now \in DataImages
            /\ parent'.now = [parent.now EXCEPT !.target = Candidate, !.staging = NoTree]
            /\ parent'.may = parent.may \cup {parent'.now}
        BY <2>4 DEF Changed, TypeInv, AuthorityTypeOK, Directory
      <3>4. parent'.now.target = Journal.tree
        BY <2>4, <3>1 DEF Publishable, DataImages
      <3>5. parent.now.target = NoTree /\ NoTree \notin Trees /\ Journal.phase = "ready"
        BY <2>4 DEF Publishable, StepSafe, PublishSteps, NoTree, Trees
      <3>2. s.identity \notin Trees
        BY <2>1, <3>5 DEF RecordSafe, InTarget
      <3>3. s.journal.phase = "ready" => s.journal.tree = Journal.tree
        BY <3>5 DEF NoneAhead
      <3> QED BY <2>1, <2>4, <3>1, <3>2, <3>3, <3>4 DEF RecordSafe, InParent, Whole
    <2>5. CASE /\ command.pc = "rename_sync" /\ UNCHANGED <<state, stage, madeUnder, synced>>
               /\ parent' = Synced(parent)
      BY <2>1, <2>5 DEF RecordSafe, InTarget, InParent, Whole, Synced, Settled
    <2>6. CASE PowerLoss
      <3>1. PICK d \in parent.may : parent' = Settled(d)
        BY <2>6 DEF PowerLoss, AfterLoss
      <3>2. UNCHANGED <<madeUnder, synced>> /\ \A n \in Trees : n \in synced => stage'[n] = stage[n]
        BY <2>6 DEF PowerLoss, TypeInv, AuthorityTypeOK
      <3>3. s.journal.phase = "ready" => s.journal.tree \in Trees
        BY DEF TypeInv, AuthorityTypeOK, Directory, StateImages, UpgradeJournals,
               NoUpgrade
      <3> QED BY <2>1, <3>1, <3>2, <3>3 DEF RecordSafe, InTarget, InParent, Whole, Settled
    <2> QED BY <2>2, <2>3, <2>4, <2>5, <2>6, TreeChanges
  <1>2. ASSUME NEW s \in state'.may PROVE Kept(s)
    <2>1. CASE s \in state.may
      BY <1>1, <2>1
    <2>2. CASE s \notin state.may
      <3>1. /\ Written /\ s = state'.now /\ UNCHANGED <<parent, stage, madeUnder, synced>>
            /\ command.pc \in {"adopt", "journal", "ready", "previous", "identity", "unlink"}
        BY <2>2, StateChanges DEF Settled, Written, NowOnDisk
      <3>2. RecordSafe(state.now) /\ state.now \in StateImages
        BY DEF RecordsSafe, NowOnDisk, TypeInv, AuthorityTypeOK, Directory
      <3> HIDE DEF Kept
      <3>4. CASE command.pc = "adopt"
        <4>1. Identity = Unregistered /\ Journal = NoUpgrade
          BY <3>4 DEF StepSafe, ImagesSafe, ImageSafe, NowOnDisk, Identity, Journal
        <4>2. s.identity = 0 /\ s.journal = NoUpgrade /\ 0 \notin Trees
          BY <3>1, <3>4, <4>1 DEF Written, Trees
        <4> QED BY <4>2 DEF Kept, NoUpgrade
      <3>5. CASE command.pc = "journal"
        <4>1. s.identity = 0 /\ s.journal.phase = "building" /\ 0 \notin Trees
          BY <3>1, <3>5 DEF Written, StepSafe, SourceSteps, Trees
        <4> QED BY <4>1 DEF Kept
      <3>6. CASE command.pc = "ready"
        <4>1. /\ s.identity = 0 /\ s.journal.tree = command.tree /\ s.journal.policy = command.policy
              /\ 0 \notin Trees
          BY <3>1, <3>6
             DEF Written, StepSafe, BuildSteps, TreeSteps, SettledBuilding, Trees
        <4> QED BY <3>1, <3>6, <4>1 DEF Kept, UpgradeSafe, Whole, InParent
      <3>7. CASE command.pc = "previous"
        <4>1. s.identity = Identity /\ s.journal = Journal
          BY <3>1, <3>7 DEF Written
        <4> QED BY <3>1, <3>2, <4>1
                   DEF Kept, RecordSafe, InTarget, InParent, Whole, Identity, Journal
      <3>8. CASE command.pc = "identity"
        <4>1. s.identity = Journal.tree /\ s.journal = Journal
          BY <3>1, <3>8 DEF Written
        <4>2. InTarget(Journal.tree) /\ Journal.phase = "ready"
          BY <3>8 DEF UpgradeSafe, TargetSteps, StepSafe, PublishSteps
        <4> QED BY <3>1, <3>2, <4>1, <4>2
                   DEF Kept, RecordSafe, InTarget, InParent, Whole, Journal
      <3>9. CASE command.pc = "unlink"
        <4>1. s.identity = Identity /\ s.journal = NoUpgrade
          BY <3>1, <3>9 DEF Written
        <4> QED BY <3>1, <3>2, <4>1
                   DEF Kept, RecordSafe, InTarget, Whole, Identity, NoUpgrade
      <3> QED BY <3>1, <3>4, <3>5, <3>6, <3>7, <3>8, <3>9
    <2> QED BY <2>1, <2>2
  <1> QED BY <1>2 DEF RecordsSafe, RecordSafe, InTarget, InParent, Whole

\* What the running upgrade knows of its tree (seal, sync_tree, publish_leased).
\* The flush of a tree commits its name: the only step that needs it is Seal.
LEMMA UpgradeNext ==
    ASSUME TypeInv, SafetyInv, RecordInv, [AuthorityNext]_authorityVars, FsyncCommitsName
    PROVE  UpgradeSafe'
  <1> USE DEF SafetyInv, RecordInv
  <1>1. CASE command'.pc = "idle"
    BY <1>1 DEF UpgradeSafe, SourceSteps, ManagedSteps, PublishSteps, TargetSteps
  <1>2. CASE /\ UNCHANGED <<state, parent, stage, madeUnder, synced, command>>
             /\ policy <= policy'
    <2>1. policy \in Int /\ policy' \in Int /\ command.policy \in Int
      BY NextTyped DEF TypeInv, AuthorityTypeOK, Policies
    <2> QED BY <1>2, <2>1
               DEF UpgradeSafe, InTarget, InParent, Whole, Journal, Identity, OpTyped,
                              TypeInv, AuthorityTypeOK, Policies, OwnsTree, TreeSteps
  <1>3. ASSUME UNCHANGED policy,
               command'.pc \in SourceSteps \cup {"copy", "initdb", "pg_upgrade", "validate"},
               command'.policy <= policy, command'.pc \in SourceSteps => Journal'.phase # "ready"
        PROVE  UpgradeSafe'
    BY <1>3 DEF UpgradeSafe, SourceSteps, PublishSteps, TargetSteps
  <1>4. /\ command.pc \in ManagedSteps => command.policy <= policy
        /\ command.pc \in SourceSteps => Journal.phase # "ready"
        /\ policy \in Int /\ command.pc \in UpgradeSteps
        /\ SourceSteps \subseteq ManagedSteps /\ BuildSteps \subseteq ManagedSteps
    BY
       DEF UpgradeSafe, TypeInv, AuthorityTypeOK, Policies, SourceSteps, BuildSteps,
           TreeSteps, ManagedSteps, UpgradeSteps
  <1>5. CASE AdoptBegin \/ AdoptWrite \/ AdoptSync
    <2>1. command'.pc \in {"adopt", "adopt_sync", "idle"}
      BY <1>5 DEF AdoptBegin, AdoptWrite, AdoptSync, Goto, AtRest, TypeInv,
                  AuthorityTypeOK
    <2> QED BY <2>1 DEF UpgradeSafe, SourceSteps, ManagedSteps, PublishSteps, TargetSteps
  <1>6. CASE UpgradeStart
    BY <1>3, <1>4, <1>6 DEF UpgradeStart, disk, Journal, NoUpgrade, SourceSteps
  <1>7. CASE \E retry \in BOOLEAN : UpgradeResume(retry)
    BY <1>4, <1>7
       DEF UpgradeResume, SameIntent, disk, Journal, UpgradeSafe, SourceSteps,
           PublishSteps, TargetSteps
  <1>8. CASE \/ KeepStaging \/ DataSync("keep_staging_sync", "keep_copy")
             \/ KeepCopy \/ DataSync("keep_copy_sync", "clear_target")
             \/ ClearTarget \/ DataSync("clear_target_sync", "clear_target")
    <2>1. /\ command.pc \in SourceSteps /\ UNCHANGED <<state, policy>>
          /\ command' = AtRest \/ (command' = [command EXCEPT !.pc = command'.pc] /\ command'.pc \in SourceSteps)
      BY <1>8
         DEF KeepStaging, KeepCopy, ClearTarget, DataSync, Goto, Fail, SourceSteps,
             TypeInv, AuthorityTypeOK
    <2> QED BY <1>1, <1>3, <1>4, <2>1 DEF AtRest, Journal, TypeInv, AuthorityTypeOK
  <1>9. CASE JournalBuilding
    <2>1. /\ command.pc \in SourceSteps /\ UNCHANGED policy /\ Journal'.phase = "building"
          /\ command' = [command EXCEPT !.pc = "journal_sync"]
      BY <1>9, StateChanges
         DEF JournalBuilding, Goto, SourceSteps, Journal, SetState, Changed, TypeInv,
             AuthorityTypeOK, Directory, StateImages
    <2> QED BY <1>3, <1>4, <2>1 DEF TypeInv, AuthorityTypeOK, SourceSteps
  <1>10. CASE StateSync("journal_sync", "copy") \/ SpawnCopy \/ SpawnInitdb \/ SpawnOther
    <2>1. /\ command.pc \in SourceSteps \cup BuildSteps /\ UNCHANGED policy
          /\ command'.pc \in {"copy", "initdb", "pg_upgrade", "validate"} /\ command'.policy = command.policy
      BY <1>10
         DEF StateSync, SpawnCopy, SpawnInitdb, SpawnOther, Goto, SourceSteps, BuildSteps,
             TreeSteps, TypeInv, AuthorityTypeOK
    <2> QED BY <1>3, <1>4, <2>1 DEF SourceSteps
  <1>11. CASE WorkerDone
    <2>1. CASE command.pc = "idle"
      BY <1>1, <1>11, <2>1 DEF WorkerDone
    <2>2. CASE command.pc # "idle" /\ command.pc # "validate"
      <3>1. /\ command.pc = upgrader /\ upgrader \in {"copy", "initdb", "pg_upgrade"}
            /\ UNCHANGED policy
            /\ command' = [command EXCEPT !.pc = NextJob[upgrader]]
        BY <1>11, <2>2 DEF WorkerDone, Goto, TypeInv, OpTyped, AuthorityTypeOK, Jobs
      <3>2. /\ command'.pc \in {"initdb", "pg_upgrade", "validate"} /\ command'.policy = command.policy
            /\ command.pc \in BuildSteps
        BY <3>1 DEF NextJob, TypeInv, AuthorityTypeOK, BuildSteps, TreeSteps
      <3> QED BY <1>3, <1>4, <3>1, <3>2 DEF SourceSteps
    <2>3. CASE command.pc = "validate"
      <3>1. /\ upgrader = "validate" /\ UNCHANGED <<policy, state>>
            /\ command' = [command EXCEPT !.pc = "seal"]
        BY <1>11, <2>3 DEF WorkerDone, Goto, TypeInv, OpTyped, NextJob
      <3>2. /\ parent.now.staging = command.tree /\ command.tree \in Trees /\ NoTree \notin Trees
            /\ command.policy <= policy
        BY <1>4, <2>3
           DEF StepSafe, OwnsTree, TreeSteps, TypeInv, OpTyped, BuildSteps, NoTree, Trees
      <3>3. /\ stage' = [stage EXCEPT ![command.tree] = "valid"]
            /\ madeUnder' = [madeUnder EXCEPT ![command.tree] = policy]
        BY <1>11, <3>1, <3>2 DEF WorkerDone
      <3>4. /\ command'.pc = "seal" /\ command'.tree = command.tree /\ command'.policy = command.policy
            /\ stage'[command.tree] = "valid" /\ madeUnder'[command.tree] = policy
        BY <3>1, <3>2, <3>3 DEF TypeInv, AuthorityTypeOK
      <3> QED BY <1>4, <3>1, <3>2, <3>4
                 DEF UpgradeSafe, SourceSteps, PublishSteps, TargetSteps
    <2> QED BY <2>1, <2>2, <2>3
  <1>12. CASE Seal
    <2>1. CASE Stopped(command.tree) /\ saves[0] = command.digest /\ SameContract
      <3>1. /\ command' = [command EXCEPT !.pc = "ready"]
            /\ UNCHANGED <<state, stage, madeUnder, policy>>
            /\ synced' = synced \cup {command.tree} /\ parent' = Synced(parent)
            /\ command.pc = "seal" /\ policy = command.policy
        BY <1>12, <2>1 DEF Seal, Goto, SameContract
      <3>2. /\ parent.now.staging = command.tree /\ command.tree \in Trees /\ command.policy <= policy
            /\ stage[command.tree] = "valid" /\ madeUnder[command.tree] = command.policy
        BY <1>4, <3>1
           DEF StepSafe, OwnsTree, TreeSteps, TypeInv, AuthorityTypeOK, OpTyped,
               BuildSteps, UpgradeSafe, Policies
      <3>3. /\ command'.pc = "ready" /\ command'.tree = command.tree /\ command'.policy = command.policy
            /\ parent'.now = parent.now /\ parent'.may = {parent.now}
        BY <3>1 DEF TypeInv, AuthorityTypeOK, Synced, Settled
      <3> QED BY <1>4, <3>1, <3>2, <3>3
              DEF UpgradeSafe, Whole, InParent, SourceSteps, PublishSteps, TargetSteps
    <2>2. CASE command' = AtRest
      BY <1>1, <2>2 DEF AtRest
    <2> QED BY <1>12, <2>1, <2>2 DEF Seal, Fail
  <1>13. CASE JournalReady
    <2>1. /\ command' = [command EXCEPT !.pc = "ready_sync"] /\ command.pc = "ready" /\ UNCHANGED policy
          /\ Journal'.policy = command.policy
      BY <1>13
         DEF JournalReady, Goto, Journal, SetState, Changed, TypeInv, AuthorityTypeOK,
             Directory, StateImages
    <2>2. command'.pc = "ready_sync" /\ command'.policy = command.policy /\ command.policy <= policy
      BY <1>4, <2>1 DEF TypeInv, AuthorityTypeOK, BuildSteps, TreeSteps
    <2> QED BY <2>1, <2>2 DEF UpgradeSafe, SourceSteps, PublishSteps, TargetSteps
  <1>14. ASSUME command.pc \in PublishSteps
         PROVE  command.policy <= policy /\ command.policy = Journal.policy
    BY <1>14 DEF UpgradeSafe, PublishSteps, ManagedSteps, UpgradeSteps
  <1>15. CASE StateSync("ready_sync", "rename")
    <2>1. /\ command'.pc = "rename" /\ command'.policy = command.policy /\ command.pc \in PublishSteps
          /\ UNCHANGED policy /\ Journal' = Journal
      BY <1>15
         DEF StateSync, Goto, TypeInv, AuthorityTypeOK, PublishSteps, Synced, Settled,
             Journal
    <2> QED BY <1>14, <2>1 DEF UpgradeSafe, SourceSteps, PublishSteps, TargetSteps
  <1>16. CASE PublishRename
    <2>1. CASE ~Publishable
      BY <1>1, <1>16, <2>1 DEF PublishRename, Fail, AtRest
    <2>2. CASE Publishable
      <3>1. /\ command'.pc = "rename_sync" /\ command'.policy = command.policy /\ command.pc \in PublishSteps
            /\ UNCHANGED policy /\ Journal' = Journal
        BY <1>16, <2>2
           DEF PublishRename, Goto, TypeInv, AuthorityTypeOK, PublishSteps, Journal
      <3>2. parent'.now.target = Journal.tree
        <4>1. CASE parent.now.staging # NoTree
          <5>1. /\ parent.now \in DataImages /\ Candidate = Journal.tree
                /\ parent'.now = [parent.now EXCEPT !.target = Candidate, !.staging = NoTree]
            BY <1>16, <2>2, <4>1
               DEF PublishRename, Publishable, SetData, Changed, TypeInv,
                   AuthorityTypeOK, Directory
          <5> QED BY <5>1 DEF DataImages
        <4>2. CASE parent.now.staging = NoTree
          BY <1>16, <2>2, <4>2 DEF PublishRename, Publishable, Candidate
        <4> QED BY <4>1, <4>2
      <3> QED BY <1>14, <3>1, <3>2 DEF UpgradeSafe, SourceSteps, PublishSteps, TargetSteps
    <2> QED BY <2>1, <2>2
  <1>17. CASE DataSync("rename_sync", "previous")
    <2>1. /\ command'.pc = "previous" /\ command'.policy = command.policy /\ command.pc \in PublishSteps
          /\ command.pc = "rename_sync"
          /\ UNCHANGED policy /\ Journal' = Journal /\ parent'.now = parent.now
               /\ parent'.may = {parent.now}
      BY <1>17
         DEF DataSync, Goto, TypeInv, AuthorityTypeOK, PublishSteps, Synced, Settled,
             Journal
    <2> QED BY <1>14, <2>1 DEF UpgradeSafe, InTarget, SourceSteps, PublishSteps,
                               TargetSteps
  <1>18. CASE \/ PublishPrevious \/ StateSync("previous_sync", "identity")
              \/ PublishIdentity \/ StateSync("identity_sync", "unlink")
    <2>1. /\ command.pc \in TargetSteps \ {"unlink"} /\ command' = [command EXCEPT !.pc = command'.pc]
          /\ command'.pc \in TargetSteps /\ UNCHANGED <<policy, parent>> /\ Journal' = Journal
      BY <1>18
         DEF PublishPrevious, PublishIdentity, StateSync, Goto, TypeInv,
             AuthorityTypeOK, TargetSteps, Synced, Settled, Journal, SetState, Changed,
             Directory, StateImages
    <2>2. command'.policy = command.policy /\ command.pc \in PublishSteps
      BY <2>1 DEF TypeInv, AuthorityTypeOK, PublishSteps, TargetSteps
    <2> QED BY <1>14, <2>1, <2>2
               DEF UpgradeSafe, InTarget, SourceSteps, PublishSteps, TargetSteps
  <1>19. CASE PublishUnlink
    <2>1. /\ command'.pc = "unlink_sync" /\ command'.policy = command.policy /\ command.pc \in PublishSteps
          /\ UNCHANGED policy
      BY <1>19 DEF PublishUnlink, Goto, TypeInv, AuthorityTypeOK, PublishSteps
    <2> QED BY <1>14, <2>1 DEF UpgradeSafe, SourceSteps, PublishSteps, TargetSteps
  <1>20. CASE \/ StateSync("unlink_sync", "idle") \/ WorkerFail \/ OpKill \/ PowerLoss
    BY <1>1, <1>20 DEF StateSync, WorkerFail, Fail, OpKill, PowerLoss, AtRest
  <1>21. CASE \/ Serve \/ LegacyServe \/ SaveWrite \/ ServerStop \/ PolicyChange \/ ServerKill
              \/ UNCHANGED authorityVars
    BY <1>2, <1>4, <1>21
       DEF Serve, LegacyServe, SaveWrite, ServerStop, PolicyChange, ServerKill,
           authorityVars, disk, procs
  <1> QED
    BY <1>5, <1>6, <1>7, <1>8, <1>9, <1>10, <1>11, <1>12, <1>13, <1>15, <1>16, <1>17, <1>18,
       <1>19, <1>20, <1>21
       DEF AuthorityNext, AdoptCluster, Upgrade

\* The records are sound in every behaviour.
LEMMA RecordInvariance ==
    ASSUME FsyncCommitsName
    PROVE  AuthoritySpec => [](TypeInv /\ SafetyInv /\ RecordInv)
  <1>1. AuthorityInit => RecordInv
    BY InitRecord
  <1>2. TypeInv /\ SafetyInv /\ RecordInv /\ [AuthorityNext]_authorityVars => RecordInv'
    BY RecordsNext, NoneAheadNext, UpgradeNext DEF RecordInv
  <1> QED BY <1>1, <1>2, Invariance, PTL DEF AuthoritySpec

\* Whatever a power loss leaves, a record finds the tree it names, validated and
\* flushed, where the fsync of a tree commits its name (publish_leased,
\* sync_tree).
THEOREM RecordedTreesFound ==
    ASSUME FsyncCommitsName
    PROVE  AuthoritySpec => []RecordedTreeThere
  <1>1. TypeInv /\ SafetyInv /\ RecordInv => RecordedTreeThere
    BY
       DEF SafetyInv, NowOnDisk, RecordInv, RecordsSafe, RecordSafe, InTarget, InParent,
           Whole,
           RecordedTreeThere, AlwaysOnDisk
  <1> QED BY <1>1, RecordInvariance, PTL

\* The registered cluster was validated under the very policy its upgrade bound
\* (seal, publish_leased).
THEOREM ValidationBound ==
    ASSUME FsyncCommitsName
    PROVE  AuthoritySpec => BoundValidation
  <1> DEFINE Bound ==
        state'.now.identity # Identity /\ state'.now.identity \in Trees
          => /\ madeUnder[state'.now.identity] = Journal.policy
             /\ Journal.policy = command.policy
  <1>1. ASSUME TypeInv, SafetyInv, RecordInv, [AuthorityNext]_authorityVars
        PROVE  Bound
    <2> SUFFICES ASSUME state'.now.identity # Identity, state'.now.identity \in Trees
                 PROVE  /\ madeUnder[state'.now.identity] = Journal.policy
                        /\ Journal.policy = command.policy
      OBVIOUS
    <2>1. ~UNCHANGED state
      BY DEF Identity
    <2>2. ASSUME NEW s \in state.may \cup {state.now}, state' = Settled(s) PROVE FALSE
      <3>1. s \in state.may /\ s.identity \in Trees /\ s.identity # Identity
        BY <1>1, <2>2 DEF Settled, SafetyInv, NowOnDisk, Identity
      <3>2. Identity \in Trees
        BY <1>1, <3>1 DEF RecordInv, NoneAhead
      <3>3. InTarget(s.identity) /\ InTarget(Identity)
        BY <1>1, <3>1, <3>2
           DEF RecordInv, RecordsSafe, RecordSafe, SafetyInv, NowOnDisk, Identity
      <3> QED BY <3>1, <3>3 DEF InTarget
    <2>3. Written
      BY <1>1, <2>1, <2>2, StateChanges
    <2>4. command.pc = "identity" /\ state'.now.identity = Journal.tree
      BY <1>1, <2>3 DEF Written, Trees
    <2>5. Journal.phase = "ready" /\ command.policy = Journal.policy
      BY <1>1, <2>4 DEF SafetyInv, StepSafe, RecordInv, UpgradeSafe, PublishSteps
    <2> QED BY <1>1, <2>4, <2>5
               DEF RecordInv, RecordsSafe, RecordSafe, SafetyInv, NowOnDisk, Journal
  <1>2. TypeInv /\ SafetyInv /\ RecordInv /\ [AuthorityNext]_authorityVars => [Bound]_authorityVars
    BY <1>1
  <1>3. BoundValidation <=> [][Bound]_authorityVars
    BY DEF BoundValidation
  <1> QED BY <1>2, <1>3, RecordInvariance, PTL DEF AuthoritySpec
=============================================================================
