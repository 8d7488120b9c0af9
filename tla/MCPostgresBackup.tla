-------------------------- MODULE MCPostgresBackup --------------------------
(***************************************************************************)
(* The backup repository as its programs change it, and the verdict on its *)
(* WAL over every archive of three timelines.  The two share no variable:  *)
(* one is explored while the other rests in one initial state.             *)
(***************************************************************************)
EXTENDS BackupRepository, MCWalChain

VARIABLE part  \* which of the two is explored

allVars == <<part, vars, archiveVars>>

RepositoryRests == Init /\ mode = "meta"

ArchiveRests ==
  /\ ArchiveInit /\ target = NoTarget /\ histories = Descent(1, 1)
  /\ base = [t |-> 1, start |-> 0, stop |-> 1, cluster |-> OurCluster]

PartsInit ==
  \/ part = "repository" /\ Init /\ ArchiveRests
  \/ part = "archive" /\ RepositoryRests /\ ArchiveInit

PartsNext ==
  \/ part = "repository" /\ Next /\ UNCHANGED <<part, archiveVars>>
  \/ part = "archive" /\ ArchiveNext /\ UNCHANGED <<part, vars>>

PartsSpec == PartsInit /\ [][PartsNext]_allVars
=============================================================================
