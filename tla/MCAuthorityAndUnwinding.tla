---------------------- MODULE MCAuthorityAndUnwinding ----------------------
(***************************************************************************)
(* The authority over one primary, and the unwinding of a rollout the      *)
(* operator gave up: the two components whose liveness is checked.  They   *)
(* share no variable: one is explored while the other rests in an initial  *)
(* state, and each keeps its own fairness.                                 *)
(***************************************************************************)
EXTENDS PrimaryAuthority, Rollout

VARIABLE part  \* which of the two is explored

allVars == <<part, authorityVars, vars>>

OfAuthority(A) == part = "authority" /\ A /\ UNCHANGED <<part, vars>>
OfRollout(A) == part = "rollout" /\ A /\ UNCHANGED <<part, authorityVars>>

PartsInit ==
    /\ AuthorityInit /\ Init
    /\ \/ part = "authority" /\ running = Units
       \/ part = "rollout" /\ parent.now.target = NoTree

PartsNext == OfAuthority(AuthorityNext) \/ OfRollout(Next)

PartsFairness ==
    /\ WF_allVars(OfAuthority(Upgrade)) /\ WF_allVars(OfAuthority(WorkerDone \/ WorkerFail))
    /\ WF_allVars(OfRollout(Step)) /\ WF_allVars(OfRollout(Worker))
    /\ SF_allVars(OfRollout(ForeignClose))
    /\ WF_allVars(OfRollout(gaveUp /\ (Abort \/ AbortLost \/ Begin("thaw", {}))))
    /\ WF_allVars(OfRollout(gaveUp /\ Activate(FALSE)))
    /\ WF_allVars(OfRollout(gaveUp /\ booted /\ ~profile /\ Reboot))

PartsSpec == PartsInit /\ [][PartsNext]_allVars /\ PartsFairness
=============================================================================
