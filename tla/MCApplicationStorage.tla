------------------------ MODULE MCApplicationStorage ------------------------
(***************************************************************************)
(* The captures of an application, and the custody of its roots.  The two  *)
(* share no variable: one is explored while the other rests in an initial  *)
(* state.                                                                  *)
(***************************************************************************)
EXTENDS MCApplicationCaptures, MCCustody

VARIABLE part  \* which of the two is explored

allVars == <<part, vars, custodyVars>>

CustodyRests ==
  /\ CustodyInit
  /\ ~consumer /\ contract = Roots /\ database.needs = Empty
  /\ \A r, s \in Roots : r # s => corpus[r] # corpus[s]

PartsInit ==
  \/ part = "captures" /\ Init /\ CustodyRests
  \/ part = "custody" /\ Init /\ MCCustodyInit

PartsNext ==
  \/ part = "captures" /\ Next /\ UNCHANGED <<part, custodyVars>>
  \/ part = "custody" /\ CustodyNext /\ UNCHANGED <<part, vars>>

PartsSpec == PartsInit /\ [][PartsNext]_allVars

\* Bytes and Data may be the same values: the parts compare none with another's.
Alike == Interchangeable \cup CustodyAlike
=============================================================================
