----------------------------- MODULE MCCustody -----------------------------
EXTENDS Custody, TLC

\* No file is asked for, or each with the same bytes.
NoneOrAll == {Empty} \cup {[r \in Roots |-> d] : d \in Data}

\* At first the contract names every root and the database its files.
MCCustodyInit ==
  /\ CustodyInit
  /\ contract = Roots
  /\ database.needs = corpus

MCCustodySpec == MCCustodyInit /\ [][CustodyNext]_custodyVars

\* Values, identifiers and directories are only compared with each other.
CustodyAlike == Permutations(Roots) \cup Permutations(Data) \cup Permutations(Identifiers)
=============================================================================
