----------------------- MODULE MCApplicationCaptures -----------------------
EXTENDS ApplicationCaptures, TLC

\* Contents are only compared with each other.
Interchangeable == Permutations(Bytes)
=============================================================================
