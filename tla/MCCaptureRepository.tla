------------------------- MODULE MCCaptureRepository -------------------------
(***************************************************************************)
(* A small repository for TLC.  Captures are interchangeable.              *)
(***************************************************************************)
EXTENDS CaptureRepository, TLC

Symmetry == Permutations(Captures)
=============================================================================
