---------------------------- MODULE MCSupervisor ----------------------------
(***************************************************************************)
(* A run of two cases, the second of which needs the first.                *)
(***************************************************************************)
EXTENDS Supervisor

MCNeeds == <<{}, {1}>>
=============================================================================
