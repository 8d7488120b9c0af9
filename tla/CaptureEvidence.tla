--------------------------- MODULE CaptureEvidence ---------------------------
(***************************************************************************)
(* What a consumer of source-local captures may rely on, without carriers, *)
(* locks and crashes: a capture identifier stands for one promise, fixed   *)
(* when it is made; one capture is selected; an identifier that has been   *)
(* retired is neither selected nor ever promised again.                    *)
(* CaptureRepository implements it.                                        *)
(***************************************************************************)
CONSTANTS Captures, Promises, Nothing  \* Nothing is none of the others

VARIABLES promise,   \* what each capture stands for
          selected,  \* the capture recovery uses, or Nothing
          retired

evidence == <<promise, selected, retired>>

Init ==
  /\ promise = [c \in Captures |-> Nothing]
  /\ selected = Nothing
  /\ retired = {}

Promise(c) ==
  /\ promise[c] = Nothing /\ c \notin retired
  /\ \E p \in Promises : promise' = [promise EXCEPT ![c] = p]
  /\ UNCHANGED <<selected, retired>>

Select(c) ==
  /\ promise[c] # Nothing /\ c \notin retired
  /\ selected' = c
  /\ UNCHANGED <<promise, retired>>

\* A retired identifier stands for nothing.
Retire(c) ==
  /\ c # selected /\ promise[c] # Nothing
  /\ retired' = retired \cup {c}
  /\ promise' = [promise EXCEPT ![c] = Nothing]
  /\ UNCHANGED selected

Next == \E c \in Captures : Promise(c) \/ Select(c) \/ Retire(c)

Spec == Init /\ [][Next]_evidence
=============================================================================
