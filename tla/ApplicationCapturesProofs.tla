---------------------- MODULE ApplicationCapturesProofs ----------------------
(***************************************************************************)
(* Theorems of ApplicationCaptures for any attempts, contents, clocks,     *)
(* deployments, kills and retention: LAST_SUCCESS names a whole point, a   *)
(* point is what was restored, a retry finds its tree, and a prune never   *)
(* stops the next one.  Then those of Custody, for any roots, contents,    *)
(* requirements, identifiers and bounds: an admission lets pass what was   *)
(* certified and what the database asks for, and an identity stands.       *)
(***************************************************************************)
EXTENDS ApplicationCaptures, Custody, TLAPS

Contents == Bytes \cup {Part}
Points == [bytes : Contents, at : 0..MaxClock, tools : 0..MaxTools, artifacts : Contents,
           restored : Contents]
Intents == [tools : 1..MaxTools, origin : Trees] \cup {NoIntent}

\* Where a capture is: before its point is published, and after.
Abandoning == {"credentials", "abandon", "journal"}
Preparing == {"worker", "staging", "workspace", "capture"}
Sealing == {"seal", "copy", "sealed"}
Closing == {"cleanup", "workspace-out"}
Unpublished == {"drain", "restore", "certify", "publish"}
                 \cup Abandoning \cup Preparing \cup Sealing \cup Closing
Capturing == Unpublished \cup {"mark", "finish"}

Ops == [pc : Capturing \cup {"idle", "prune"}, a : Attempts \cup {0}, tools : 0..MaxTools,
        at : 0..MaxClock, artifacts : Contents, restored : Contents, ok : BOOLEAN,
        todo : SUBSET (Attempts \X Names)]

TypeInv ==
  /\ tools \in 1..MaxTools /\ clock \in 1..MaxClock /\ kills \in 0..MaxKills
  /\ entries \in [Attempts -> SUBSET Names]
  /\ intent \in [Attempts -> Intents]
  /\ staged \in [Attempts -> Contents] /\ seal \in [Attempts -> Contents]
  /\ point \in [Attempts -> Points]
  /\ last \in {None} \cup [attempt : Attempts, accepted : Points]
  /\ op \in Ops
  /\ op.pc \in Capturing => op.a \in Attempts /\ op.tools \in 1..MaxTools
  /\ dirty \in [Attempts -> Trees \cup {"no"}]
  /\ retired \in [Attempts -> BOOLEAN]

\* A published point is whole, and its workspace is drained.
PointSafe ==
  \A a \in Attempts : Has(a, "point") =>
    /\ point[a].bytes # Part
    /\ point[a].bytes = point[a].artifacts /\ point[a].bytes = point[a].restored
    /\ point[a].at <= clock
    /\ dirty[a] = "no"

\* A point is published once, and its seal is what was restored.
CaptureSafe ==
  /\ op.pc \in Unpublished => ~Has(op.a, "point")
  /\ op.pc \in {"mark", "finish"} => Has(op.a, "point")
  /\ op.at <= clock
  /\ op.pc \in Sealing \cup {"restore", "certify", "publish"}
       \/ (op.pc \in Closing /\ op.ok) => op.artifacts # Part
  /\ op.pc \in {"certify", "publish"} \/ (op.pc \in Closing /\ op.ok)
       => op.restored = seal[op.a]

Journaled(a) == Has(a, "workspace") /\ Has(a, "intent")
FromStaging(a) == intent[a].origin = "staging" /\ Has(a, "staging")
FromSeal(a) == intent[a].origin = "sealed" /\ Has(a, "sealed") /\ seal[a] # Part

\* The journal names a tree that is there whenever the workspace may be dirty.
WorkspaceSafe ==
  /\ \A a \in Attempts : dirty[a] # "no" /\ ~retired[a] =>
       Journaled(a) /\ ((FromStaging(a) /\ dirty[a] = "staging") \/ FromSeal(a))
  /\ op.pc \in Abandoning \cup Preparing => dirty[op.a] = "no" \/ retired[op.a]
  /\ op.pc \in {"workspace-out", "publish"} => dirty[op.a] = "no"
  /\ op.pc \in Preparing \cup Sealing =>
       Has(op.a, "intent") /\ intent[op.a].origin = "staging"
  /\ op.pc \in {"workspace", "capture"} \cup Sealing => Has(op.a, "staging")
  /\ op.pc \in {"capture", "restore"} \cup Sealing => Has(op.a, "workspace")
  /\ op.pc \in {"copy", "sealed"} => Has(op.a, "sealed")
  /\ op.pc = "sealed" => seal[op.a] # Part
  /\ op.pc = "restore" => Has(op.a, "intent") /\ FromSeal(op.a)

\* A prune removes what is being retired, and the scratch of points that stay.
PruneSafe ==
  op.pc = "prune" => \A e \in op.todo :
    /\ retired[e[1]] \/ Has(e[1], "point")
    /\ e[2] = "point" => e[1] # last.attempt

\* A name is captured once, and its tombstone is its last entry.
ReuseSafe ==
  /\ op.pc \in Capturing => ~retired[op.a]
  /\ \A a \in Attempts : Has(a, "tombstone") => retired[a]
  /\ \A a \in Attempts : Has(a, "point") => ~retired[a]

SafetyInv == PointSafe /\ CaptureSafe /\ WorkspaceSafe /\ PruneSafe /\ LastSuccessWhole

CaptureActions ==
  \/ Drain \/ RemoveCredentials \/ Abandon
  \/ Journal \/ Worker \/ Directory("staging", "workspace") \/ Directory("workspace", "capture")
  \/ Execute \/ OpenSeal \/ Copy \/ JournalSeal \/ Restore \/ Certify
  \/ Cleanup \/ RemoveWorkspace \/ Publish \/ Mark \/ Finish

-----------------------------------------------------------------------------

\* The invariant holds of an empty backup root with no program running.
LEMMA InitSafe == Init => TypeInv /\ SafetyInv /\ ReuseSafe
<1>1. SUFFICES ASSUME Init PROVE TypeInv /\ SafetyInv /\ ReuseSafe
  OBVIOUS
<1>2. 0 \in 0..MaxClock /\ 0 \in 0..MaxTools /\ 1 \in 1..MaxTools /\ 1 \in 1..MaxClock
      /\ 0 \in 0..MaxKills
  BY CapturesAssumption
<1>3. NoPoint \in Points /\ NoIntent \in Intents
  BY <1>2 DEF NoPoint, Points, NoIntent, Intents, Contents
<1>4. Idle \in Ops
  BY <1>2 DEF Idle, Ops, Contents
<1>5. TypeInv
  BY <1>1, <1>2, <1>3, <1>4 DEF Init, TypeInv, Contents, Idle, Capturing, Unpublished,
    Abandoning, Preparing, Sealing, Closing
<1>6. SafetyInv /\ ReuseSafe
  BY <1>1, CapturesAssumption DEF Init, SafetyInv, PointSafe, CaptureSafe, WorkspaceSafe,
    PruneSafe, LastSuccessWhole, ReuseSafe, Has, Idle, Capturing, Unpublished, Abandoning,
    Preparing, Sealing, Closing
<1> QED BY <1>5, <1>6

-----------------------------------------------------------------------------

\* The operations keep the types.
LEMMA TypeOfOps ==
  ASSUME TypeInv
  PROVE  /\ Idle \in Ops
         /\ \A pc \in Capturing : [op EXCEPT !.pc = pc] \in Ops
         /\ \A pc \in Capturing : [op EXCEPT !.pc = pc, !.ok = FALSE] \in Ops
<1>1. 0 \in 0..MaxClock /\ 0 \in 0..MaxTools
  BY CapturesAssumption
<1>2. Idle \in Ops
  BY <1>1 DEF Idle, Ops, Contents
<1>3. op \in Ops
  BY DEF TypeInv
<1> QED BY <1>2, <1>3 DEF Ops

\* Every action of a capture but Begin has an operation of the kind, and leaves
\* a state of the kind or none.
LEMMA CaptureKinds ==
  TypeInv /\ CaptureActions =>
    /\ op.pc \in Capturing /\ op.a \in Attempts /\ op.tools \in 1..MaxTools
    /\ op' = Idle \/ (op'.pc \in Capturing /\ op'.a = op.a /\ op'.tools = op.tools)
<1> USE DEF Capturing, Unpublished, Abandoning, Preparing, Sealing, Closing
<1>1. SUFFICES ASSUME TypeInv, CaptureActions
               PROVE  /\ op.pc \in Capturing
                      /\ op' = Idle \/ (op'.pc \in Capturing /\ op'.a = op.a
                                         /\ op'.tools = op.tools)
  BY DEF TypeInv
<1>2. op \in Ops
  BY <1>1 DEF TypeInv
<1>3. CASE Drain \/ RemoveCredentials \/ Abandon \/ Journal \/ Worker
  BY <1>2, <1>3
     DEF Drain, RemoveCredentials, Abandon, Journal, Worker, At, Goto, Return, Ops
<1>4. CASE Directory("staging", "workspace") \/ Directory("workspace", "capture")
  BY <1>2, <1>4 DEF Directory, At, Goto, Ops
<1>5. CASE Execute \/ OpenSeal \/ Copy \/ JournalSeal \/ Restore \/ Certify
  <2>1. CASE Execute
    BY <1>2, <2>1 DEF Execute, At, Fail, Ops
  <2>2. CASE OpenSeal \/ JournalSeal \/ Certify
    BY <1>2, <2>2 DEF OpenSeal, JournalSeal, Certify, At, Goto, Fail, Ops
  <2>3. CASE Copy
    BY <1>2, <2>3 DEF Copy, At, Goto, Fail, Ops
  <2>4. CASE Restore
    BY <1>2, <2>4 DEF Restore, At, Fail, Ops
  <2> QED BY <1>5, <2>1, <2>2, <2>3, <2>4
<1>6. CASE Cleanup \/ RemoveWorkspace \/ Publish \/ Mark \/ Finish
  BY <1>2, <1>6 DEF Cleanup, RemoveWorkspace, Publish, Mark, Finish, At, Goto, Return, Ops
<1> QED BY <1>1, <1>3, <1>4, <1>5, <1>6 DEF CaptureActions

\* Every step of a capture keeps the types; that the workspace is where the
\* program counter says gives the seal and the point their contents.
LEMMA TypeCapture == TypeInv /\ WorkspaceSafe /\ CaptureActions => TypeInv'
<1> USE CapturesAssumption
<1>1. SUFFICES ASSUME TypeInv, WorkspaceSafe, CaptureActions PROVE TypeInv'
  OBVIOUS
<1>2. op \in Ops /\ op.a \in Attempts /\ op.pc \in Capturing /\ op.tools \in 1..MaxTools
  BY <1>1, CaptureKinds DEF TypeInv
<1>3. op' \in Ops => (op'.pc \in Capturing => op'.a \in Attempts
                                               /\ op'.tools \in 1..MaxTools)
  BY <1>1, <1>2, CaptureKinds
     DEF Idle, Capturing, Unpublished, Abandoning, Preparing, Sealing,
    Closing
<1>4. tools' = tools /\ kills' = kills /\ retired' = retired
  BY <1>1 DEF CaptureActions, Drain, RemoveCredentials, Abandon, Journal, Worker, Directory,
    Execute, OpenSeal, Copy, JournalSeal, Restore, Certify, Cleanup, RemoveWorkspace, Publish,
    Mark, Finish, ghosts
<1> DEFINE Kept == /\ clock' \in 1..MaxClock /\ entries' \in [Attempts -> SUBSET Names]
                   /\ intent' \in [Attempts -> Intents]
                   /\ staged' \in [Attempts -> Contents] /\ seal' \in [Attempts -> Contents]
                   /\ point' \in [Attempts -> Points]
                   /\ last' \in {None} \cup [attempt : Attempts, accepted : Points]
                   /\ op' \in Ops /\ dirty' \in [Attempts -> Trees \cup {"no"}]
<1>5. SUFFICES Kept
  BY <1>1, <1>3, <1>4 DEF TypeInv
<1>6. Idle \in Ops /\ \A pc \in Capturing : [op EXCEPT !.pc = pc] \in Ops
                                             /\ [op EXCEPT !.pc = pc, !.ok = FALSE] \in Ops
  BY <1>1, TypeOfOps
<1>7. {"drain", "credentials", "abandon", "journal", "worker", "staging", "workspace", "capture",
       "seal", "copy", "sealed", "restore", "certify", "cleanup", "workspace-out", "publish",
       "mark", "finish"} = Capturing
  BY DEF Capturing, Unpublished, Abandoning, Preparing, Sealing, Closing
<1>8. Names = {"abandoned", "credentials", "intent", "staging", "workspace", "sealed", "point",
               "tombstone"}
  <2>1. DOMAIN Ordinary = 1..6 /\ Ordinary[1] = "abandoned" /\ Ordinary[2] = "credentials"
        /\ Ordinary[3] = "intent" /\ Ordinary[4] = "staging" /\ Ordinary[5] = "workspace"
        /\ Ordinary[6] = "sealed"
    BY DEF Ordinary
  <2>2. {Ordinary[i] : i \in 1..6} =
          {"abandoned", "credentials", "intent", "staging", "workspace", "sealed"}
    <3>1. \A i \in 1..6 : i = 1 \/ i = 2 \/ i = 3 \/ i = 4 \/ i = 5 \/ i = 6
      OBVIOUS
    <3> QED BY <2>1, <3>1
  <2> QED BY <2>1, <2>2 DEF Names
<1>9. NoIntent \in Intents /\ NoPoint \in Points /\ Part \in Contents
  BY DEF NoIntent, Intents, NoPoint, Points, Contents
<1>10. /\ clock \in 1..MaxClock /\ entries \in [Attempts -> SUBSET Names]
       /\ intent \in [Attempts -> Intents] /\ staged \in [Attempts -> Contents]
       /\ seal \in [Attempts -> Contents] /\ point \in [Attempts -> Points]
       /\ last \in {None} \cup [attempt : Attempts, accepted : Points]
       /\ dirty \in [Attempts -> Trees \cup {"no"}]
  BY <1>1 DEF TypeInv
<1>11. CASE Drain
  BY <1>2, <1>6, <1>7, <1>10, <1>11 DEF Drain, Goto, disk
<1>12. CASE RemoveCredentials
  BY <1>2, <1>6, <1>7, <1>8, <1>10, <1>12 DEF RemoveCredentials, Goto, ghosts
<1>13. CASE Abandon
  <2>1. ASSUME NEW name, Gone(op.a, name)
        PROVE  /\ entries' \in [Attempts -> SUBSET Names] /\ intent' \in [Attempts -> Intents]
               /\ staged' \in [Attempts -> Contents] /\ seal' \in [Attempts -> Contents]
               /\ point' \in [Attempts -> Points]
    BY <1>2, <1>9, <1>10, <2>1 DEF Gone
  <2> QED BY <1>2, <1>6, <1>7, <1>10, <1>13, <2>1 DEF Abandon, Goto, ghosts
<1>14. CASE Journal
  <2>1. [tools |-> op.tools, origin |-> "staging"] \in Intents
    BY <1>2 DEF Intents, Trees
  <2> QED BY <1>2, <1>6, <1>7, <1>8, <1>10, <1>14, <2>1 DEF Journal, Goto, Add, ghosts
<1>15. CASE Worker
  <2>1. CASE Return /\ clock' = clock
    BY <1>2, <1>6, <1>8, <1>10, <1>15, <2>1 DEF Worker, Return, ghosts
  <2>2. CASE Add(op.a, "credentials") /\ clock' \in 1..MaxClock
             /\ op' = [op EXCEPT !.pc = "staging", !.at = clock']
    <3>1. op' \in Ops
      <4>1. clock' \in 0..MaxClock /\ "staging" \in Capturing
        BY <1>7, <2>2
      <4> QED BY <1>2, <2>2, <4>1 DEF Ops
    <3> QED BY <1>2, <1>8, <1>10, <1>15, <2>2, <3>1 DEF Worker, Add, ghosts
  <2> QED BY <1>10, <1>15, <2>1, <2>2 DEF Worker
<1>16. CASE Directory("staging", "workspace") \/ Directory("workspace", "capture")
  <2>1. PICK name \in {"staging", "workspace"}, next \in {"workspace", "capture"} :
          Directory(name, next)
    BY <1>16
  <2>2. op' \in Ops
    BY <1>6, <1>7, <2>1 DEF Directory, Goto
  <2>3. entries' \in [Attempts -> SUBSET Names]
    BY <1>2, <1>8, <1>10, <2>1 DEF Directory, Add
  <2> QED BY <1>10, <2>1, <2>2, <2>3 DEF Directory, ghosts
<1>17. CASE Execute
  <2>1. \A bytes \in Bytes : [op EXCEPT !.pc = "seal", !.artifacts = bytes] \in Ops
    BY <1>2, <1>7 DEF Ops, Contents
  <2>2. op' \in Ops
    BY <1>6, <1>7, <1>17, <2>1 DEF Execute, Fail
  <2>3. staged' \in [Attempts -> Contents] /\ dirty' \in [Attempts -> Trees \cup {"no"}]
    <3>1. dirty' = [dirty EXCEPT ![op.a] = "staging"] /\ "staging" \in Trees
      BY <1>17 DEF Execute, Used, Trees
    <3>2. staged' = staged \/ \E bytes \in Bytes : staged' = [staged EXCEPT ![op.a] = bytes]
      BY <1>17 DEF Execute
    <3>3. Bytes \subseteq Contents
      BY DEF Contents
    <3> QED BY <1>2, <1>10, <3>1, <3>2, <3>3
  <2> QED BY <1>10, <1>17, <2>2, <2>3 DEF Execute
<1>18. CASE OpenSeal
  BY <1>2, <1>6, <1>7, <1>8, <1>10, <1>18 DEF OpenSeal, Goto, Add, ghosts
<1>19. CASE Copy
  BY <1>2, <1>6, <1>7, <1>10, <1>19 DEF Copy, Goto, Fail, Inventory, ghosts
<1>20. CASE JournalSeal
  <2>1. intent[op.a].origin = "staging"
    BY <1>1, <1>20 DEF WorkspaceSafe, JournalSeal, At, Sealing
  <2>2. [intent[op.a] EXCEPT !.origin = "sealed"] \in Intents
    BY <1>2, <1>10, <2>1 DEF Intents, NoIntent, Trees
  <2>3. intent' \in [Attempts -> Intents]
    BY <1>2, <1>10, <1>20, <2>2 DEF JournalSeal
  <2> QED BY <1>2, <1>6, <1>7, <1>10, <1>20, <2>3 DEF JournalSeal, Goto, ghosts
<1>21. CASE Restore
  <2>1. [op EXCEPT !.pc = "certify", !.restored = Certified(op.a)] \in Ops
    BY <1>2, <1>7, <1>10 DEF Ops, Certified, Inventory
  <2>2. op' \in Ops
    BY <1>6, <1>7, <1>21, <2>1 DEF Restore, Fail
  <2> QED BY <1>2, <1>10, <1>21, <2>2 DEF Restore, Used, Trees, disk
<1>22. CASE Certify \/ Cleanup \/ RemoveWorkspace
  <2>1. op' \in Ops
    BY <1>6, <1>7, <1>22 DEF Certify, Cleanup, RemoveWorkspace, Goto, Fail, Return
  <2>2. entries' \in [Attempts -> SUBSET Names]
    BY <1>2, <1>8, <1>10, <1>22 DEF Certify, Cleanup, RemoveWorkspace, Return, disk
  <2>3. dirty' \in [Attempts -> Trees \cup {"no"}]
    BY <1>2, <1>10, <1>22 DEF Certify, Cleanup, RemoveWorkspace, ghosts
  <2> QED BY <1>10, <1>22, <2>1, <2>2, <2>3 DEF Certify, Cleanup, RemoveWorkspace, disk
<1>23. CASE Publish
  <2>1. CASE Return /\ UNCHANGED <<seal, point>>
    BY <1>2, <1>6, <1>8, <1>10, <1>23, <2>1 DEF Publish, Return, ghosts
  <2>2. CASE /\ entries' = [entries EXCEPT ![op.a] = (@ \ {"sealed"}) \cup {"point"}]
             /\ point' = [point EXCEPT ![op.a] =
                  [bytes |-> Certified(op.a), at |-> op.at, tools |-> op.tools,
                   artifacts |-> op.artifacts, restored |-> op.restored]]
             /\ seal' = [seal EXCEPT ![op.a] = Part]
             /\ Goto("mark")
    <3>1. [bytes |-> Certified(op.a), at |-> op.at, tools |-> op.tools,
           artifacts |-> op.artifacts, restored |-> op.restored] \in Points
      BY <1>2, <1>10 DEF Certified, Inventory, Ops, Points
    <3> QED BY <1>2, <1>6, <1>7, <1>8, <1>9, <1>10, <1>23, <2>2, <3>1
               DEF Publish, Goto, ghosts
  <2> QED BY <1>23, <2>1, <2>2 DEF Publish
<1>24. CASE Mark \/ Finish
  <2>1. op' \in Ops
    BY <1>6, <1>7, <1>24 DEF Mark, Finish, Goto
  <2>2. entries' \in [Attempts -> SUBSET Names] /\ staged' \in [Attempts -> Contents]
    BY <1>2, <1>9, <1>10, <1>24 DEF Mark, Finish
  <2>3. last' \in {None} \cup [attempt : Attempts, accepted : Points]
    <3>1. last' = last \/ last' = [attempt |-> op.a, accepted |-> point[op.a]]
      BY <1>24 DEF Mark, Finish
    <3>2. point[op.a] \in Points
      BY <1>2, <1>10
    <3> QED BY <1>2, <1>10, <3>1, <3>2
  <2> QED BY <1>10, <1>24, <2>1, <2>2, <2>3 DEF Mark, Finish, ghosts
<1> QED BY <1>1, <1>11, <1>12, <1>13, <1>14, <1>15, <1>16, <1>17, <1>18, <1>19, <1>20,
           <1>21,
           <1>22, <1>23, <1>24 DEF CaptureActions

\* The attempt a capture begins with, and what a prune plans.
LEMMA TypeStart == TypeInv /\ ((\E a \in Attempts, retry \in BOOLEAN : Begin(a, retry)) \/ Plan)
                     => TypeInv'
<1>1. SUFFICES ASSUME TypeInv,
                      (\E a \in Attempts, retry \in BOOLEAN : Begin(a, retry)) \/ Plan
               PROVE  TypeInv'
  OBVIOUS
<1>2. CASE \E a \in Attempts, retry \in BOOLEAN : Begin(a, retry)
  <2>1. PICK a \in Attempts, retry \in BOOLEAN : Begin(a, retry)
    BY <1>2
  <2>2. PICK pc \in {"journal", "drain", "credentials"} :
          op' = [Idle EXCEPT !.a = a, !.tools = tools, !.ok = TRUE, !.pc = pc]
    BY <2>1 DEF Begin, Executables
  <2>3. pc \in Capturing
    BY DEF Capturing, Unpublished, Abandoning
  <2>4. Idle \in Ops /\ tools \in 1..MaxTools
    BY <1>1, TypeOfOps DEF TypeInv
  <2>5. op' \in Ops /\ op'.a \in Attempts /\ op'.tools \in 1..MaxTools
    <3>1. tools \in 0..MaxTools
      BY <2>4, CapturesAssumption
    <3>2. op' = [pc |-> pc, a |-> a, tools |-> tools, at |-> 0, artifacts |-> Part,
                 restored |-> Part, ok |-> TRUE, todo |-> {}]
      BY <2>2 DEF Idle
    <3>3. 0 \in 0..MaxClock
      BY CapturesAssumption
    <3> QED BY <2>3, <2>4, <3>1, <3>2, <3>3 DEF Ops, Contents
  <2> QED BY <1>1, <2>1, <2>5 DEF TypeInv, Begin, disk, ghosts
<1>3. CASE Plan
  <2>1. PICK aged : op' = [Idle EXCEPT !.pc = "prune", !.todo = Removal(aged)]
    BY <1>3 DEF Plan
  <2>2. Removal(aged) \subseteq Attempts \X Names
    BY CapturesAssumption DEF Removal, Groups
  <2>3. op' \in Ops /\ op'.pc = "prune"
    BY <1>1, <2>1, <2>2, TypeOfOps DEF Ops
  <2>4. retired' \in [Attempts -> BOOLEAN]
    <3>1. PICK todo : retired' = [a \in Attempts |-> retired[a] \/ <<a, "tombstone">> \in todo
                        \/ (a \notin Accepted /\ \E name \in Names : <<a, name>> \in todo)]
      BY <1>3 DEF Plan
    <3> QED BY <1>1, <3>1 DEF TypeInv
  <2> QED BY <1>1, <1>3, <2>3, <2>4 DEF TypeInv, Plan, disk, Capturing, Unpublished,
        Abandoning, Preparing, Sealing, Closing
<1> QED BY <1>1, <1>2, <1>3

\* A prune, a deployment, a worker's late write and a kill keep them as well.
LEMMA TypeRest ==
  TypeInv /\ (Retire \/ Delete \/ Redeploy \/ Kill \/ \E a \in Attempts : Alter(a)) => TypeInv'
<1> USE CapturesAssumption
<1>1. SUFFICES ASSUME TypeInv,
                      Retire \/ Delete \/ Redeploy \/ Kill \/ \E a \in Attempts : Alter(a)
               PROVE  TypeInv'
  OBVIOUS
<1>2. NoIntent \in Intents /\ NoPoint \in Points /\ Part \in Contents
  BY DEF NoIntent, Intents, NoPoint, Points, Contents
<1>3. "tombstone" \in Names
  BY DEF Names
<1>4. "prune" \notin Capturing /\ "idle" \notin Capturing
  BY DEF Capturing, Unpublished, Abandoning, Preparing, Sealing, Closing
<1>5. CASE Retire
  <2>1. PICK a \in Attempts :
          /\ entries' = [entries EXCEPT ![a] = (@ \ {"point"}) \cup {"tombstone"}]
          /\ point' = [point EXCEPT ![a] = NoPoint]
          /\ op' = [op EXCEPT !.todo = (@ \ {<<a, "point">>}) \cup {<<a, "tombstone">>}]
          /\ retired' = [retired EXCEPT ![a] = TRUE]
    BY <1>5 DEF Retire, RetireFirst, Retiring
  <2>2. op' \in Ops /\ op'.pc = "prune"
    BY <1>1, <1>3, <1>5, <2>1 DEF TypeInv, Ops, Retire, At
  <2>3. /\ entries' \in [Attempts -> SUBSET Names] /\ point' \in [Attempts -> Points]
        /\ retired' \in [Attempts -> BOOLEAN]
    BY <1>1, <1>2, <1>3, <2>1 DEF TypeInv
  <2> QED BY <1>1, <1>4, <1>5, <2>2, <2>3 DEF TypeInv, Retire
<1>6. CASE Delete
  <2>1. PICK e \in op.todo :
          \/ /\ Gone(e[1], e[2])
             /\ dirty' = IF e[2] = "workspace" THEN [dirty EXCEPT ![e[1]] = "no"] ELSE dirty
             /\ op' = IF op.todo = {e} THEN Idle ELSE [op EXCEPT !.todo = @ \ {e}]
          \/ /\ seal' = IF e[2] = "sealed" THEN [seal EXCEPT ![e[1]] = Part] ELSE seal
             /\ point' = IF e[2] = "point" THEN [point EXCEPT ![e[1]] = NoPoint] ELSE point
             /\ UNCHANGED <<entries, intent, staged, dirty, op>>
    BY <1>6 DEF Delete
  <2>2. op' \in Ops /\ op'.pc \in {"prune", "idle"}
    <3>1. op \in Ops /\ op.pc = "prune" /\ Idle \in Ops /\ Idle.pc = "idle"
      BY <1>1, <1>6, TypeOfOps DEF TypeInv, Delete, At, Idle
    <3>2. [op EXCEPT !.todo = @ \ {e}] \in Ops /\ [op EXCEPT !.todo = @ \ {e}].pc = "prune"
      BY <3>1 DEF Ops
    <3> QED BY <2>1, <3>1, <3>2
  <2>3. e[1] \in Attempts
    BY <1>1 DEF TypeInv, Ops
  <2>4. /\ entries' \in [Attempts -> SUBSET Names] /\ intent' \in [Attempts -> Intents]
        /\ staged' \in [Attempts -> Contents] /\ seal' \in [Attempts -> Contents]
        /\ point' \in [Attempts -> Points] /\ dirty' \in [Attempts -> Trees \cup {"no"}]
    BY <1>1, <1>2, <2>1, <2>3 DEF TypeInv, Gone
  <2> QED BY <1>1, <1>4, <1>6, <2>2, <2>4 DEF TypeInv, Delete
<1>7. CASE Redeploy
  BY <1>1, <1>7 DEF TypeInv, Redeploy, disk, ghosts
<1>8. CASE Kill
  <2>1. op' \in Ops /\ op'.pc = "idle"
    BY <1>1, <1>8, TypeOfOps DEF Kill, Idle
  <2>2. kills' \in 0..MaxKills
    BY <1>1, <1>8 DEF Kill, TypeInv
  <2> QED BY <1>1, <1>4, <1>8, <2>1, <2>2 DEF TypeInv, Kill, disk
<1>9. CASE \E a \in Attempts : Alter(a)
  BY <1>1, <1>9 DEF TypeInv, Alter, Contents, ghosts
<1> QED BY <1>1, <1>5, <1>6, <1>7, <1>8, <1>9

\* Every step keeps the types.
LEMMA TypeNext == TypeInv /\ WorkspaceSafe /\ [Next]_vars => TypeInv'
<1>1. TypeInv /\ UNCHANGED vars => TypeInv'
  BY DEF TypeInv, vars, disk, ghosts
<1> QED BY <1>1, TypeStart, TypeCapture, TypeRest DEF Next, Capture, Prune, CaptureActions

-----------------------------------------------------------------------------

\* A capture leaves the other attempts alone.
Same(b) == /\ entries'[b] = entries[b] /\ intent'[b] = intent[b] /\ seal'[b] = seal[b]
           /\ point'[b] = point[b] /\ dirty'[b] = dirty[b]

\* No step of a capture touches a name of another attempt, or retires one.
LEMMA OthersKept ==
  TypeInv /\ CaptureActions =>
    /\ \A b \in Attempts : b # op.a => Same(b)
    /\ retired' = retired
<1>1. SUFFICES ASSUME TypeInv, CaptureActions
               PROVE  /\ \A b \in Attempts : b # op.a => Same(b)
                      /\ retired' = retired
  OBVIOUS
<1>2. /\ entries \in [Attempts -> SUBSET Names] /\ intent \in [Attempts -> Intents]
      /\ seal \in [Attempts -> Contents] /\ point \in [Attempts -> Points]
      /\ dirty \in [Attempts -> Trees \cup {"no"}] /\ op.a \in Attempts
  BY <1>1, CaptureKinds DEF TypeInv
<1>3. CASE Drain \/ RemoveCredentials \/ Journal \/ Worker
  BY <1>2, <1>3
     DEF Drain, RemoveCredentials, Journal, Worker, Return, Add, Same, disk, ghosts
<1>4. CASE Abandon
  BY <1>2, <1>4 DEF Abandon, Gone, Same, ghosts
<1>5. CASE Directory("staging", "workspace") \/ Directory("workspace", "capture")
  BY <1>2, <1>5 DEF Directory, Add, Same, ghosts
<1>6. CASE Execute \/ OpenSeal \/ Copy \/ JournalSeal \/ Restore \/ Certify
  BY <1>2, <1>6 DEF Execute, OpenSeal, Copy, JournalSeal, Restore, Certify, Used, Add, Same,
    disk, ghosts
<1>7. CASE Cleanup \/ RemoveWorkspace \/ Publish
  BY <1>2, <1>7 DEF Cleanup, RemoveWorkspace, Publish, Return, Same, ghosts
<1>8. CASE Mark \/ Finish
  BY <1>2, <1>8 DEF Mark, Finish, Same, ghosts
<1> QED BY <1>1, <1>3, <1>4, <1>5, <1>6, <1>7, <1>8 DEF CaptureActions

\* Points and the clock, as a step leaves them.
HasNext(b, name) == name \in entries'[b]
PointKept(b) == (HasNext(b, "point") <=> Has(b, "point")) /\ point'[b] = point[b]

\* Only Publish makes a point; a capture never turns the clock back.
LEMMA CapturedPoint ==
  TypeInv /\ CaptureActions /\ ~Publish => PointKept(op.a) /\ clock' >= clock
<1>1. SUFFICES ASSUME TypeInv, CaptureActions, ~Publish
               PROVE  PointKept(op.a) /\ clock' >= clock
  OBVIOUS
<1>2. /\ entries \in [Attempts -> SUBSET Names] /\ point \in [Attempts -> Points]
      /\ op.a \in Attempts /\ clock \in Nat
  BY <1>1, CaptureKinds, CapturesAssumption DEF TypeInv
<1>3. CASE Drain \/ RemoveCredentials \/ Journal \/ Worker
  BY <1>2, <1>3
     DEF Drain, RemoveCredentials, Journal, Worker, Return, Add, PointKept, HasNext,
    Has, disk
<1>4. CASE Abandon
  <2>1. \A i \in DOMAIN AbandonOrder : AbandonOrder[i] # "point"
    BY DEF AbandonOrder
  <2> QED BY <1>2, <1>4, <2>1 DEF Abandon, Gone, PointKept, HasNext, Has
<1>5. CASE Directory("staging", "workspace") \/ Directory("workspace", "capture")
  BY <1>2, <1>5 DEF Directory, Add, PointKept, HasNext, Has
<1>6. CASE Execute \/ OpenSeal \/ Copy \/ JournalSeal \/ Restore \/ Certify
  <2>1. CASE OpenSeal
    BY <1>2, <2>1 DEF OpenSeal, Add, PointKept, HasNext, Has
  <2>2. CASE Execute \/ Copy \/ JournalSeal \/ Restore \/ Certify
    <3>1. UNCHANGED <<entries, point, clock>>
      BY <2>2 DEF Execute, Copy, JournalSeal, Restore, Certify, disk
    <3> QED BY <1>2, <3>1 DEF PointKept, HasNext, Has
  <2> QED BY <1>6, <2>1, <2>2
<1>7. CASE Cleanup \/ RemoveWorkspace \/ Mark \/ Finish
  BY <1>2, <1>7 DEF Cleanup, RemoveWorkspace, Mark, Finish, Return, PointKept, HasNext, Has
<1> QED BY <1>1, <1>3, <1>4, <1>5, <1>6, <1>7 DEF CaptureActions

\* A prune retires the points it plans to, and deletes what has none.
LEMMA PrunedPoints ==
  ASSUME TypeInv, SafetyInv, Retire \/ Delete
  PROVE  /\ \A b \in Attempts : PointKept(b) \/ (~HasNext(b, "point") /\ b # last.attempt)
         /\ UNCHANGED <<clock, last>>
         /\ \A b \in Attempts : dirty'[b] = dirty[b] \/ dirty'[b] = "no"
<1>1. /\ entries \in [Attempts -> SUBSET Names] /\ point \in [Attempts -> Points]
      /\ dirty \in [Attempts -> Trees \cup {"no"}] /\ op.todo \subseteq Attempts \X Names
  BY DEF TypeInv, Ops
<1>2. CASE Retire
  <2>1. PICK a \in RetireFirst :
          /\ entries' = [entries EXCEPT ![a] = (@ \ {"point"}) \cup {"tombstone"}]
          /\ point' = [point EXCEPT ![a] = NoPoint]
    BY <1>2 DEF Retire
  <2>2. a \in Attempts /\ <<a, "point">> \in op.todo
    BY DEF RetireFirst, Retiring
  <2>3. a # last.attempt
    BY <1>2, <2>2 DEF SafetyInv, PruneSafe, Retire, At
  <2> QED BY <1>1, <1>2, <2>1, <2>2, <2>3 DEF Retire, PointKept, HasNext, Has
<1>3. CASE Delete
  <2>1. PICK e \in op.todo :
          \/ /\ Gone(e[1], e[2])
             /\ dirty' = IF e[2] = "workspace" THEN [dirty EXCEPT ![e[1]] = "no"] ELSE dirty
          \/ /\ point' = IF e[2] = "point" THEN [point EXCEPT ![e[1]] = NoPoint] ELSE point
             /\ UNCHANGED <<entries, dirty>>
    BY <1>3 DEF Delete
  <2>2. e[1] \in Attempts /\ e[2] # "point"
    <3>1. e[1] \in Attempts /\ e = <<e[1], e[2]>>
      BY <1>1
    <3>2. <<e[1], "point">> \notin op.todo
      BY <1>3, <3>1 DEF Delete, RetireFirst, Retiring
    <3> QED BY <3>1, <3>2
  <2> QED BY <1>1, <1>3, <2>1, <2>2 DEF Delete, Gone, PointKept, HasNext, Has
<1> QED BY <1>2, <1>3

\* Everything else leaves every tree and journal alone.
LEMMA QuietKept ==
  ASSUME TypeInv,
         \/ \E a \in Attempts, retry \in BOOLEAN : Begin(a, retry)
         \/ Plan \/ Redeploy \/ Kill
         \/ \E a \in Attempts : Alter(a)
         \/ UNCHANGED vars
  PROVE  UNCHANGED <<entries, intent, seal, point, last, dirty, clock>>
BY DEF Begin, Plan, Redeploy, Kill, Alter, vars, disk, ghosts

\* Where a step is neither Publish nor a prune's, points and their number stay.
LEMMA PointsKept ==
  ASSUME TypeInv, [Next]_vars, ~Publish, ~Retire, ~Delete
  PROVE  (\A b \in Attempts : PointKept(b)) /\ clock' >= clock
<1>1. clock \in Nat
  BY CapturesAssumption DEF TypeInv
<1>2. CASE CaptureActions
  BY <1>2, OthersKept, CapturedPoint DEF Same, PointKept, HasNext, Has
<1>3. CASE \/ \E a \in Attempts, retry \in BOOLEAN : Begin(a, retry)
           \/ Plan \/ Redeploy \/ Kill
           \/ \E a \in Attempts : Alter(a)
           \/ UNCHANGED vars
  BY <1>1, <1>3, QuietKept DEF PointKept, HasNext, Has
<1> QED BY <1>2, <1>3 DEF Next, Capture, Prune, CaptureActions

\* The workspace is put to use by adapter commands only.
LEMMA DirtySteps ==
  ASSUME TypeInv, [Next]_vars, NEW b \in Attempts, dirty'[b] # dirty[b], dirty'[b] # "no"
  PROVE  b = op.a /\ (Execute \/ Restore)
<1>1. dirty \in [Attempts -> Trees \cup {"no"}]
  BY DEF TypeInv
<1>2. CASE CaptureActions
  <2>1. b = op.a
    BY <1>2, OthersKept DEF Same
  <2>2. CASE Drain \/ RemoveCredentials \/ Abandon \/ Journal \/ Worker
    BY <1>1, <2>1, <2>2 DEF Drain, RemoveCredentials, Abandon, Journal, Worker, ghosts
  <2>3. CASE Directory("staging", "workspace") \/ Directory("workspace", "capture")
             \/ OpenSeal \/ Copy \/ JournalSeal \/ Certify
    BY <2>3 DEF Directory, OpenSeal, Copy, JournalSeal, Certify, ghosts
  <2>4. CASE Cleanup \/ RemoveWorkspace \/ Publish \/ Mark \/ Finish
    BY <1>1, <2>1, <2>4 DEF Cleanup, RemoveWorkspace, Publish, Mark, Finish, ghosts
  <2> QED BY <1>2, <2>1, <2>2, <2>3, <2>4 DEF CaptureActions
<1>3. CASE Retire
  BY <1>3 DEF Retire
<1>4. CASE Delete
  <2>1. PICK e \in op.todo :
          \/ dirty' = IF e[2] = "workspace" THEN [dirty EXCEPT ![e[1]] = "no"] ELSE dirty
          \/ dirty' = dirty
    BY <1>4 DEF Delete
  <2> QED BY <1>1, <2>1
<1>5. CASE \/ \E a \in Attempts, retry \in BOOLEAN : Begin(a, retry)
           \/ Plan \/ Redeploy \/ Kill
           \/ \E a \in Attempts : Alter(a)
           \/ UNCHANGED vars
  BY <1>5, QuietKept
<1> QED BY <1>2, <1>3, <1>4, <1>5 DEF Next, Capture, Prune, CaptureActions

\* A published point stays whole until it is retired.
LEMMA PointSafeNext == TypeInv /\ SafetyInv /\ [Next]_vars => PointSafe'
<1>1. SUFFICES ASSUME TypeInv, SafetyInv, [Next]_vars,
                      NEW a \in Attempts, HasNext(a, "point")
               PROVE  /\ point'[a].bytes # Part
                      /\ point'[a].bytes = point'[a].artifacts
                      /\ point'[a].bytes = point'[a].restored
                      /\ point'[a].at <= clock'
                      /\ dirty'[a] = "no"
  BY DEF PointSafe, HasNext, Has
<1>2. clock \in Nat /\ clock' \in Nat /\ point[a].at \in Int
  BY <1>1, TypeNext, CapturesAssumption DEF TypeInv, SafetyInv, Points
<1>3. Has(a, "point") => dirty'[a] = "no"
  <2>1. SUFFICES ASSUME Has(a, "point"), dirty'[a] # "no" PROVE FALSE
    OBVIOUS
  <2>2. dirty[a] = "no"
    BY <1>1, <2>1 DEF SafetyInv, PointSafe
  <2>3. a = op.a /\ (Execute \/ Restore)
    BY <1>1, <2>1, <2>2, DirtySteps
  <2> QED BY <1>1, <2>1, <2>3 DEF SafetyInv, CaptureSafe, Execute, Restore, At, Unpublished,
        Preparing
<1>4. CASE Publish
  <2>1. CASE a # op.a \/ Return
    <3>1. CASE a # op.a
      BY <1>1, <1>3, <1>4, <3>1, OthersKept DEF CaptureActions, Same, SafetyInv, PointSafe,
        Has, HasNext, Publish
    <3>2. CASE a = op.a /\ Return
      BY <1>1, <1>4, <3>2 DEF SafetyInv, CaptureSafe, Publish, At, Unpublished, Return, Has,
        HasNext, TypeInv
    <3> QED BY <2>1, <3>1, <3>2
  <2>2. CASE a = op.a /\ ~Return
    <3>1. /\ op.pc = "publish" /\ Certified(op.a) = op.artifacts
          /\ point' = [point EXCEPT ![op.a] =
               [bytes |-> Certified(op.a), at |-> op.at, tools |-> op.tools,
                artifacts |-> op.artifacts, restored |-> op.restored]]
          /\ UNCHANGED <<clock, dirty>>
      BY <1>4, <2>2 DEF Publish, At, ghosts
    <3>2. op.artifacts # Part /\ op.restored = seal[op.a] /\ op.at <= clock
          /\ dirty[op.a] = "no"
      BY <1>1, <3>1 DEF SafetyInv, CaptureSafe, WorkspaceSafe
    <3> QED BY <1>1, <2>2, <3>1, <3>2 DEF TypeInv, Certified, Inventory
  <2> QED BY <2>1, <2>2
<1>5. CASE ~Publish
  <2>1. Has(a, "point") /\ point'[a] = point[a] /\ clock' >= clock
    <3>1. CASE Retire \/ Delete
      BY <1>1, <1>2, <3>1, PrunedPoints DEF PointKept
    <3>2. CASE ~Retire /\ ~Delete
      BY <1>1, <1>5, <3>2, PointsKept DEF PointKept
    <3> QED BY <3>1, <3>2
  <2> QED BY <1>1, <1>2, <1>3, <2>1 DEF SafetyInv, PointSafe
<1> QED BY <1>4, <1>5

\* LAST_SUCCESS is written for a point that is there, and keeps it there.
LEMMA LastNext == TypeInv /\ SafetyInv /\ [Next]_vars => LastSuccessWhole'
<1>1. SUFFICES ASSUME TypeInv, SafetyInv, [Next]_vars PROVE LastSuccessWhole'
  OBVIOUS
<1>2. LastSuccessWhole /\ (last # None => last.attempt \in Attempts)
  BY <1>1 DEF SafetyInv, TypeInv
<1>3. CASE Mark
  <2>1. op.pc = "mark" /\ op.a \in Attempts /\ entries' = entries /\ point' = point
        /\ last' = [attempt |-> op.a, accepted |-> point[op.a]]
    BY <1>1, <1>3, CaptureKinds DEF Mark, At, CaptureActions
  <2> QED BY <1>1, <2>1 DEF SafetyInv, CaptureSafe, LastSuccessWhole, Has
<1>4. ASSUME ~Mark PROVE last' = last
  <2>1. CASE Retire \/ Delete
    BY <2>1 DEF Retire, Delete
  <2>2. CASE CaptureActions
    BY <1>4, <2>2 DEF CaptureActions, Drain, RemoveCredentials, Abandon, Journal, Worker,
      Directory, Execute, OpenSeal, Copy, JournalSeal, Restore, Certify, Cleanup,
      RemoveWorkspace, Publish, Finish, disk
  <2> QED BY <1>1, <2>1, <2>2, QuietKept DEF Next, Capture, Prune, CaptureActions
<1>5. CASE Publish
  <2>1. last' = last
    BY <1>5 DEF Publish
  <2>2. last # None => last.attempt # op.a
    BY <1>1, <1>2, <1>5
       DEF SafetyInv, CaptureSafe, Publish, At, Unpublished, LastSuccessWhole
  <2> QED BY <1>1, <1>2, <1>5, <2>1, <2>2, OthersKept
          DEF CaptureActions, LastSuccessWhole, Same, Has
<1>6. CASE Retire \/ Delete
  BY <1>1, <1>2, <1>6, PrunedPoints DEF LastSuccessWhole, PointKept, HasNext, Has
<1>7. CASE ~Mark /\ ~Publish /\ ~Retire /\ ~Delete
  BY <1>1, <1>2, <1>4, <1>7, PointsKept DEF LastSuccessWhole, PointKept, HasNext, Has
<1> QED BY <1>3, <1>5, <1>6, <1>7

\* What a capture has established when it goes from one state to the next.
LEMMA CaptureSafeNext == TypeInv /\ SafetyInv /\ [Next]_vars => CaptureSafe'
<1> USE CapturesAssumption
<1>1. SUFFICES ASSUME TypeInv, SafetyInv, [Next]_vars PROVE CaptureSafe'
  OBVIOUS
<1>2. op \in Ops /\ clock \in Nat /\ clock' \in Nat
  BY <1>1, TypeNext DEF TypeInv, SafetyInv
<1>3. CaptureSafe
  BY <1>1 DEF SafetyInv
<1>4. CASE op' = Idle
  BY <1>2, <1>4 DEF CaptureSafe, Idle, Unpublished, Sealing, Closing, Abandoning, Preparing
<1>5. CASE CaptureActions /\ op' # Idle
  <2> DEFINE New == /\ op'.at <= clock'
                    /\ op'.pc \in Sealing \cup {"restore", "certify", "publish"}
                         \/ (op'.pc \in Closing /\ op'.ok) => op'.artifacts # Part
                    /\ op'.pc \in {"certify", "publish"} \/ (op'.pc \in Closing /\ op'.ok)
                         => op'.restored = seal'[op'.a]
             Placed == /\ op'.pc \in Unpublished => op.pc \in Unpublished
                       /\ op'.pc \in {"mark", "finish"} => op.pc \in {"mark", "finish"}
  <2>1. op.a \in Attempts /\ op'.a = op.a
    BY <1>1, <1>5, CaptureKinds
  <2>2. ASSUME ~Publish, New, Placed PROVE CaptureSafe'
    <3>1. PointKept(op.a)
      BY <1>1, <1>5, <2>2, CapturedPoint
    <3> QED BY <1>3, <2>1, <2>2, <3>1 DEF CaptureSafe, PointKept, HasNext, Has
  <2>3. seal \in [Attempts -> Contents]
    BY <1>1 DEF TypeInv
  <2> USE DEF Unpublished, Sealing, Closing, Abandoning, Preparing
  <2>4. CASE Drain \/ RemoveCredentials \/ Abandon \/ Journal
    <3>1. /\ op'.pc \in {"credentials", "abandon", "journal", "worker"} /\ op'.at = op.at
          /\ op.pc \in Unpublished /\ clock' = clock
      BY <1>2, <1>5, <2>4 DEF Drain, RemoveCredentials, Abandon, Journal, At, Goto, Ops
    <3> QED BY <1>3, <2>2, <2>4, <3>1 DEF CaptureSafe, Drain, RemoveCredentials, Abandon,
          Journal, Publish, At
  <2>5. CASE Worker
    <3>1. op'.pc = "staging" /\ op'.at = clock' /\ op.pc \in Unpublished
      BY <1>2, <1>5, <2>5 DEF Worker, At, Return, Ops
    <3> QED BY <1>2, <2>2, <2>5, <3>1 DEF Worker, Publish, At
  <2>6. CASE Directory("staging", "workspace") \/ Directory("workspace", "capture")
    <3>1. op'.pc \in {"workspace", "capture"} /\ op'.at = op.at /\ clock' = clock
          /\ op.pc \in {"staging", "workspace"}
      BY <1>2, <2>6 DEF Directory, At, Goto, Ops
    <3> QED BY <1>3, <2>2, <3>1 DEF CaptureSafe, Publish, At
  <2>7. CASE Execute
    <3>1. /\ op'.at = op.at /\ clock' = clock /\ op.pc = "capture"
          /\ \/ op'.pc = "seal" /\ op'.artifacts \in Bytes
             \/ op'.pc = "cleanup" /\ ~op'.ok
      BY <1>2, <2>7 DEF Execute, At, Fail, Ops
    <3> QED BY <1>3, <2>2, <3>1 DEF CaptureSafe, Publish, At, Part
  <2>8. CASE OpenSeal \/ JournalSeal
    <3>1. /\ op'.at = op.at /\ op'.artifacts = op.artifacts /\ clock' = clock
          /\ op'.pc \in {"copy", "restore"} /\ op.pc \in {"seal", "sealed"}
      BY <1>2, <2>8 DEF OpenSeal, JournalSeal, At, Goto, Ops
    <3> QED BY <1>3, <2>2, <3>1 DEF CaptureSafe, Publish, At
  <2>9. CASE Copy
    <3>1. /\ op'.at = op.at /\ op'.artifacts = op.artifacts /\ clock' = clock
          /\ op.pc = "copy"
          /\ op'.pc = "sealed" \/ (op'.pc = "cleanup" /\ ~op'.ok)
      BY <1>2, <2>9 DEF Copy, At, Goto, Fail, Ops
    <3> QED BY <1>3, <2>2, <3>1 DEF CaptureSafe, Publish, At
  <2>10. CASE Restore
    <3>1. /\ op'.at = op.at /\ op'.artifacts = op.artifacts /\ clock' = clock
          /\ op.pc = "restore" /\ seal' = seal
          /\ \/ op'.pc = "certify" /\ op'.restored = seal[op.a]
             \/ op'.pc = "cleanup" /\ ~op'.ok
      BY <1>2, <2>10 DEF Restore, At, Fail, Ops, Certified, Inventory, disk
    <3> QED BY <1>3, <2>1, <2>2, <3>1 DEF CaptureSafe, Publish, At
  <2>11. CASE Certify
    <3>1. /\ op'.at = op.at /\ op'.artifacts = op.artifacts /\ clock' = clock
          /\ op.pc = "certify" /\ seal' = seal /\ op'.restored = op.restored
          /\ op'.pc = "cleanup"
      BY <1>2, <2>11 DEF Certify, At, Goto, Fail, Ops, disk
    <3> QED BY <1>3, <2>1, <2>2, <3>1 DEF CaptureSafe, Publish, At
  <2>12. CASE Cleanup \/ RemoveWorkspace
    <3>1. /\ op'.at = op.at /\ op'.artifacts = op.artifacts /\ clock' = clock
          /\ op.pc \in Closing /\ seal' = seal /\ op'.restored = op.restored /\ op'.ok = op.ok
          /\ op'.pc = "workspace-out" \/ (op'.pc = "publish" /\ op.ok)
      BY <1>2, <1>5, <2>12 DEF Cleanup, RemoveWorkspace, At, Goto, Return, Ops
    <3> QED BY <1>3, <2>1, <2>2, <3>1 DEF CaptureSafe, Publish, At
  <2>13. CASE Publish
    <3>1. /\ op' = [op EXCEPT !.pc = "mark"] /\ clock' = clock
          /\ entries' = [entries EXCEPT ![op.a] = (@ \ {"sealed"}) \cup {"point"}]
      BY <1>5, <2>13 DEF Publish, Return, Goto
    <3>2. op'.pc = "mark" /\ op'.at = op.at
      BY <1>2, <3>1 DEF Ops
    <3> QED BY <1>1, <1>3, <2>1, <3>1, <3>2 DEF CaptureSafe, Has, TypeInv
  <2>14. CASE Mark \/ Finish
    <3>1. op'.at = op.at /\ clock' = clock /\ op'.pc = "finish" /\ op.pc = "mark"
      BY <1>2, <1>5, <2>14 DEF Mark, Finish, At, Goto, Ops
    <3> QED BY <1>3, <2>2, <3>1 DEF CaptureSafe, Publish, At
  <2> QED BY <1>5, <2>4, <2>5, <2>6, <2>7, <2>8, <2>9, <2>10, <2>11, <2>12, <2>13, <2>14
          DEF CaptureActions
<1>6. CASE \E a \in Attempts, retry \in BOOLEAN : Begin(a, retry)
  <2>1. PICK a \in Attempts, retry \in BOOLEAN : Begin(a, retry)
    BY <1>6
  <2>2. op'.a = a /\ op'.pc \in {"journal", "drain", "credentials"} /\ op'.at = 0
    BY <2>1 DEF Begin, Idle
  <2>3. ~Has(a, "point") /\ entries' = entries
    BY <2>1 DEF Begin, disk
  <2> QED BY <1>2, <2>2, <2>3 DEF CaptureSafe, Has, Sealing, Closing
<1>7. CASE Plan \/ Retire \/ Delete
  <2>1. op'.pc \in {"prune", "idle"} /\ op'.at <= clock'
    <3>1. CASE Plan
      BY <1>2, <3>1 DEF Plan, Idle, disk
    <3>2. CASE Retire \/ Delete
      <4>1. op.pc = "prune" /\ op.at <= clock /\ clock' = clock
        BY <1>3, <3>2 DEF Retire, Delete, At, CaptureSafe
      <4>2. (op'.pc = "prune" /\ op'.at = op.at) \/ op' = Idle
        BY <1>2, <3>2, <4>1 DEF Retire, Delete, Ops
      <4> QED BY <1>2, <4>1, <4>2 DEF Idle
    <3> QED BY <1>7, <3>1, <3>2
  <2> QED BY <2>1 DEF CaptureSafe, Unpublished, Sealing, Closing, Abandoning, Preparing
<1>8. CASE Redeploy \/ (\E a \in Attempts : Alter(a)) \/ UNCHANGED vars
  <2>1. UNCHANGED <<entries, seal, clock, op>>
    BY <1>8 DEF Redeploy, Alter, vars, disk
  <2> QED BY <1>3, <2>1 DEF CaptureSafe, Has
<1>9. Kill => op' = Idle
  BY DEF Kill
<1> QED BY <1>1, <1>4, <1>5, <1>6, <1>7, <1>8, <1>9 DEF Next, Capture, Prune, CaptureActions

\* What a prune has still to do is retired, or the scratch of a point.
LEMMA PruneSafeNext == TypeInv /\ SafetyInv /\ [Next]_vars => PruneSafe'
<1>1. SUFFICES ASSUME TypeInv, SafetyInv, [Next]_vars PROVE PruneSafe'
  OBVIOUS
<1>2. /\ entries \in [Attempts -> SUBSET Names] /\ retired \in [Attempts -> BOOLEAN]
      /\ op \in Ops /\ op.todo \subseteq Attempts \X Names
  BY <1>1 DEF TypeInv, Ops
<1>3. CASE Plan
  <2>1. PICK aged \in SUBSET (Groups \ Accepted) :
          /\ op' = [Idle EXCEPT !.pc = "prune", !.todo = Removal(aged)]
          /\ retired' = [a \in Attempts |-> retired[a] \/ <<a, "tombstone">> \in Removal(aged)
               \/ (a \notin Accepted /\ \E name \in Names : <<a, name>> \in Removal(aged))]
    BY <1>3 DEF Plan
  <2>2. op'.todo = Removal(aged) /\ entries' = entries /\ last' = last
    BY <1>3, <2>1 DEF Plan, Idle, disk
  <2>3. ASSUME NEW e \in Removal(aged) PROVE retired'[e[1]] \/ Has(e[1], "point")
    <3>1. e \in Attempts \X Names /\ e = <<e[1], e[2]>>
      <4>1. e \in Groups \X Names
        BY DEF Removal
      <4>2. Groups \subseteq Attempts
        BY CapturesAssumption DEF Groups
      <4> QED BY <4>1, <4>2
    <3> QED BY <2>1, <2>3, <3>1 DEF Accepted
  <2>4. ASSUME NEW e \in Removal(aged), e[2] = "point" PROVE e[1] # last.attempt
    BY <2>4 DEF Removal, Accepted, Surplus
  <2> QED BY <2>2, <2>3, <2>4 DEF PruneSafe, Has
<1>4. CASE Retire
  <2>1. PICK a \in Attempts :
          /\ entries' = [entries EXCEPT ![a] = (@ \ {"point"}) \cup {"tombstone"}]
          /\ op' = [op EXCEPT !.todo = (@ \ {<<a, "point">>}) \cup {<<a, "tombstone">>}]
          /\ retired' = [retired EXCEPT ![a] = TRUE]
    BY <1>4 DEF Retire, RetireFirst, Retiring
  <2>2. op'.todo = (op.todo \ {<<a, "point">>}) \cup {<<a, "tombstone">>}
    BY <1>2, <2>1 DEF Ops
  <2>3. op.pc = "prune" /\ last' = last
    BY <1>4 DEF Retire, At
  <2>4. \A e \in op.todo : e[1] \in Attempts
    BY <1>2
  <2>5. ASSUME NEW e \in op'.todo
        PROVE  /\ retired'[e[1]] \/ HasNext(e[1], "point")
               /\ e[2] = "point" => e[1] # last.attempt
    <3>1. CASE e = <<a, "tombstone">>
      BY <1>2, <2>1, <3>1
    <3>2. CASE e \in op.todo
      BY <1>1, <1>2, <2>1, <2>3, <2>4, <3>2 DEF SafetyInv, PruneSafe, HasNext, Has
    <3> QED BY <2>2, <3>1, <3>2
  <2> QED BY <2>3, <2>5 DEF PruneSafe, HasNext, Has
<1>5. CASE Delete
  <2>1. op.pc = "prune" /\ retired' = retired /\ last' = last
    BY <1>5 DEF Delete, At
  <2>2. op'.pc = "prune" => op'.todo \subseteq op.todo
    BY <1>2, <1>5 DEF Delete, Idle, Ops
  <2>3. \A e \in op.todo : e[1] \in Attempts
    BY <1>2
  <2>4. \A b \in Attempts : PointKept(b) \/ (~HasNext(b, "point") /\ b # last.attempt)
    BY <1>1, <1>5, PrunedPoints
  <2>5. \A b \in Attempts : Has(b, "point") => HasNext(b, "point")
    <3>1. PICK e \in op.todo : Gone(e[1], e[2]) \/ UNCHANGED entries
      BY <1>5 DEF Delete
    <3>2. e[2] # "point"
      <4>1. e[1] \in Attempts /\ e = <<e[1], e[2]>>
        BY <1>2
      <4>2. <<e[1], "point">> \notin op.todo
        BY <1>5, <4>1 DEF Delete, RetireFirst, Retiring
      <4> QED BY <4>1, <4>2
    <3> QED BY <1>2, <3>1, <3>2 DEF Gone, HasNext, Has
  <2> QED BY <1>1, <2>1, <2>2, <2>3, <2>5 DEF SafetyInv, PruneSafe, HasNext, Has
<1>6. CASE Redeploy \/ (\E a \in Attempts : Alter(a)) \/ UNCHANGED vars
  BY <1>1, <1>6 DEF SafetyInv, PruneSafe, Has, Redeploy, Alter, vars, disk, ghosts
<1>7. CASE Kill \/ \E a \in Attempts, retry \in BOOLEAN : Begin(a, retry)
  <2>1. CASE Kill
    BY <2>1 DEF Kill, Idle, PruneSafe
  <2>2. CASE \E a \in Attempts, retry \in BOOLEAN : Begin(a, retry)
    <3>1. op'.pc \in {"journal", "drain", "credentials"}
      BY <2>2 DEF Begin, Idle
    <3> QED BY <3>1 DEF PruneSafe
  <2> QED BY <1>7, <2>1, <2>2
<1>8. CASE CaptureActions
  BY <1>1, <1>8, CaptureKinds DEF PruneSafe, Idle, Capturing, Unpublished, Sealing, Closing,
    Abandoning, Preparing
<1> QED BY <1>1, <1>3, <1>4, <1>5, <1>6, <1>7, <1>8 DEF Next, Capture, Prune, CaptureActions

\* What WorkspaceSafe says of one attempt, and of the running operation.
Resting(a) ==
  dirty[a] # "no" /\ ~retired[a] =>
    Journaled(a) /\ ((FromStaging(a) /\ dirty[a] = "staging") \/ FromSeal(a))

Progress(pc, a) ==
  /\ pc \in Abandoning \cup Preparing => dirty[a] = "no" \/ retired[a]
  /\ pc \in {"workspace-out", "publish"} => dirty[a] = "no"
  /\ pc \in Preparing \cup Sealing => Has(a, "intent") /\ intent[a].origin = "staging"
  /\ pc \in {"workspace", "capture"} \cup Sealing => Has(a, "staging")
  /\ pc \in {"capture", "restore"} \cup Sealing => Has(a, "workspace")
  /\ pc \in {"copy", "sealed"} => Has(a, "sealed")
  /\ pc = "sealed" => seal[a] # Part
  /\ pc = "restore" => Has(a, "intent") /\ FromSeal(a)

\* What is said of the workspaces, attempt by attempt and of the one at work.
LEMMA WorkspaceParts ==
  WorkspaceSafe <=> (\A a \in Attempts : Resting(a)) /\ Progress(op.pc, op.a)
BY DEF WorkspaceSafe, Resting, Progress

\* Where neither an attempt's trees nor its journal nor its workspace change,
\* what is said of it stays true.
LEMMA SameRests ==
  ASSUME NEW b \in Attempts, Same(b), retired' = retired, Resting(b)
  PROVE  Resting(b)'
BY DEF Same, Resting, Journaled, FromStaging, FromSeal, Has

\* The journal names the tree cleanup needs at every step of a capture.
LEMMA WorkspaceCapture == TypeInv /\ SafetyInv /\ CaptureActions => WorkspaceSafe'
<1>1. SUFFICES ASSUME TypeInv, SafetyInv, CaptureActions PROVE WorkspaceSafe'
  OBVIOUS
<1>2. PICK b \in Attempts : b = op.a
  BY <1>1, CaptureKinds
<1>3. /\ entries \in [Attempts -> SUBSET Names] /\ intent \in [Attempts -> Intents]
      /\ seal \in [Attempts -> Contents] /\ dirty \in [Attempts -> Trees \cup {"no"}]
      /\ op \in Ops /\ retired' = retired
  BY <1>1, OthersKept DEF TypeInv
<1>a. Idle.pc = "idle"
  BY DEF Idle
<1>4. Resting(b) /\ Progress(op.pc, b)
  BY <1>1, <1>2, WorkspaceParts DEF SafetyInv
<1>5. SUFFICES \A pc : pc = op'.pc => Resting(b)' /\ Progress(pc, b)'
  <2>1. \A a \in Attempts : a # b => Resting(a)'
    <3>1. \A a \in Attempts : Resting(a)
      BY <1>1, WorkspaceParts DEF SafetyInv
    <3> QED BY <1>1, <1>2, <3>1, OthersKept, SameRests
  <2>2. Resting(b)' /\ \A pc : pc = op'.pc => Progress(pc, b)'
    BY <1>5
  <2>3. op' = Idle \/ op'.a = b
    BY <1>1, <1>2, CaptureKinds
  <2>4. WorkspaceSafe'
    <3>1. \A a \in Attempts : Resting(a)'
      BY <2>1, <2>2
    <3>2. CASE op' = Idle
      BY <3>1, <3>2 DEF WorkspaceSafe, Resting, Idle, Abandoning, Preparing, Sealing
    <3>3. CASE op'.a = b
      BY <2>2, <3>1, <3>3 DEF WorkspaceSafe, Resting, Progress, Has, FromSeal
    <3> QED BY <2>3, <3>2, <3>3
  <2> QED BY <2>4
<1>6. TAKE pc
<1>7. HAVE pc = op'.pc
<1> USE DEF Resting, Progress, Journaled, FromStaging, FromSeal, Has, Abandoning, Preparing,
        Sealing
<1>8. CASE Drain
  <2>1. op.pc = "drain" /\ entries' = entries /\ intent' = intent /\ seal' = seal
        /\ \/ op'.pc = "credentials" /\ dirty' = [dirty EXCEPT ![b] = "no"]
           \/ op'.pc = "idle" /\ dirty' = dirty
    BY <1>2, <1>3, <1>a, <1>8 DEF Drain, At, Goto, Ops, disk
  <2> QED BY <1>3, <1>4, <1>7, <2>1
<1>9. CASE RemoveCredentials
  <2>1. op.pc = "credentials" /\ op'.pc = "abandon" /\ UNCHANGED <<intent, seal, dirty>>
        /\ entries' = [entries EXCEPT ![b] = (@ \ {"credentials"}) \cup {"abandoned"}]
    BY <1>2, <1>3, <1>9 DEF RemoveCredentials, At, Goto, Ops, ghosts
  <2> QED BY <1>3, <1>4, <1>7, <2>1
<1>10. CASE Abandon
  <2>1. op.pc = "abandon" /\ op'.pc \in {"abandon", "journal"} /\ dirty' = dirty
    BY <1>3, <1>10 DEF Abandon, At, Goto, Ops, ghosts
  <2> QED BY <1>3, <1>4, <1>7, <2>1
<1>11. CASE Journal
  <2>1. op.pc = "journal" /\ op'.pc = "worker" /\ UNCHANGED <<seal, dirty>>
        /\ entries' = [entries EXCEPT ![b] = @ \cup {"intent"}]
        /\ intent' = [intent EXCEPT ![b] = [tools |-> op.tools, origin |-> "staging"]]
    BY <1>2, <1>3, <1>11 DEF Journal, At, Goto, Ops, Add, ghosts
  <2> QED BY <1>3, <1>4, <1>7, <2>1
<1>12. CASE Worker
  <2>1. op.pc = "worker" /\ op'.pc \in {"staging", "idle"} /\ UNCHANGED <<intent, seal, dirty>>
        /\ \/ entries' = [entries EXCEPT ![b] = @ \cup {"credentials"}]
           \/ entries' = [entries EXCEPT ![b] = @ \ {"credentials"}]
    <3>1. b # 0 /\ op.a = b
      BY <1>2, CapturesAssumption
    <3> QED BY <1>3, <1>a, <1>12, <3>1 DEF Worker, At, Return, Add, Ops, ghosts
  <2> QED BY <1>3, <1>4, <1>7, <2>1
<1>13. CASE Directory("staging", "workspace")
  <2>1. op.pc = "staging" /\ op'.pc = "workspace" /\ UNCHANGED <<intent, seal, dirty>>
        /\ entries' = [entries EXCEPT ![b] = @ \cup {"staging"}]
    BY <1>2, <1>3, <1>13 DEF Directory, At, Goto, Add, Ops, ghosts
  <2> QED BY <1>3, <1>4, <1>7, <2>1
<1>14. CASE Directory("workspace", "capture")
  <2>1. op.pc = "workspace" /\ op'.pc = "capture" /\ UNCHANGED <<intent, seal, dirty>>
        /\ entries' = [entries EXCEPT ![b] = @ \cup {"workspace"}]
    BY <1>2, <1>3, <1>14 DEF Directory, At, Goto, Add, Ops, ghosts
  <2> QED BY <1>3, <1>4, <1>7, <2>1
<1>15. CASE Execute
  <2>1. op.pc = "capture" /\ op'.pc \in {"seal", "cleanup"} /\ UNCHANGED <<entries, intent, seal>>
        /\ dirty' = [dirty EXCEPT ![b] = "staging"]
    BY <1>2, <1>3, <1>15 DEF Execute, Used, At, Fail, Ops
  <2> QED BY <1>3, <1>4, <1>7, <2>1
<1>16. CASE OpenSeal
  <2>1. op.pc = "seal" /\ op'.pc = "copy" /\ UNCHANGED <<intent, seal, dirty>>
        /\ entries' = [entries EXCEPT ![b] = @ \cup {"sealed"}]
    BY <1>2, <1>3, <1>16 DEF OpenSeal, At, Goto, Add, Ops, ghosts
  <2> QED BY <1>3, <1>4, <1>7, <2>1
<1>17. CASE Copy
  <2>1. /\ op.pc = "copy" /\ UNCHANGED <<entries, intent, dirty>>
        /\ op'.pc = "cleanup" \/ (op'.pc = "sealed" /\ seal'[b] = op.artifacts)
    BY <1>2, <1>3, <1>17 DEF Copy, At, Goto, Fail, Ops, ghosts
  <2>2. op.artifacts # Part
    BY <1>1, <2>1 DEF SafetyInv, CaptureSafe
  <2> QED BY <1>3, <1>4, <1>7, <2>1, <2>2
<1>18. CASE JournalSeal
  <2>1. op.pc = "sealed" /\ op'.pc = "restore" /\ UNCHANGED <<entries, seal, dirty>>
        /\ intent' = [intent EXCEPT ![b].origin = "sealed"]
    BY <1>2, <1>3, <1>18 DEF JournalSeal, At, Goto, Ops, ghosts
  <2>2. intent'[b].origin = "sealed"
    BY <1>3, <1>4, <2>1 DEF Intents, NoIntent
  <2> QED BY <1>3, <1>4, <1>7, <2>1, <2>2
<1>19. CASE Restore
  <2>1. op.pc = "restore" /\ op'.pc \in {"certify", "cleanup"}
        /\ UNCHANGED <<entries, intent, seal>> /\ dirty' = [dirty EXCEPT ![b] = "sealed"]
    BY <1>2, <1>3, <1>19 DEF Restore, Used, At, Fail, Ops, disk
  <2> QED BY <1>3, <1>4, <1>7, <2>1
<1>20. CASE Certify
  <2>1. op'.pc = "cleanup" /\ UNCHANGED <<entries, intent, seal, dirty>>
    BY <1>3, <1>20 DEF Certify, Goto, Fail, Ops, disk, ghosts
  <2> QED BY <1>3, <1>4, <1>7, <2>1
<1>21. CASE Cleanup
  <2>1. UNCHANGED <<intent, seal>>
        /\ \/ op'.pc = "workspace-out" /\ dirty' = [dirty EXCEPT ![b] = "no"] /\ entries' = entries
           \/ op'.pc = "idle" /\ dirty' = dirty
              /\ entries' = [entries EXCEPT ![b] = @ \ {"credentials"}]
    <3>1. b # 0 /\ op.a = b
      BY <1>2, CapturesAssumption
    <3> QED BY <1>3, <1>a, <1>21, <3>1 DEF Cleanup, At, Goto, Return, Ops
  <2> QED BY <1>3, <1>4, <1>7, <2>1
<1>22. CASE RemoveWorkspace
  <2>1. op.pc = "workspace-out" /\ op'.pc \in {"publish", "idle"} /\ dirty' = dirty
    BY <1>3, <1>22 DEF RemoveWorkspace, At, Goto, Ops, Idle, ghosts
  <2> QED BY <1>3, <1>4, <1>7, <2>1
<1>23. CASE Publish \/ Mark \/ Finish
  <2>1. op'.pc \in {"mark", "finish", "idle"} /\ dirty' = dirty
    BY <1>3, <1>23 DEF Publish, Mark, Finish, Goto, Return, Ops, Idle, ghosts
  <2>2. dirty[b] = "no"
    <3>1. CASE Publish
      BY <1>4, <3>1 DEF Publish, At
    <3>2. CASE Mark
      BY <1>1, <1>2, <3>2 DEF Mark, At, SafetyInv, CaptureSafe, PointSafe
    <3>3. CASE Finish
      BY <1>1, <1>2, <3>3 DEF Finish, At, SafetyInv, CaptureSafe, PointSafe
    <3> QED BY <1>23, <3>1, <3>2, <3>3
  <2> QED BY <1>3, <1>7, <2>1, <2>2
<1> QED BY <1>1, <1>8, <1>9, <1>10, <1>11, <1>12, <1>13, <1>14, <1>15, <1>16, <1>17, <1>18,
           <1>19, <1>20, <1>21, <1>22, <1>23 DEF CaptureActions

\* Every step leaves the workspaces as the program counter says.
LEMMA WorkspaceSafeNext == TypeInv /\ SafetyInv /\ [Next]_vars => WorkspaceSafe'
<1>1. SUFFICES ASSUME TypeInv, SafetyInv, [Next]_vars PROVE WorkspaceSafe'
  OBVIOUS
<1>2. /\ entries \in [Attempts -> SUBSET Names] /\ intent \in [Attempts -> Intents]
      /\ seal \in [Attempts -> Contents] /\ dirty \in [Attempts -> Trees \cup {"no"}]
      /\ op \in Ops /\ retired \in [Attempts -> BOOLEAN]
  BY <1>1 DEF TypeInv
<1>3. (\A b \in Attempts : Resting(b)) /\ Progress(op.pc, op.a)
  BY <1>1, WorkspaceParts DEF SafetyInv
<1>4. ASSUME op'.pc \in {"idle", "prune", "drain"}, \A b \in Attempts : Resting(b)'
      PROVE  WorkspaceSafe'
  BY <1>4 DEF WorkspaceSafe, Resting, Abandoning, Preparing, Sealing
<1>5. CASE \E a \in Attempts, retry \in BOOLEAN : Begin(a, retry)
  <2>1. PICK a \in Attempts, retry \in BOOLEAN : Begin(a, retry)
    BY <1>5
  <2>2. /\ op'.a = a /\ op'.pc \in {"journal", "drain", "credentials"}
        /\ op'.pc # "drain" => ~Has(a, "workspace")
    BY <2>1 DEF Begin, Idle, Leftovers, Has
  <2>3. UNCHANGED <<entries, intent, seal, dirty, retired>>
    BY <2>1 DEF Begin, disk, ghosts
  <2>4. \A b \in Attempts : Resting(b)'
    BY <1>3, <2>3 DEF Resting, Journaled, FromStaging, FromSeal, Has
  <2>5. op'.pc # "drain" => dirty[a] = "no" \/ retired[a]
    BY <1>3, <2>2 DEF Resting, Journaled
  <2> QED BY <2>2, <2>3, <2>4, <2>5
          DEF WorkspaceSafe, Resting, Abandoning, Preparing, Sealing
<1>6. CASE Plan
  <2>1. op'.pc = "prune" /\ UNCHANGED <<entries, intent, seal, dirty>>
    BY <1>6 DEF Plan, Idle, disk
  <2>2. \A b \in Attempts : retired[b] => retired'[b]
    BY <1>6 DEF Plan
  <2> QED BY <1>3, <1>4, <2>1, <2>2 DEF Resting, Journaled, FromStaging, FromSeal, Has
<1>7. CASE Retire
  <2>1. PICK a \in Attempts :
          /\ entries' = [entries EXCEPT ![a] = (@ \ {"point"}) \cup {"tombstone"}]
          /\ op' = [op EXCEPT !.todo = (@ \ {<<a, "point">>}) \cup {<<a, "tombstone">>}]
          /\ retired' = [retired EXCEPT ![a] = TRUE]
    BY <1>7 DEF Retire, RetireFirst, Retiring
  <2>2. op'.pc = "prune" /\ UNCHANGED <<intent, seal, dirty>>
    BY <1>2, <1>7, <2>1 DEF Retire, At, Ops
  <2>3. \A b \in Attempts : Resting(b)'
    BY <1>2, <1>3, <2>1, <2>2 DEF Resting, Journaled, FromStaging, FromSeal, Has
  <2> QED BY <1>4, <2>2, <2>3
<1>8. CASE Delete
  <2>1. op.pc = "prune" /\ retired' = retired
    BY <1>8 DEF Delete, At
  <2>2. PICK e \in op.todo :
          \/ /\ Gone(e[1], e[2])
             /\ dirty' = IF e[2] = "workspace" THEN [dirty EXCEPT ![e[1]] = "no"] ELSE dirty
          \/ /\ seal' = IF e[2] = "sealed" THEN [seal EXCEPT ![e[1]] = Part] ELSE seal
             /\ UNCHANGED <<entries, intent, dirty>>
    BY <1>8 DEF Delete
  <2>3. op'.pc \in {"prune", "idle"}
    BY <1>2, <1>8, <2>1 DEF Delete, Idle, Ops
  <2>4. e[1] \in Attempts /\ (retired[e[1]] \/ dirty[e[1]] = "no")
    BY <1>1, <1>2, <2>1 DEF SafetyInv, PruneSafe, PointSafe, Ops
  <2>5. ASSUME NEW b \in Attempts PROVE Resting(b)'
    <3>1. CASE b = e[1]
      BY <1>2, <2>1, <2>2, <2>4, <3>1 DEF Resting
    <3>2. CASE b # e[1]
      <4>1. entries'[b] = entries[b] /\ intent'[b] = intent[b] /\ seal'[b] = seal[b]
            /\ dirty'[b] = dirty[b]
        BY <1>2, <2>2, <2>4, <3>2 DEF Gone
      <4> QED BY <1>3, <2>1, <4>1 DEF Resting, Journaled, FromStaging, FromSeal, Has
    <3> QED BY <3>1, <3>2
  <2> QED BY <1>4, <2>3, <2>5
<1>9. CASE Kill
  <2>1. op'.pc = "idle" /\ UNCHANGED <<entries, intent, seal, dirty, retired>>
    BY <1>9 DEF Kill, Idle, disk
  <2> QED BY <1>3, <1>4, <2>1 DEF Resting, Journaled, FromStaging, FromSeal, Has
<1>10. CASE Redeploy \/ (\E a \in Attempts : Alter(a)) \/ UNCHANGED vars
  <2>1. UNCHANGED <<entries, intent, seal, dirty, retired, op>>
    BY <1>10 DEF Redeploy, Alter, vars, disk, ghosts
  <2> QED BY <1>1, <2>1 DEF SafetyInv, WorkspaceSafe, Journaled, FromStaging, FromSeal, Has
<1> QED BY <1>1, <1>5, <1>6, <1>7, <1>8, <1>9, <1>10, WorkspaceCapture
        DEF Next, Capture, Prune, CaptureActions

\* The inductive step, whether or not names are used again.
LEMMA SafetyNext == TypeInv /\ SafetyInv /\ [Next]_vars => (TypeInv /\ SafetyInv)'
BY TypeNext, PointSafeNext, CaptureSafeNext, WorkspaceSafeNext, PruneSafeNext, LastNext
   DEF SafetyInv

-----------------------------------------------------------------------------

\* A capture adds no tombstone.
LEMMA NoTombstone ==
  ASSUME TypeInv, CaptureActions, NEW b \in Attempts, HasNext(b, "tombstone")
  PROVE  Has(b, "tombstone")
<1>1. entries \in [Attempts -> SUBSET Names]
  BY DEF TypeInv
<1>2. CASE Drain \/ RemoveCredentials \/ Journal \/ Worker
  BY <1>1, <1>2
     DEF Drain, RemoveCredentials, Journal, Worker, Return, Add, HasNext, Has, disk
<1>3. CASE Abandon
  BY <1>1, <1>3 DEF Abandon, Gone, HasNext, Has
<1>4. CASE Directory("staging", "workspace") \/ Directory("workspace", "capture") \/ OpenSeal
  BY <1>1, <1>4 DEF Directory, OpenSeal, Add, HasNext, Has
<1>5. CASE Execute \/ Copy \/ JournalSeal \/ Restore \/ Certify \/ Mark
  BY <1>5 DEF Execute, Copy, JournalSeal, Restore, Certify, Mark, HasNext, Has, disk
<1>6. CASE Cleanup \/ RemoveWorkspace \/ Publish \/ Finish
  BY <1>1, <1>6 DEF Cleanup, RemoveWorkspace, Publish, Finish, Return, HasNext, Has
<1> QED BY <1>2, <1>3, <1>4, <1>5, <1>6 DEF CaptureActions

\* Where no name is captured again once it is being retired, a tombstone stands
\* beside no point, and no point is being retired.
LEMMA ReuseSafeNext ==
  ~MayReuse /\ TypeInv /\ SafetyInv /\ ReuseSafe /\ [Next]_vars => ReuseSafe'
<1>1. SUFFICES ASSUME ~MayReuse, TypeInv, SafetyInv, ReuseSafe, [Next]_vars PROVE ReuseSafe'
  OBVIOUS
<1>2. /\ entries \in [Attempts -> SUBSET Names] /\ op \in Ops
      /\ retired \in [Attempts -> BOOLEAN]
  BY <1>1 DEF TypeInv
<1>3. "prune" \notin Capturing /\ "idle" \notin Capturing
  BY DEF Capturing, Unpublished, Abandoning, Preparing, Sealing, Closing
<1>4. CASE CaptureActions
  <2>1. /\ op.pc \in Capturing /\ op.a \in Attempts /\ retired' = retired /\ ~retired[op.a]
        /\ op' = Idle \/ op'.a = op.a
    BY <1>1, <1>4, CaptureKinds, OthersKept DEF ReuseSafe
  <2>2. op'.pc \in Capturing => ~retired'[op'.a]
    BY <1>3, <2>1 DEF Idle
  <2>3. \A b \in Attempts : HasNext(b, "tombstone") => retired[b]
    BY <1>1, <1>4, NoTombstone DEF ReuseSafe
  <2>4. \A b \in Attempts : HasNext(b, "point") => ~retired[b]
    BY <1>1, <1>4, <2>1, OthersKept DEF ReuseSafe, Same, HasNext, Has
  <2> QED BY <2>1, <2>2, <2>3, <2>4 DEF ReuseSafe, HasNext, Has
<1>5. CASE \E a \in Attempts, retry \in BOOLEAN : Begin(a, retry)
  <2>1. PICK a \in Attempts, retry \in BOOLEAN : Begin(a, retry)
    BY <1>5
  <2>2. op'.a = a /\ ~retired[a] /\ UNCHANGED <<entries, retired>>
    BY <1>1, <2>1 DEF Begin, Idle, disk, ghosts
  <2> QED BY <1>1, <2>2 DEF ReuseSafe, Has
<1>6. CASE Plan
  <2>1. PICK aged \in SUBSET (Groups \ Accepted) :
          /\ op' = [Idle EXCEPT !.pc = "prune", !.todo = Removal(aged)]
          /\ retired' = [a \in Attempts |-> retired[a] \/ <<a, "tombstone">> \in Removal(aged)
               \/ (a \notin Accepted /\ \E name \in Names : <<a, name>> \in Removal(aged))]
    BY <1>6 DEF Plan
  <2>2. op'.pc = "prune" /\ entries' = entries
    BY <1>6, <2>1 DEF Plan, Idle, disk
  <2>3. ASSUME NEW b \in Attempts, Has(b, "point") PROVE ~retired'[b]
    <3>1. ~retired[b] /\ ~Has(b, "tombstone")
      BY <1>1, <2>3 DEF ReuseSafe
    <3>2. <<b, "tombstone">> \notin Removal(aged)
      BY <3>1 DEF Removal
    <3>3. \A name \in Names : <<b, name>> \in Removal(aged) => b \in Accepted
      BY <2>3 DEF Removal, Accepted
    <3> QED BY <2>1, <3>1, <3>2, <3>3
  <2>4. \A b \in Attempts : Has(b, "tombstone") => retired'[b]
    BY <1>1, <2>1 DEF ReuseSafe
  <2> QED BY <1>3, <2>2, <2>3, <2>4 DEF ReuseSafe, Has
<1>7. CASE Retire
  <2>1. PICK a \in Attempts :
          /\ entries' = [entries EXCEPT ![a] = (@ \ {"point"}) \cup {"tombstone"}]
          /\ retired' = [retired EXCEPT ![a] = TRUE]
    BY <1>7 DEF Retire, RetireFirst, Retiring
  <2>2. op'.pc = "prune"
    BY <1>2, <1>7 DEF Retire, At, Ops
  <2> QED BY <1>1, <1>2, <1>3, <2>1, <2>2 DEF ReuseSafe, Has
<1>8. CASE Delete
  <2>1. retired' = retired /\ op'.pc \in {"prune", "idle"}
    BY <1>2, <1>8 DEF Delete, At, Idle, Ops
  <2>2. \A b \in Attempts, name \in Names : HasNext(b, name) => Has(b, name)
    <3>1. PICK e \in op.todo : Gone(e[1], e[2]) \/ UNCHANGED entries
      BY <1>8 DEF Delete
    <3> QED BY <1>2, <3>1 DEF Gone, HasNext, Has
  <2>3. "tombstone" \in Names /\ "point" \in Names
    BY DEF Names
  <2> QED BY <1>1, <1>3, <2>1, <2>2, <2>3 DEF ReuseSafe, HasNext, Has
<1>9. CASE Kill
  BY <1>1, <1>3, <1>9 DEF Kill, Idle, ReuseSafe, Has, disk
<1>10. CASE Redeploy \/ (\E a \in Attempts : Alter(a)) \/ UNCHANGED vars
  <2>1. UNCHANGED <<entries, retired, op>>
    BY <1>10 DEF Redeploy, Alter, vars, disk, ghosts
  <2> QED BY <1>1, <2>1 DEF ReuseSafe, Has
<1> QED BY <1>1, <1>4, <1>5, <1>6, <1>7, <1>8, <1>9, <1>10
        DEF Next, Capture, Prune, CaptureActions

-----------------------------------------------------------------------------

\* The inductive invariant holds.
LEMMA Inductive == Spec => [](TypeInv /\ SafetyInv)
BY InitSafe, SafetyNext, PTL DEF Spec

\* The trees, the journals and the running operation keep their types.
THEOREM TypeCorrect == Spec => []TypeOK
<1>1. TypeInv => TypeOK
  BY DEF TypeInv, TypeOK, Ops, Intents, Contents
<1> QED BY <1>1, Inductive, PTL

\* LAST_SUCCESS names a whole point at every instant: the capture writes it
\* after the rename, and the prune never plans to remove what it names.
THEOREM LastSuccessStands == Spec => []LastSuccessWhole
<1>1. SafetyInv => LastSuccessWhole
  BY DEF SafetyInv
<1> QED BY <1>1, Inductive, PTL

\* What is published is what was restored and verified from the seal, whatever
\* a worker wrote to its staging meanwhile and wherever the capture was killed.
THEOREM PointsAreRestored == Spec => []AcceptedIsRestored
<1>1. TypeInv /\ SafetyInv => AcceptedIsRestored
  BY DEF SafetyInv, PointSafe, AcceptedIsRestored, VerifyIntegrity
<1> QED BY <1>1, Inductive, PTL

\* A workspace that may be dirty has its journal and the tree the journal names
\* (capture_cleanup_tree), so the retry of an interrupted capture is not refused.
THEOREM CleanupIsPossible == Spec => []CleanupHasItsTree
<1>1. ASSUME TypeInv, SafetyInv PROVE CleanupHasItsTree
  <2>1. SUFFICES ASSUME NEW a \in Attempts, dirty[a] # "no", ~retired[a]
                 PROVE  LET tree == CleanupTree(a, intent[a].tools)
                        IN  /\ {"workspace", tree} \subseteq entries[a]
                            /\ tree = "sealed" => seal[a] # Part
                            /\ dirty[a] = "sealed" => tree = "sealed"
    BY DEF CleanupHasItsTree
  <2>2. Journaled(a) /\ ((FromStaging(a) /\ dirty[a] = "staging") \/ FromSeal(a))
    BY <1>1, <2>1 DEF SafetyInv, WorkspaceSafe
  <2> QED BY <2>2 DEF CleanupTree, Journaled, FromStaging, FromSeal, Has
<1> QED BY <1>1, Inductive, PTL

\* Retention never blocks itself: where no name is captured again once it is
\* being retired, as the timer's are not, the plan of the next prune is not
\* refused after any interruption (PlanRefused; application_retention.rs).
THEOREM PruneIsAdmitted == ASSUME ~MayReuse PROVE Spec => []PruneAdmitted
<1>1. Init => ReuseSafe
  BY InitSafe
<1>2. TypeInv /\ SafetyInv /\ ReuseSafe /\ [Next]_vars => ReuseSafe'
  BY ReuseSafeNext
<1>3. ASSUME TypeInv, SafetyInv, ReuseSafe PROVE PruneAdmitted
  <2>1. LastSuccessWhole
    BY <1>3 DEF SafetyInv
  <2>2. ASSUME NEW a \in Accepted
        PROVE  ~Has(a, "tombstone") /\ point[a].artifacts # Part /\ ~(point[a].at > clock)
    <3>1. a \in Attempts /\ Has(a, "point")
      BY CapturesAssumption DEF Accepted, Groups
    <3>2. point[a].at \in Int /\ clock \in Int
      BY <1>3, <3>1, CapturesAssumption DEF TypeInv, Points
    <3> QED BY <1>3, <3>1, <3>2 DEF SafetyInv, PointSafe, ReuseSafe
  <2> QED BY <2>1, <2>2 DEF PruneAdmitted, PlanRefused, LastSuccessWhole
<1> QED BY <1>1, <1>2, <1>3, Inductive, PTL DEF Spec

(***************************************************************************)
(* Custody: the inductive invariant.                                       *)
(***************************************************************************)
Partial(S) == UNION {[D -> S] : D \in SUBSET Roots}
Markers == Identifiers \cup {NoIdentifier}
Evidences == [snapshot : Nat, needs : Partial(Data)]
Receipts == [id : Markers, dirs : SUBSET Roots, inventory : Partial(Data), meta : Partial(Nat),
             born : Partial(Nat), evidence : Evidences]
CertifierPcs == {"out", "database", "namespaces", "lock"} \cup Comparing \cup Publishing
AdmissionPcs == {"out", "pinned", "early", "inspect", "ready"} \cup Inspecting

Certifiers == [pc : CertifierPcs, id : Markers, dirs : SUBSET Roots, left : SUBSET Roots,
               born : Partial(Nat), seen : Partial(Data), meta : Partial(Nat), evidence : Evidences]
Adopters == [pc : {"out", "anchor", "identity"}, id : Markers, dirs : SUBSET Roots, left : SUBSET Roots]
Admissions == [pc : AdmissionPcs, phase : {"none", "preflight", "activate"}, dirs : SUBSET Roots,
               todo : SUBSET {"files", "rows"}, left : SUBSET Roots, meta : Partial(Nat),
               took : Receipts, asked : Evidences, held : Partial(SUBSET Data)]

SourcesTyped ==
  /\ consumer \in BOOLEAN /\ unit \in BOOLEAN
  /\ contract \in Contracts
  /\ corpus \in [Roots -> Data]
  /\ changes \in Nat /\ commands \in Nat
  /\ written \in [Roots -> Nat] /\ born \in [Roots -> Nat]
  /\ database \in Evidences

StorageTyped ==
  /\ anchor \in [Roots -> Markers]
  /\ identity \in [id : Markers, dirs : SUBSET Roots]
  /\ receipt \in Receipts /\ expired \in BOOLEAN
  /\ served \in {"out", "inspected", "running"}

CustodyTyped ==
  /\ SourcesTyped /\ StorageTyped
  /\ certifier \in Certifiers /\ adopter \in Adopters /\ admission \in Admissions

LeaseSafe ==
  /\ certifier.pc \in Comparing \cup Publishing => adopter.pc = "out" /\ ~Shared
  /\ adopter.pc # "out" => ~Shared

MarkingSafe ==
  /\ certifier.pc # "out" => certifier.id # NoIdentifier
  /\ certifier.pc \in {"anchor", "identity"} => identity.id = NoIdentifier
  /\ certifier.pc = "anchor" => \A r \in certifier.left : anchor[r] \in {NoIdentifier, certifier.id}
  /\ adopter.pc # "out" => adopter.id # NoIdentifier /\ identity.id = NoIdentifier
  /\ adopter.pc = "anchor" => \A r \in adopter.left : anchor[r] \in {NoIdentifier, adopter.id}

\* The metadata says which contents were read.
Agrees(inventory, meta, r) == meta[r] <= changes /\ (written[r] = meta[r] => corpus[r] = inventory[r])

WrittenBefore == \A r \in Roots : written[r] <= changes /\ born[r] <= changes

Compared == {"compare"} \cup {"meta", "second", "admit"} \cup Publishing
Reread == IF certifier.pc = "second" THEN certifier.dirs \ certifier.left
          ELSE IF certifier.pc \in {"admit"} \cup Publishing THEN certifier.dirs ELSE {}

ComparisonSafe ==
  /\ certifier.pc \in {"database", "namespaces", "lock"} => DOMAIN certifier.seen = {}
  /\ certifier.pc \in {"database", "namespaces", "lock", "first", "compare"} => DOMAIN certifier.meta = {}
  /\ certifier.pc \in {"first", "meta", "second"} => certifier.left \subseteq certifier.dirs
  /\ certifier.pc = "first" => DOMAIN certifier.seen = certifier.dirs \ certifier.left
  /\ certifier.pc \in Compared => DOMAIN certifier.seen = certifier.dirs
  /\ certifier.pc \in Compared \ {"compare"} => Meets(certifier.seen, certifier.evidence.needs)
  /\ certifier.pc = "meta" => DOMAIN certifier.meta = certifier.dirs \ certifier.left
  /\ certifier.pc \in Compared \ {"compare", "meta"} => DOMAIN certifier.meta = certifier.dirs
  /\ \A r \in DOMAIN certifier.meta : certifier.meta[r] <= changes
  /\ \A r \in Reread : Agrees(certifier.seen, certifier.meta, r)

ReceiptSafe ==
  /\ DOMAIN receipt.inventory = receipt.dirs /\ DOMAIN receipt.meta = receipt.dirs
  /\ Meets(receipt.inventory, receipt.evidence.needs)
  /\ \A r \in receipt.dirs : Agrees(receipt.inventory, receipt.meta, r)

\* What the worker of an admission has seen of r is in `held` if it is what is certified.
Looking == {"early", "walk", "inspect", "receipt"}
Seen(inventory, meta, r) == meta[r] = admission.meta[r] => inventory[r] \in admission.held[r]

AdmissionSafe ==
  /\ admission.pc \in {"pinned", "contents"} => DOMAIN admission.meta = {}
  /\ admission.pc \in Looking => DOMAIN admission.held = Roots
  /\ admission.pc \in {"early", "walk"} =>
       /\ admission.left \subseteq admission.dirs
       /\ DOMAIN admission.meta = admission.dirs \ admission.left
  /\ admission.pc \in {"inspect", "receipt"} => DOMAIN admission.meta = admission.dirs
  /\ admission.pc \in {"early", "inspect"} => ~consumer
  /\ admission.pc = "walk" => consumer
  /\ admission.pc \in Looking =>
       /\ \A r \in DOMAIN admission.meta : admission.meta[r] <= changes
       /\ \A r \in DOMAIN admission.meta \cap receipt.dirs : Seen(receipt.inventory, receipt.meta, r)
  /\ admission.pc \in Looking /\ ~consumer =>
       /\ \A r \in Roots : corpus[r] \in admission.held[r]
       /\ \A r \in DOMAIN admission.meta \cap Reread : Seen(certifier.seen, certifier.meta, r)
  /\ admission.pc = "walk" =>
       \A r \in admission.left \cap receipt.dirs :
         receipt.meta[r] = written[r] => receipt.inventory[r] \in admission.held[r]

TakenSafe ==
  /\ Meets(admission.took.inventory, admission.took.evidence.needs)
  /\ \A r \in DOMAIN admission.took.inventory : r \in admission.dirs /\ admission.took.inventory[r] \in admission.held[r]
  /\ admission.took # NoReceipt => DOMAIN admission.took.inventory = admission.dirs
  /\ admission.pc = "pinned" /\ "files" \in admission.todo => admission.took = NoReceipt
  /\ admission.pc \in Looking => admission.took = NoReceipt
  /\ admission.pc = "ready" => Paired(admission.took.evidence, admission.asked)

LEMMA AlsoIs ==
  ASSUME NEW S, NEW f \in Partial(S), NEW r \in Roots, NEW v \in S
  PROVE  /\ Also(f, r, v) \in Partial(S)
         /\ DOMAIN Also(f, r, v) = DOMAIN f \cup {r}
         /\ Also(f, r, v)[r] = v
         /\ \A x \in DOMAIN f : x # r => Also(f, r, v)[x] = f[x]
<1>1. PICK D \in SUBSET Roots : f \in [D -> S]
  BY DEF Partial
<1>2. Also(f, r, v) \in [D \cup {r} -> S] /\ D \cup {r} \in SUBSET Roots
  BY <1>1 DEF Also
<1> QED
  BY <1>1, <1>2 DEF Also, Partial

LEMMA EmptyIs == ASSUME NEW S PROVE Empty \in Partial(S) /\ DOMAIN Empty = {}
<1>1. Empty \in [{} -> S] /\ {} \in SUBSET Roots
  BY DEF Empty
<1> QED
  BY <1>1 DEF Partial, Empty

LEMMA NothingTyped ==
  /\ NoEvidence \in Evidences /\ NoReceipt \in Receipts
  /\ NoCertifier \in Certifiers /\ NoAdopter \in Adopters /\ NoAdmission \in Admissions
<1>1. NoEvidence \in Evidences
  BY EmptyIs DEF NoEvidence, Evidences
<1>2. NoReceipt \in Receipts
  BY <1>1, EmptyIs DEF NoReceipt, Receipts, Markers
<1>3. NoCertifier \in Certifiers
  BY <1>1, EmptyIs DEF NoCertifier, Certifiers, Markers, CertifierPcs
<1>4. NoAdopter \in Adopters
  BY DEF NoAdopter, Adopters, Markers
<1>5. NoAdmission \in Admissions
  BY <1>1, <1>2, EmptyIs DEF NoAdmission, Admissions, AdmissionPcs
<1> QED
  BY <1>1, <1>2, <1>3, <1>4, <1>5

LEMMA RequirementsTyped == Requirements \subseteq Partial(Data)
BY CustodyAssumption DEF Partial

LEMMA IdentitiesTyped ==
  ASSUME CustodyTyped, NEW D \in SUBSET Roots
  PROVE  RootIdentities(D) \in Partial(Nat)
<1>1. RootIdentities(D) \in [D -> Nat]
  BY DEF RootIdentities, CustodyTyped, SourcesTyped
<1> QED
  BY <1>1 DEF Partial

LEMMA CertifierTypedNext ==
  ASSUME CustodyTyped, CustodyNext
  PROVE  certifier' \in Certifiers
<1> USE DEF CustodyTyped, SourcesTyped
<1>1. ASSUME NEW id \in Identifiers, CertifyBegin(id) PROVE certifier' \in Certifiers
  BY <1>1, NothingTyped
     DEF CertifyBegin, NoCertifier, Certifiers, Contracts, Markers, CertifierPcs
<1>2. CASE CertifyDatabase \/ CertifyNamespaces
  BY <1>2 DEF CertifyDatabase, CertifyNamespaces, Certifiers, CertifierPcs
<1>3. CASE CertifyLock
  BY <1>3, IdentitiesTyped DEF CertifyLock, Certifiers, CertifierPcs, Comparing
<1>4. ASSUME NEW r \in Roots, CertifyRead(r) PROVE certifier' \in Certifiers
  <2>1. Also(certifier.seen, r, corpus[r]) \in Partial(Data)
    BY AlsoIs DEF Certifiers
  <2> QED
    BY <1>4, <2>1 DEF CertifyRead, Certifiers, CertifierPcs, Comparing
<1>5. CASE CertifyCompare
  BY <1>5 DEF CertifyCompare, Certifiers, CertifierPcs, Comparing
<1>6. ASSUME NEW r \in Roots, CertifyMeta(r) PROVE certifier' \in Certifiers
  <2>1. Also(certifier.meta, r, written[r]) \in Partial(Nat)
    BY AlsoIs DEF Certifiers
  <2> QED
    BY <1>6, <2>1 DEF CertifyMeta, Certifiers, CertifierPcs, Comparing
<1>7. ASSUME NEW r \in Roots, CertifyReread(r) PROVE certifier' \in Certifiers
  BY <1>7 DEF CertifyReread, Certifiers, CertifierPcs, Comparing
<1>8. CASE CertifyAdmit
  BY <1>8 DEF CertifyAdmit, Certifiers, CertifierPcs, Publishing
<1>9. ASSUME NEW r \in Roots, CertifyAnchor(r) PROVE certifier' \in Certifiers
  BY <1>9 DEF CertifyAnchor, Certifiers, CertifierPcs, Publishing
<1>10. CASE CertifyIdentity
  BY <1>10 DEF CertifyIdentity, Certifiers, CertifierPcs, Publishing
<1>11. CASE CertifyReceipt \/ CertifyStops
  BY <1>11, NothingTyped DEF CertifyReceipt, CertifyStops
<1>12. CASE Adoption \/ Serve \/ Admission \/ Surroundings
  BY <1>12
     DEF Adoption, AdoptBegin, AdoptAnchor, AdoptIdentity, AdoptStops, Serve, ServeInspect,
    ServeStart, ServeEnds, Admission, CheckBegin, CheckRows, CheckFiles, CheckMeta, CheckInspect,
    CheckReceipt, CheckContents, CheckReady, CheckStops, Surroundings, WriteFile, ReplaceRoot,
    Reconfigure, MoveDatabase, UnitStarts, UnitStops, Expire, programs
<1> QED
  BY <1>1, <1>2, <1>3, <1>4, <1>5, <1>6, <1>7, <1>8, <1>9, <1>10, <1>11, <1>12
     DEF CustodyNext, Certification

LEMMA AdopterTypedNext ==
  ASSUME CustodyTyped, CustodyNext
  PROVE  adopter' \in Adopters
<1> USE DEF CustodyTyped, SourcesTyped
<1>1. ASSUME NEW id \in Identifiers, AdoptBegin(id) PROVE adopter' \in Adopters
  BY <1>1 DEF AdoptBegin, Adopters, Contracts, Markers
<1>2. ASSUME NEW r \in Roots, AdoptAnchor(r) PROVE adopter' \in Adopters
  BY <1>2 DEF AdoptAnchor, Adopters
<1>3. CASE AdoptIdentity \/ AdoptStops
  BY <1>3, NothingTyped DEF AdoptIdentity, AdoptStops
<1>4. CASE Certification \/ Serve \/ Admission \/ Surroundings
  BY <1>4
     DEF Certification, CertifyBegin, CertifyDatabase, CertifyNamespaces, CertifyLock,
         CertifyRead, CertifyCompare,
    CertifyMeta, CertifyReread, CertifyAdmit, CertifyAnchor, CertifyIdentity, CertifyReceipt,
    CertifyStops, Serve, ServeInspect,
    ServeStart, ServeEnds, Admission, CheckBegin, CheckRows, CheckFiles, CheckMeta, CheckInspect,
    CheckReceipt, CheckContents, CheckReady, CheckStops, Surroundings, WriteFile, ReplaceRoot,
    Reconfigure, MoveDatabase, UnitStarts, UnitStops, Expire, programs
<1> QED
  BY <1>1, <1>2, <1>3, <1>4 DEF CustodyNext, Adoption

LEMMA AdmissionTypedNext ==
  ASSUME CustodyTyped, AdmissionSafe, CustodyNext
  PROVE  admission' \in Admissions
<1> USE DEF CustodyTyped, SourcesTyped
<1>1. ASSUME NEW phase \in {"preflight", "activate"}, CheckBegin(phase) PROVE admission' \in Admissions
  BY <1>1, NothingTyped DEF CheckBegin, NoAdmission, Admissions, Contracts, AdmissionPcs
<1>2. CASE CheckRows
  BY <1>2 DEF CheckRows, Admissions, AdmissionPcs
<1>3. CASE CheckFiles
  <2>1. [r \in Roots |-> {corpus[r]}] \in [Roots -> SUBSET Data] /\ Roots \in SUBSET Roots
    OBVIOUS
  <2>2. [r \in Roots |-> {corpus[r]}] \in Partial(SUBSET Data)
    BY <2>1 DEF Partial
  <2> QED
    BY <1>3, <2>2 DEF CheckFiles, Admissions, AdmissionPcs, Inspecting
<1>4. ASSUME NEW r \in Roots, CheckMeta(r) PROVE admission' \in Admissions
  <2>1. Also(admission.meta, r, written[r]) \in Partial(Nat)
    BY AlsoIs DEF Admissions
  <2> QED
    BY <1>4, <2>1 DEF CheckMeta, Admissions, AdmissionPcs, Inspecting
<1>5. CASE CheckInspect \/ CheckReady
  BY <1>5 DEF CheckInspect, CheckReady, Admissions, AdmissionPcs, Inspecting
<1>6. CASE CheckReceipt
  BY <1>6, EmptyIs DEF CheckReceipt, Admissions, AdmissionPcs, Inspecting, StorageTyped
<1>7. ASSUME NEW r \in Roots, CheckContents(r) PROVE admission' \in Admissions
  BY <1>7 DEF CheckContents, Admissions, AdmissionPcs
<1>8. CASE CheckStops
  BY <1>8, NothingTyped DEF CheckStops
<1>9. ASSUME NEW r \in Roots, NEW v \in Data, Noticed(r, v) PROVE admission' \in Admissions
  <2>1. CASE ~consumer /\ admission.pc \in {"early", "inspect", "receipt"}
    <3>1. admission.held \in [Roots -> SUBSET Data]
      BY <2>1 DEF AdmissionSafe, Looking, Admissions, Partial
    <3>2. [admission.held EXCEPT ![r] = @ \cup {v}] \in [Roots -> SUBSET Data] /\ Roots \in SUBSET Roots
      BY <3>1
    <3>3. [admission.held EXCEPT ![r] = @ \cup {v}] \in Partial(SUBSET Data)
      BY <3>2 DEF Partial
    <3> QED
      BY <1>9, <2>1, <3>3 DEF Noticed, Admissions
  <2> QED
    BY <1>9, <2>1 DEF Noticed
<1>10. CASE Certification \/ Serve \/ Adoption \/ Reconfigure \/ MoveDatabase \/ UnitStarts \/ UnitStops \/ Expire
  BY <1>10
     DEF Certification, CertifyBegin, CertifyDatabase, CertifyNamespaces, CertifyLock,
         CertifyRead, CertifyCompare,
    CertifyMeta, CertifyReread, CertifyAdmit, CertifyAnchor, CertifyIdentity, CertifyReceipt,
    CertifyStops, Serve, ServeInspect, ServeStart, ServeEnds,
    Adoption, AdoptBegin, AdoptAnchor, AdoptIdentity, AdoptStops,
    Reconfigure, MoveDatabase, UnitStarts, UnitStops, Expire, programs
<1> QED
  BY <1>1, <1>2, <1>3, <1>4, <1>5, <1>6, <1>7, <1>8, <1>9, <1>10
  DEF CustodyNext, Admission, Surroundings, WriteFile, ReplaceRoot

LEMMA RestTypedNext ==
  ASSUME CustodyTyped, CustodyNext
  PROVE  SourcesTyped' /\ StorageTyped'
<1> USE DEF CustodyTyped, SourcesTyped, StorageTyped, Started
<1>1. CASE CertifyReceipt
  BY <1>1 DEF CertifyReceipt, Certifiers, Receipts, sources
<1>2. ASSUME NEW r \in Roots, CertifyAnchor(r) \/ AdoptAnchor(r) PROVE SourcesTyped' /\ StorageTyped'
  BY <1>2 DEF CertifyAnchor, AdoptAnchor, Certifiers, Adopters, sources
<1>3. CASE CertifyIdentity \/ AdoptIdentity
  BY <1>3 DEF CertifyIdentity, AdoptIdentity, Certifiers, Adopters, sources
<1>4. CASE \/ \E id \in Identifiers : CertifyBegin(id) \/ AdoptBegin(id)
           \/ \E phase \in {"preflight", "activate"} : CheckBegin(phase)
           \/ Serve
  <2>1. UNCHANGED <<sources, custody>>
    BY <1>4
       DEF CertifyBegin, AdoptBegin, CheckBegin, Serve, ServeInspect, ServeStart, ServeEnds
  <2>2. commands' \in {commands, commands + 1}
    BY <1>4
       DEF CertifyBegin, AdoptBegin, CheckBegin, Serve, ServeInspect, ServeStart, ServeEnds
  <2>3. served' \in {served, "out", "inspected", "running"}
    BY <1>4
       DEF CertifyBegin, AdoptBegin, CheckBegin, Serve, ServeInspect, ServeStart, ServeEnds
  <2> QED
    BY <2>1, <2>2, <2>3 DEF sources, custody
<1>9. CASE \/ CertifyDatabase \/ CertifyNamespaces \/ CertifyLock \/ CertifyCompare \/ CertifyAdmit \/ CertifyStops \/ AdoptStops
           \/ \E r \in Roots : CertifyRead(r) \/ CertifyMeta(r) \/ CertifyReread(r)
  <2>1. UNCHANGED <<sources, custody, served, commands>>
    BY <1>9
       DEF CertifyDatabase, CertifyNamespaces, CertifyLock, CertifyRead, CertifyCompare,
           CertifyMeta, CertifyReread,
      CertifyAdmit, CertifyStops, AdoptStops
  <2> QED
    BY <2>1 DEF sources, custody
<1>10. CASE \/ CheckRows \/ CheckFiles \/ CheckInspect \/ CheckReceipt \/ CheckReady \/ CheckStops
            \/ \E r \in Roots : CheckMeta(r) \/ CheckContents(r)
  <2>1. UNCHANGED <<sources, custody, served, commands>>
    BY <1>10
       DEF CheckRows, CheckFiles, CheckMeta, CheckInspect, CheckReceipt, CheckContents,
           CheckReady, CheckStops
  <2> QED
    BY <2>1 DEF sources, custody
<1>5. ASSUME NEW r \in Roots, NEW v \in Data, WriteFile(r, v) PROVE SourcesTyped' /\ StorageTyped'
  BY <1>5 DEF WriteFile, Changed, custody
<1>6. ASSUME NEW r \in Roots, NEW v \in Data, ReplaceRoot(r, v) PROVE SourcesTyped' /\ StorageTyped'
  BY <1>6 DEF ReplaceRoot, Changed, Markers
<1>7. CASE Reconfigure
  BY <1>7 DEF Reconfigure, Changed, custody, programs
<1>11. CASE UnitStarts \/ UnitStops
  <2>1. unit' \in BOOLEAN
    BY <1>11, Zenon DEF UnitStarts, UnitStops
  <2>2. /\ UNCHANGED <<consumer, contract, corpus, written, born, database, custody, served, commands>>
        /\ changes' \in {changes, changes + 1}
    BY <1>11 DEF UnitStarts, UnitStops, Changed, programs
  <2> QED
    BY <2>1, <2>2 DEF custody
<1>12. CASE Expire
  BY <1>12 DEF Expire, Changed, programs
<1>8. CASE MoveDatabase
  BY <1>8, RequirementsTyped DEF MoveDatabase, Changed, Evidences, custody, programs
<1> QED
  BY <1>1, <1>2, <1>3, <1>4, <1>5, <1>6, <1>7, <1>8, <1>9, <1>10, <1>11, <1>12
  DEF CustodyNext, Certification, Adoption, Admission, Surroundings

Writing == \E r \in Roots, v \in Data : WriteFile(r, v) \/ ReplaceRoot(r, v)

\* What each program leaves alone.
LEMMA CertificationLeaves ==
  Certification => UNCHANGED <<adopter, admission, served, sources>>
BY
   DEF Certification, CertifyBegin, CertifyDatabase, CertifyNamespaces, CertifyLock,
       CertifyRead, CertifyCompare,
  CertifyMeta, CertifyReread, CertifyAdmit, CertifyAnchor, CertifyIdentity, CertifyReceipt, CertifyStops

LEMMA AdoptionLeaves ==
  Adoption => UNCHANGED <<certifier, admission, served, sources, receipt>>
BY DEF Adoption, AdoptBegin, AdoptAnchor, AdoptIdentity, AdoptStops, custody

LEMMA AdmissionLeaves ==
  Admission => UNCHANGED <<certifier, adopter, served, sources, custody>>
BY
   DEF Admission, CheckBegin, CheckRows, CheckFiles, CheckMeta, CheckInspect, CheckReceipt,
       CheckContents,
  CheckReady, CheckStops

LEMMA ServeLeaves ==
  Serve => UNCHANGED <<certifier, adopter, admission, sources, custody>>
BY DEF Serve, ServeInspect, ServeStart, ServeEnds

LEMMA WritingLeaves ==
  Writing => UNCHANGED <<certifier, adopter, served, consumer, identity, receipt>> /\ changes' = changes + 1
BY DEF Writing, WriteFile, ReplaceRoot, Changed, custody

LEMMA SurroundingsLeave ==
  Surroundings =>
    \/ Writing
    \/ /\ UNCHANGED <<certifier, adopter, admission, served, consumer, anchor, identity, receipt, corpus, written, born>>
       /\ changes' \in {changes, changes + 1}
BY
   DEF Surroundings, Writing, Reconfigure, MoveDatabase, UnitStarts, UnitStops, Expire,
       Changed, custody, programs

\* A write gives a root new contents and new metadata.
LEMMA WritingIs ==
  ASSUME CustodyTyped, Writing
  PROVE  \E r \in Roots, v \in Data :
           /\ Noticed(r, v)
           /\ corpus' = [corpus EXCEPT ![r] = v]
           /\ written' = [written EXCEPT ![r] = changes + 1]
           /\ \/ anchor' = anchor /\ born' = born
              \/ anchor' = [anchor EXCEPT ![r] = NoIdentifier] /\ born' = [born EXCEPT ![r] = changes + 1]
BY DEF Writing, WriteFile, ReplaceRoot, Changed, custody, CustodyTyped, SourcesTyped

LEMMA LeaseNext ==
  ASSUME CustodyTyped, LeaseSafe, CustodyNext
  PROVE  LeaseSafe'
<1>1. CASE Certification
  <2>1. UNCHANGED <<adopter, admission, served>>
    BY <1>1, CertificationLeaves
  <2>2. CASE CertifyLock
    BY <2>1, <2>2 DEF CertifyLock, LeaseSafe, Shared, Exclusive
  <2>3. CASE ~CertifyLock
    <3>1. certifier'.pc \in Comparing \cup Publishing => certifier.pc \in Comparing \cup Publishing
      <4> USE DEF Comparing, Publishing
      <4>1. CASE CertifyReceipt \/ CertifyStops \/ CertifyDatabase \/ CertifyNamespaces \/ \E id \in Identifiers : CertifyBegin(id)
        <5>1. CASE CertifyReceipt \/ CertifyStops
          <6>1. certifier' = NoCertifier
            BY <5>1 DEF CertifyReceipt, CertifyStops
          <6> QED
            BY <6>1 DEF NoCertifier
        <5>2. CASE CertifyDatabase \/ CertifyNamespaces
          <6>1. certifier'.pc \in {"namespaces", "lock"}
            BY <5>2 DEF CertifyDatabase, CertifyNamespaces, CustodyTyped, Certifiers
          <6> QED
            BY <6>1
        <5>3. CASE \E id \in Identifiers : CertifyBegin(id)
          <6>1. certifier'.pc = "database"
            BY <5>3 DEF CertifyBegin, NoCertifier
          <6> QED
            BY <6>1
        <5> QED
          BY <4>1, <5>1, <5>2, <5>3
      <4>2. CASE CertifyCompare \/ CertifyAdmit \/ CertifyIdentity
        BY <4>2 DEF CertifyCompare, CertifyAdmit, CertifyIdentity
      <4>3. CASE \E r \in Roots : CertifyRead(r) \/ CertifyMeta(r) \/ CertifyReread(r) \/ CertifyAnchor(r)
        BY <4>3 DEF CertifyRead, CertifyMeta, CertifyReread, CertifyAnchor
      <4> QED
        BY <1>1, <2>3, <4>1, <4>2, <4>3 DEF Certification
    <3> QED
      BY <2>1, <3>1 DEF LeaseSafe, Shared
  <2> QED
    BY <2>2, <2>3
<1>2. CASE Adoption
  <2>1. UNCHANGED <<certifier, admission, served>>
    BY <1>2, AdoptionLeaves
  <2>2. adopter'.pc # "out" => adopter.pc # "out" \/ (~Exclusive /\ ~Shared)
    BY <1>2 DEF Adoption, AdoptBegin, AdoptAnchor, AdoptIdentity, AdoptStops, NoAdopter
  <2> QED
    BY <2>1, <2>2 DEF LeaseSafe, Shared, Exclusive
<1>3. CASE Serve
  <2>1. UNCHANGED <<certifier, adopter, admission>>
    BY <1>3, ServeLeaves
  <2>2. served' # "out" => served # "out" \/ ~Exclusive
    BY <1>3 DEF Serve, ServeInspect, ServeStart, ServeEnds, Inspected
  <2> QED
    BY <2>1, <2>2 DEF LeaseSafe, Shared, Exclusive
<1>4. CASE Admission
  <2>1. UNCHANGED <<certifier, adopter, served>>
    BY <1>4, AdmissionLeaves
  <2>2. admission'.pc \in Inspecting => admission.pc \in Inspecting \/ ~Exclusive
    <3>1. CASE CheckFiles
      BY <3>1 DEF CheckFiles, Inspected, Inspecting, CustodyTyped, Admissions
    <3>2. CASE CheckInspect
      BY <3>2 DEF CheckInspect, Inspected
    <3>3. ASSUME NEW r \in Roots, CheckMeta(r) PROVE admission'.pc \in Inspecting => admission.pc \in Inspecting
      <4>1. CASE admission.pc = "early"
        <5>1. admission' = [admission EXCEPT !.left = @ \ {r}, !.meta = Also(@, r, written[r]),
                                    !.pc = IF admission.left # {r} THEN "early" ELSE "inspect"]
          BY <3>3, <4>1 DEF CheckMeta, CustodyTyped, Admissions
        <5>2. admission'.pc \in {"early", "inspect"}
          BY <5>1 DEF CustodyTyped, Admissions
        <5> QED
          BY <5>2 DEF Inspecting
      <4>2. CASE admission.pc = "walk"
        BY <4>2 DEF Inspecting
      <4> QED
        BY <3>3, <4>1, <4>2 DEF CheckMeta
    <3>4. CASE CheckReceipt \/ \E r \in Roots : CheckContents(r)
      BY <3>4 DEF CheckReceipt, CheckContents, Inspecting
    <3>5. CASE CheckRows \/ CheckReady \/ CheckStops \/ \E phase \in {"preflight", "activate"} : CheckBegin(phase)
      <4>1. CASE CheckRows \/ CheckReady
        <5>1. admission'.pc \in {"pinned", "ready"}
          BY <4>1 DEF CheckRows, CheckReady, CustodyTyped, Admissions
        <5> QED
          BY <5>1 DEF Inspecting
      <4>2. CASE CheckStops \/ \E phase \in {"preflight", "activate"} : CheckBegin(phase)
        <5>1. CASE CheckStops
          BY <5>1 DEF CheckStops, NoAdmission, Inspecting
        <5>2. ASSUME NEW phase \in {"preflight", "activate"}, CheckBegin(phase) PROVE admission'.pc = "pinned"
          BY <5>2 DEF CheckBegin, NoAdmission
        <5> QED
          BY <4>2, <5>1, <5>2 DEF Inspecting
      <4> QED
        BY <3>5, <4>1, <4>2
    <3> QED
      BY <1>4, <3>1, <3>2, <3>3, <3>4, <3>5 DEF Admission
  <2> QED
    BY <2>1, <2>2 DEF LeaseSafe, Shared, Exclusive
<1>5. CASE Writing
  <2>1. UNCHANGED <<certifier, adopter, served>>
    BY <1>5, WritingLeaves
  <2>2. admission'.pc = admission.pc
    BY <1>5, WritingIs DEF Noticed, CustodyTyped, Admissions
  <2> QED
    BY <2>1, <2>2 DEF LeaseSafe, Shared
<1>6. CASE UNCHANGED <<certifier, adopter, admission, served>>
  BY <1>6 DEF LeaseSafe, Shared
<1> QED
  BY <1>1, <1>2, <1>3, <1>4, <1>5, <1>6, SurroundingsLeave DEF CustodyNext

LEMMA MarkingNext ==
  ASSUME CustodyTyped, LeaseSafe, MarkingSafe, CustodyNext
  PROVE  MarkingSafe'
<1>1. ASSUME NEW r \in Roots, CertifyAnchor(r) PROVE MarkingSafe'
  BY <1>1
     DEF CertifyAnchor, MarkingSafe, LeaseSafe, Publishing, CustodyTyped, Certifiers,
         StorageTyped
<1>2. CASE CertifyAdmit
  <2>1. UNCHANGED <<anchor, identity, adopter>> /\ certifier'.id # NoIdentifier
    BY <1>2 DEF CertifyAdmit, MarkingSafe, CustodyTyped, Certifiers, custody
  <2>2. \/ certifier'.pc = "receipt"
        \/ /\ certifier'.pc = "anchor" /\ identity.id = NoIdentifier
           /\ certifier'.left = certifier.dirs /\ certifier'.id = certifier.id
           /\ Markable(certifier.dirs, certifier.id)
    BY <1>2 DEF CertifyAdmit, CustodyTyped, Certifiers
  <2> QED
    BY <2>1, <2>2 DEF MarkingSafe, Markable
<1>3. CASE CertifyIdentity
  BY <1>3 DEF CertifyIdentity, MarkingSafe, LeaseSafe, Publishing, CustodyTyped, Certifiers
<1>4. ASSUME NEW r \in Roots, AdoptAnchor(r) PROVE MarkingSafe'
  BY <1>4
     DEF AdoptAnchor, MarkingSafe, LeaseSafe, Publishing, CustodyTyped, Adopters,
         StorageTyped
<1>5. CASE AdoptIdentity
  BY <1>5
     DEF AdoptIdentity, MarkingSafe, LeaseSafe, Publishing, CustodyTyped, Adopters,
         NoAdopter
<1>6. ASSUME NEW id \in Identifiers, AdoptBegin(id) PROVE MarkingSafe'
  BY <1>6, CustodyAssumption
     DEF AdoptBegin, Markable, MarkingSafe, LeaseSafe, Exclusive, Publishing, custody
<1>7. CASE \/ \E id \in Identifiers : CertifyBegin(id)
           \/ CertifyDatabase \/ CertifyNamespaces \/ CertifyLock \/ CertifyCompare \/ CertifyReceipt \/ CertifyStops
           \/ \E r \in Roots : CertifyRead(r) \/ CertifyMeta(r) \/ CertifyReread(r)
  <2>1. UNCHANGED <<anchor, identity, adopter>>
    BY <1>7
       DEF CertifyBegin, CertifyDatabase, CertifyNamespaces, CertifyLock, CertifyCompare,
           CertifyReceipt, CertifyStops,
      CertifyRead, CertifyMeta, CertifyReread, custody
  <2>2. CASE \/ \E id \in Identifiers : CertifyBegin(id)
             \/ CertifyDatabase \/ CertifyNamespaces \/ CertifyLock \/ CertifyReceipt \/ CertifyStops
    <3>1. certifier'.pc \notin {"anchor", "identity"} /\ (certifier'.pc # "out" => certifier'.id # NoIdentifier)
      <4>1. CASE \E id \in Identifiers : CertifyBegin(id)
        BY <4>1, CustodyAssumption DEF CertifyBegin, NoCertifier
      <4>2. CASE CertifyDatabase \/ CertifyNamespaces \/ CertifyLock
        BY <4>2
           DEF CertifyDatabase, CertifyNamespaces, CertifyLock, CustodyTyped, Certifiers,
               MarkingSafe
      <4>3. CASE CertifyReceipt \/ CertifyStops
        BY <4>3 DEF CertifyReceipt, CertifyStops, NoCertifier
      <4> QED
        BY <2>2, <4>1, <4>2, <4>3
    <3> QED
      BY <2>1, <3>1 DEF MarkingSafe
  <2>3. CASE CertifyCompare \/ \E r \in Roots : CertifyRead(r) \/ CertifyMeta(r) \/ CertifyReread(r)
    <3>1. certifier'.pc \notin {"anchor", "identity"} /\ certifier'.id # NoIdentifier
      BY <2>3
         DEF CertifyCompare, CertifyRead, CertifyMeta, CertifyReread, CustodyTyped,
             Certifiers, MarkingSafe
    <3> QED
      BY <2>1, <3>1 DEF MarkingSafe
  <2> QED
    BY <1>7, <2>2, <2>3
<1>8. CASE AdoptStops
  BY <1>8 DEF AdoptStops, NoAdopter, MarkingSafe, custody
<1>9. CASE Serve \/ Admission
  BY <1>9, ServeLeaves, AdmissionLeaves DEF MarkingSafe, custody
<1>10. CASE Writing
  <2>1. UNCHANGED <<certifier, adopter, identity>>
    BY <1>10, WritingLeaves
  <2>2. \A r \in Roots : anchor'[r] \in {anchor[r], NoIdentifier}
    BY <1>10, WritingIs DEF CustodyTyped, StorageTyped
  <2>3. certifier.left \subseteq Roots /\ adopter.left \subseteq Roots
    BY DEF CustodyTyped, Certifiers, Adopters
  <2> QED
    BY <2>1, <2>2, <2>3 DEF MarkingSafe
<1>11. CASE UNCHANGED <<certifier, adopter, anchor, identity>>
  BY <1>11 DEF MarkingSafe
<1> QED
  BY <1>1, <1>2, <1>3, <1>4, <1>5, <1>6, <1>7, <1>8, <1>9, <1>10, <1>11, SurroundingsLeave
  DEF CustodyNext, Certification, Adoption

\* What is in an inventory agrees with its metadata until the root is written,
\* and then the metadata differ.
LEMMA StepOfSources ==
  ASSUME CustodyTyped, WrittenBefore, CustodyNext
  PROVE  /\ WrittenBefore' /\ changes <= changes' /\ consumer' = consumer
         /\ \A r \in Roots : \/ written'[r] = written[r] /\ corpus'[r] = corpus[r]
                             \/ written'[r] > changes
<1> USE DEF CustodyTyped, SourcesTyped, WrittenBefore
<1>1. CASE Writing
  <2>1. changes' = changes + 1 /\ consumer' = consumer
    BY <1>1, WritingLeaves
  <2> QED
    BY <1>1, <2>1, WritingIs
<1>2. CASE UNCHANGED <<corpus, written, born, consumer>> /\ changes' \in {changes, changes + 1}
  BY <1>2
<1> QED
  BY <1>1, <1>2, CertificationLeaves, AdoptionLeaves, AdmissionLeaves, ServeLeaves,
     SurroundingsLeave
  DEF CustodyNext, sources

LEMMA AgreesStill ==
  ASSUME CustodyTyped, WrittenBefore, CustodyNext,
         NEW inventory, NEW meta, NEW r \in Roots, meta[r] \in Nat, Agrees(inventory, meta, r)
  PROVE  meta[r] <= changes' /\ (written'[r] = meta[r] => corpus'[r] = inventory[r])
<1>1. changes' \in Nat /\ written'[r] \in Nat /\ changes \in Nat
  BY RestTypedNext DEF CustodyTyped, SourcesTyped
<1> QED
  BY <1>1, StepOfSources DEF Agrees

LEMMA PartialIs ==
  ASSUME NEW S, NEW f \in Partial(S)
  PROVE  DOMAIN f \subseteq Roots /\ \A r \in DOMAIN f : f[r] \in S
BY DEF Partial

\* A root is read again only if it holds what it held at the first reading.
LEMMA CertificationReads ==
  ASSUME CustodyTyped, Certification, ComparisonSafe, NEW r \in Reread'
  PROVE  /\ r \in Roots
         /\ certifier'.seen = certifier.seen /\ certifier'.meta = certifier.meta
         /\ r \in Reread \/ (certifier.pc = "second" /\ corpus[r] = certifier.seen[r] /\ r \in certifier.dirs)
<1> USE DEF CustodyTyped
<1>1. ASSUME NEW id \in Identifiers, CertifyBegin(id) PROVE FALSE
  <2>1. certifier'.pc = "database"
    BY <1>1 DEF CertifyBegin, NoCertifier
  <2> QED
    BY <2>1 DEF Reread, Publishing
<1>2. CASE CertifyDatabase \/ CertifyNamespaces \/ CertifyLock
  <2>1. certifier'.pc \in {"namespaces", "lock", "first"}
    BY <1>2 DEF CertifyDatabase, CertifyNamespaces, CertifyLock, Certifiers
  <2> QED
    BY <2>1 DEF Reread, Publishing
<1>3. ASSUME NEW x \in Roots, CertifyRead(x) PROVE FALSE
  <2>1. certifier'.pc \in {"compare", "first"}
    BY <1>3 DEF CertifyRead, Certifiers
  <2> QED
    BY <2>1 DEF Reread, Publishing
<1>4. CASE CertifyCompare
  <2>1. certifier'.pc = "meta"
    BY <1>4 DEF CertifyCompare, Certifiers
  <2> QED
    BY <2>1 DEF Reread, Publishing
<1>5. ASSUME NEW x \in Roots, CertifyMeta(x) PROVE FALSE
  <2>1. \/ certifier'.pc = "meta"
        \/ certifier'.pc = "second" /\ certifier'.left = certifier.dirs /\ certifier'.dirs = certifier.dirs
    BY <1>5 DEF CertifyMeta, Certifiers
  <2> QED
    BY <2>1 DEF Reread, Publishing
<1>6. CASE \E x \in Roots : CertifyReread(x)
  <2> PICK x \in Roots : CertifyReread(x)
    BY <1>6
  <2>1. /\ certifier.pc = "second" /\ x \in certifier.left /\ corpus[x] = certifier.seen[x]
        /\ certifier'.seen = certifier.seen /\ certifier'.meta = certifier.meta
        /\ certifier'.dirs = certifier.dirs /\ certifier'.left = certifier.left \ {x}
        /\ certifier'.pc = IF certifier.left = {x} THEN "admit" ELSE "second"
    BY DEF CertifyReread, Unchanged, Certifiers
  <2>2. Reread = certifier.dirs \ certifier.left
    BY <2>1 DEF Reread
  <2>3. Reread' \subseteq Reread \cup {x} /\ Reread' \subseteq certifier.dirs
    BY <2>1, <2>2 DEF Reread
  <2> QED
    BY <2>1, <2>3 DEF Certifiers
<1>7. CASE CertifyAdmit \/ CertifyIdentity \/ \E x \in Roots : CertifyAnchor(x)
  <2>1. /\ certifier.pc \in {"admit"} \cup Publishing /\ certifier'.pc \in Publishing
        /\ certifier'.seen = certifier.seen /\ certifier'.meta = certifier.meta
        /\ certifier'.dirs = certifier.dirs
    BY <1>7 DEF CertifyAdmit, CertifyIdentity, CertifyAnchor, Certifiers, Publishing
  <2>2. Reread = certifier.dirs /\ Reread' = certifier.dirs
    BY <2>1 DEF Reread, Publishing
  <2> QED
    BY <2>1, <2>2 DEF Certifiers
<1>8. CASE CertifyReceipt \/ CertifyStops
  <2>1. certifier' = NoCertifier
    BY <1>8 DEF CertifyReceipt, CertifyStops
  <2> QED
    BY <2>1 DEF Reread, NoCertifier, Publishing
<1> QED
  BY <1>1, <1>2, <1>3, <1>4, <1>5, <1>6, <1>7, <1>8 DEF Certification

\* The steps of a certification up to the second reading, where `seen` and
\* `meta` grow.
Domains ==
  /\ certifier.pc \in {"first", "meta", "second"} => certifier.left \subseteq certifier.dirs
  /\ certifier.pc \in {"database", "namespaces", "lock"} => DOMAIN certifier.seen = {}
  /\ certifier.pc \in {"database", "namespaces", "lock", "first", "compare"} => DOMAIN certifier.meta = {}
  /\ certifier.pc = "first" => DOMAIN certifier.seen = certifier.dirs \ certifier.left
  /\ certifier.pc \in Compared => DOMAIN certifier.seen = certifier.dirs
  /\ certifier.pc \in Compared \ {"compare"} => Meets(certifier.seen, certifier.evidence.needs)
  /\ certifier.pc = "meta" => DOMAIN certifier.meta = certifier.dirs \ certifier.left
  /\ certifier.pc \in Compared \ {"compare", "meta"} => DOMAIN certifier.meta = certifier.dirs
  /\ \A r \in DOMAIN certifier.meta : certifier.meta[r] <= changes

LEMMA DomainsNext ==
  ASSUME CustodyTyped, WrittenBefore, Domains, Certification
  PROVE  Domains'
<1> USE DEF CustodyTyped, Compared, Publishing
<1>0. changes' = changes
  BY CertificationLeaves DEF sources
<1>1. ASSUME NEW id \in Identifiers, CertifyBegin(id) PROVE Domains'
  <2>1. certifier'.pc = "database" /\ certifier'.seen = Empty /\ certifier'.meta = Empty
    BY <1>1 DEF CertifyBegin, NoCertifier
  <2> QED
    BY <2>1, EmptyIs DEF Domains
<1>2. CASE CertifyDatabase \/ CertifyNamespaces
  <2>1. /\ certifier.pc \in {"database", "namespaces"} /\ certifier'.pc \in {"namespaces", "lock"}
        /\ certifier'.seen = certifier.seen /\ certifier'.meta = certifier.meta
    BY <1>2 DEF CertifyDatabase, CertifyNamespaces, Certifiers
  <2> QED
    BY <1>0, <2>1 DEF Domains
<1>3. CASE CertifyLock
  <2>1. /\ certifier.pc = "lock" /\ certifier'.pc = "first" /\ certifier'.dirs = certifier.dirs
        /\ certifier'.left = certifier.dirs
        /\ certifier'.seen = certifier.seen /\ certifier'.meta = certifier.meta
    BY <1>3 DEF CertifyLock, Certifiers
  <2> QED
    BY <1>0, <2>1 DEF Domains
<1>4. ASSUME NEW r \in Roots, CertifyRead(r) PROVE Domains'
  <2>1. /\ certifier.pc = "first" /\ r \in certifier.left /\ certifier'.dirs = certifier.dirs
        /\ certifier'.left = certifier.left \ {r}
        /\ certifier'.seen = Also(certifier.seen, r, corpus[r])
        /\ certifier'.meta = certifier.meta
        /\ certifier'.pc = IF certifier.left = {r} THEN "compare" ELSE "first"
    BY <1>4 DEF CertifyRead, Certifiers
  <2>2. DOMAIN certifier'.seen = DOMAIN certifier.seen \cup {r}
    <3>2. DOMAIN Also(certifier.seen, r, corpus[r]) = DOMAIN certifier.seen \cup {r}
      BY DEF Also
    <3> QED
      BY <2>1, <3>2
  <2> QED
    BY <1>0, <2>1, <2>2 DEF Domains
<1>5. CASE CertifyCompare
  <2>1. /\ certifier.pc = "compare" /\ certifier'.pc = "meta" /\ certifier'.left = certifier.dirs
        /\ certifier'.dirs = certifier.dirs /\ certifier'.evidence = certifier.evidence
        /\ certifier'.seen = certifier.seen /\ certifier'.meta = certifier.meta
        /\ Meets(certifier.seen, certifier.evidence.needs)
    BY <1>5 DEF CertifyCompare, Certifiers
  <2>2. Meets(certifier'.seen, certifier'.evidence.needs)
    BY <2>1
  <2> QED
    BY <1>0, <2>1, <2>2 DEF Domains
<1>6. ASSUME NEW r \in Roots, CertifyMeta(r) PROVE Domains'
  <2>1. /\ certifier.pc = "meta" /\ r \in certifier.left /\ certifier'.dirs = certifier.dirs
        /\ certifier'.left = IF certifier.left = {r} THEN certifier.dirs ELSE certifier.left \ {r}
        /\ certifier'.meta = Also(certifier.meta, r, written[r])
        /\ certifier'.seen = certifier.seen /\ certifier'.evidence = certifier.evidence
        /\ certifier'.pc = IF certifier.left = {r} THEN "second" ELSE "meta"
    BY <1>6 DEF CertifyMeta, Certifiers
  <2>2. /\ DOMAIN certifier'.meta = DOMAIN certifier.meta \cup {r}
        /\ certifier'.meta[r] = written[r]
        /\ \A x \in DOMAIN certifier.meta : x # r => certifier'.meta[x] = certifier.meta[x]
    <3> DEFINE more == Also(certifier.meta, r, written[r])
    <3>2. /\ DOMAIN more = DOMAIN certifier.meta \cup {r} /\ more[r] = written[r]
          /\ \A x \in DOMAIN certifier.meta : x # r => more[x] = certifier.meta[x]
      BY DEF Also
    <3>3. certifier'.meta = more
      BY <2>1
    <3> QED
      BY <3>2, <3>3
  <2>3. \A x \in DOMAIN certifier'.meta : certifier'.meta[x] <= changes
    BY <2>2 DEF Domains, WrittenBefore
  <2>4. Meets(certifier'.seen, certifier'.evidence.needs)
    BY <2>1 DEF Domains
  <2> QED
    BY <1>0, <2>1, <2>2, <2>3, <2>4 DEF Domains
<1>7. ASSUME NEW r \in Roots, CertifyReread(r) PROVE Domains'
  <2>1. /\ certifier.pc = "second" /\ certifier'.dirs = certifier.dirs
        /\ certifier'.left = certifier.left \ {r}
        /\ certifier'.meta = certifier.meta
        /\ certifier'.seen = certifier.seen /\ certifier'.evidence = certifier.evidence
        /\ certifier'.pc \in {"admit", "second"}
    BY <1>7 DEF CertifyReread, Certifiers
  <2>2. Meets(certifier'.seen, certifier'.evidence.needs)
    BY <2>1 DEF Domains
  <2> QED
    BY <1>0, <2>1, <2>2 DEF Domains
<1>8. CASE CertifyAdmit \/ CertifyIdentity \/ \E r \in Roots : CertifyAnchor(r)
  <2>1. /\ certifier.pc \in {"admit"} \cup Publishing /\ certifier'.pc \in Publishing
        /\ certifier'.seen = certifier.seen /\ certifier'.meta = certifier.meta
        /\ certifier'.dirs = certifier.dirs /\ certifier'.evidence = certifier.evidence
    BY <1>8 DEF CertifyAdmit, CertifyIdentity, CertifyAnchor, Certifiers
  <2>2. Meets(certifier'.seen, certifier'.evidence.needs)
    BY <2>1 DEF Domains
  <2> QED
    BY <1>0, <2>1, <2>2 DEF Domains
<1>9. CASE CertifyReceipt \/ CertifyStops
  <2>1. certifier' = NoCertifier
    BY <1>9 DEF CertifyReceipt, CertifyStops
  <2>2. certifier'.pc = "out" /\ DOMAIN certifier'.meta = {}
    BY <2>1, EmptyIs DEF NoCertifier
  <2> QED
    BY <2>2 DEF Domains
<1> QED
  BY <1>1, <1>2, <1>3, <1>4, <1>5, <1>6, <1>7, <1>8, <1>9 DEF Certification

LEMMA ComparisonNext ==
  ASSUME CustodyTyped, WrittenBefore, ComparisonSafe, CustodyNext
  PROVE  ComparisonSafe'
<1> USE DEF CustodyTyped
<1>1. Domains
  BY DEF ComparisonSafe, Domains
<1>2. CASE Certification
  <2>1. Domains'
    BY <1>1, <1>2, DomainsNext
  <2>2. UNCHANGED <<changes, corpus, written>>
    BY <1>2, CertificationLeaves DEF sources
  <2>3. ASSUME NEW r \in Reread' PROVE Agrees(certifier.seen, certifier.meta, r)
    <3>1. CASE r \in Reread
      BY <3>1 DEF ComparisonSafe
    <3>2. CASE certifier.pc = "second" /\ corpus[r] = certifier.seen[r] /\ r \in certifier.dirs
      BY <1>1, <3>2 DEF Domains, Compared, Agrees
    <3> QED
      BY <1>2, <3>1, <3>2, CertificationReads
  <2>4. \A r \in Reread' : Agrees(certifier.seen, certifier.meta, r)'
    BY <1>2, <2>2, <2>3, CertificationReads DEF Agrees
  <2> QED
    BY <2>1, <2>4 DEF ComparisonSafe, Domains
<1>3. CASE certifier' = certifier
  <2>1. Reread' = Reread /\ \A r \in Reread : r \in Roots /\ certifier.meta[r] \in Nat
    <3>1. Reread \subseteq certifier.dirs /\ (Reread # {} => DOMAIN certifier.meta = certifier.dirs)
      BY <1>1 DEF Reread, Domains, Compared, Publishing
    <3> QED
      BY <1>3, <3>1, PartialIs DEF Reread, Certifiers
  <2>2. \A r \in Reread : Agrees(certifier.seen, certifier.meta, r)'
    BY <1>3, <2>1, AgreesStill DEF ComparisonSafe, Agrees
  <2>3. changes <= changes' /\ changes \in Nat /\ changes' \in Nat
    BY StepOfSources, RestTypedNext DEF SourcesTyped
  <2>4. \A r \in DOMAIN certifier.meta : certifier.meta[r] \in Nat
    BY PartialIs DEF Certifiers
  <2>5. Domains'
    BY <1>1, <1>3, <2>3, <2>4 DEF Domains
  <2> QED
    BY <2>1, <2>2, <2>5 DEF ComparisonSafe, Domains
<1> QED
  BY <1>2, <1>3, AdoptionLeaves, AdmissionLeaves, ServeLeaves, WritingLeaves,
     SurroundingsLeave
     DEF CustodyNext

LEMMA ReceiptNext ==
  ASSUME CustodyTyped, WrittenBefore, ComparisonSafe, ReceiptSafe, CustodyNext
  PROVE  ReceiptSafe'
<1> USE DEF CustodyTyped
<1>1. CASE CertifyReceipt
  <2>1. /\ certifier.pc = "receipt"
        /\ receipt'.inventory = certifier.seen /\ receipt'.meta = certifier.meta
        /\ receipt'.dirs = certifier.dirs /\ receipt'.evidence = certifier.evidence
        /\ UNCHANGED <<changes, corpus, written>>
    BY <1>1 DEF CertifyReceipt, sources
  <2>2. Reread = certifier.dirs
    BY <2>1 DEF Reread, Publishing
  <2> QED
    BY <2>1, <2>2 DEF ReceiptSafe, ComparisonSafe, Compared, Publishing, Agrees, Meets
<1>2. CASE receipt' = receipt
  <2>1. \A r \in receipt.dirs : r \in Roots /\ receipt.meta[r] \in Nat
    BY PartialIs DEF ReceiptSafe, StorageTyped, Receipts
  <2>2. \A r \in receipt.dirs : Agrees(receipt.inventory, receipt.meta, r)'
    BY <1>2, <2>1, AgreesStill DEF ReceiptSafe, Agrees
  <2> QED
    BY <1>2, <2>2 DEF ReceiptSafe
<1>3. Certification => CertifyReceipt \/ receipt' = receipt
  BY
     DEF Certification, CertifyBegin, CertifyDatabase, CertifyNamespaces, CertifyLock,
         CertifyRead, CertifyCompare,
    CertifyMeta, CertifyReread, CertifyAdmit, CertifyAnchor, CertifyIdentity, CertifyStops, custody
<1> QED
  BY <1>1, <1>2, <1>3, AdoptionLeaves, AdmissionLeaves, ServeLeaves, WritingLeaves,
     SurroundingsLeave
  DEF CustodyNext, custody

LEMMA AdmissionSteps ==
  ASSUME CustodyTyped, WrittenBefore, ReceiptSafe, ComparisonSafe, AdmissionSafe, Admission
  PROVE  AdmissionSafe'
<1> USE DEF CustodyTyped
<1>0. /\ UNCHANGED <<corpus, written, changes, consumer, receipt, certifier>>
      /\ Reread' = Reread
  BY AdmissionLeaves DEF sources, custody, Reread
<1>1. CASE \/ CheckRows \/ CheckReady \/ CheckStops
           \/ \E phase \in {"preflight", "activate"} : CheckBegin(phase)
  <2>1. admission'.pc \in {"pinned", "ready", "out"}
    <3>1. CASE CheckRows \/ CheckReady
      BY <3>1 DEF CheckRows, CheckReady, Admissions
    <3>2. CASE CheckStops
      BY <3>2 DEF CheckStops, NoAdmission
    <3>3. ASSUME NEW phase \in {"preflight", "activate"}, CheckBegin(phase) PROVE admission'.pc = "pinned"
      BY <3>3 DEF CheckBegin, NoAdmission
    <3> QED
      BY <1>1, <3>1, <3>2, <3>3
  <2>2. admission'.pc = "pinned" => DOMAIN admission'.meta = {}
    <3>1. CASE CheckRows
      BY <3>1 DEF CheckRows, Admissions, AdmissionSafe
    <3>2. CASE CheckReady
      BY <3>2 DEF CheckReady, Admissions
    <3>3. CASE CheckStops
      BY <3>3 DEF CheckStops, NoAdmission
    <3>4. ASSUME NEW phase \in {"preflight", "activate"}, CheckBegin(phase) PROVE DOMAIN admission'.meta = {}
      BY <3>4, EmptyIs DEF CheckBegin, NoAdmission
    <3> QED
      BY <1>1, <3>1, <3>2, <3>3, <3>4
  <2> QED
    BY <2>1, <2>2 DEF AdmissionSafe, Looking
<1>2. CASE CheckFiles
  <2>1. /\ admission.pc = "pinned" /\ admission'.pc = IF consumer THEN "walk" ELSE "early"
        /\ admission'.left = admission.dirs /\ admission'.dirs = admission.dirs
        /\ admission'.meta = admission.meta
        /\ admission'.held = [r \in Roots |-> {corpus[r]}]
    BY <1>2 DEF CheckFiles, Admissions
  <2>2. DOMAIN admission'.meta = {}
    BY <2>1 DEF AdmissionSafe
  <2>3. \A r \in receipt.dirs : r \in Roots /\ (receipt.meta[r] = written[r] => corpus[r] = receipt.inventory[r])
    BY DEF ReceiptSafe, Agrees, StorageTyped, Receipts
  <2>4. \A r \in Roots : admission'.held[r] = {corpus[r]}
    BY <2>1
  <2> QED
    BY <1>0, <2>1, <2>2, <2>3, <2>4 DEF AdmissionSafe, Looking
<1>3. ASSUME NEW r \in Roots, CheckMeta(r) PROVE AdmissionSafe'
  <2>1. /\ admission.pc \in {"early", "walk"} /\ r \in admission.left
        /\ admission'.left = admission.left \ {r} /\ admission'.dirs = admission.dirs
        /\ admission'.meta = Also(admission.meta, r, written[r]) /\ admission'.held = admission.held
        /\ admission'.pc = IF admission.left # {r} THEN admission.pc
                           ELSE IF admission.pc = "early" THEN "inspect" ELSE "receipt"
    BY <1>3 DEF CheckMeta, Admissions
  <2>2. /\ DOMAIN admission'.meta = DOMAIN admission.meta \cup {r}
        /\ admission'.meta[r] = written[r]
        /\ \A x \in DOMAIN admission.meta : x # r => admission'.meta[x] = admission.meta[x]
    <3> DEFINE more == Also(admission.meta, r, written[r])
    <3>2. /\ DOMAIN more = DOMAIN admission.meta \cup {r} /\ more[r] = written[r]
          /\ \A x \in DOMAIN admission.meta : x # r => more[x] = admission.meta[x]
      BY DEF Also
    <3>3. admission'.meta = more
      BY <2>1
    <3> QED
      BY <3>2, <3>3
  <2>3. \A x \in DOMAIN admission'.meta : admission'.meta[x] <= changes
    BY <2>1, <2>2 DEF AdmissionSafe, Looking, WrittenBefore
  <2>4. \A x \in DOMAIN admission'.meta \cap receipt.dirs :
          receipt.meta[x] = admission'.meta[x] => receipt.inventory[x] \in admission.held[x]
    <3>1. ASSUME r \in receipt.dirs, receipt.meta[r] = written[r] PROVE receipt.inventory[r] \in admission.held[r]
      <4>1. CASE admission.pc = "walk"
        BY <2>1, <3>1, <4>1 DEF AdmissionSafe
      <4>2. CASE admission.pc = "early"
        <5>1. corpus[r] \in admission.held[r]
          BY <4>2 DEF AdmissionSafe, Looking
        <5> QED
          BY <3>1, <5>1 DEF ReceiptSafe, Agrees
      <4> QED
        BY <2>1, <4>1, <4>2
    <3> QED
      BY <2>1, <2>2, <3>1 DEF AdmissionSafe, Looking, Seen
  <2>5. ~consumer => \A x \in DOMAIN admission'.meta \cap Reread :
          certifier.meta[x] = admission'.meta[x] => certifier.seen[x] \in admission.held[x]
    <3>1. ASSUME ~consumer, r \in Reread, certifier.meta[r] = written[r] PROVE certifier.seen[r] \in admission.held[r]
      <4>1. corpus[r] \in admission.held[r]
        BY <2>1, <3>1 DEF AdmissionSafe, Looking
      <4> QED
        BY <3>1, <4>1 DEF ComparisonSafe, Agrees
    <3> QED
      BY <2>1, <2>2, <3>1 DEF AdmissionSafe, Looking, Seen
  <2>6. /\ admission'.pc \in {"early", "walk"} =>
             /\ admission'.left \subseteq admission'.dirs
             /\ DOMAIN admission'.meta = admission'.dirs \ admission'.left
        /\ admission'.pc \in {"inspect", "receipt"} => DOMAIN admission'.meta = admission'.dirs
        /\ DOMAIN admission'.held = Roots
    BY <2>1, <2>2 DEF AdmissionSafe, Looking
  <2>7. admission'.pc = "walk" => \A x \in admission'.left \cap receipt.dirs :
          receipt.meta[x] = written[x] => receipt.inventory[x] \in admission.held[x]
    BY <2>1 DEF AdmissionSafe
  <2>8. \A x \in Roots : ~consumer => corpus[x] \in admission.held[x]
    BY <2>1 DEF AdmissionSafe, Looking
  <2>9. /\ admission'.pc \in {"early", "inspect"} => ~consumer
        /\ admission'.pc = "walk" => consumer
        /\ admission'.pc \notin {"pinned", "contents"}
    BY <2>1 DEF AdmissionSafe
  <2> QED
    BY <1>0, <2>1, <2>3, <2>4, <2>5, <2>6, <2>7, <2>8, <2>9 DEF AdmissionSafe, Seen
<1>4. CASE CheckInspect
  <2>1. /\ admission.pc = "inspect" /\ admission'.pc = "receipt"
        /\ admission'.dirs = admission.dirs
        /\ admission'.meta = admission.meta /\ admission'.held = admission.held
    BY <1>4 DEF CheckInspect, Admissions
  <2> QED
    BY <1>0, <2>1 DEF AdmissionSafe, Looking, Seen
<1>5. CASE CheckReceipt
  <2>1. admission'.pc \in {"pinned", "contents"} /\ admission'.meta = Empty
    BY <1>5 DEF CheckReceipt, Admissions
  <2> QED
    BY <2>1, EmptyIs DEF AdmissionSafe, Looking
<1>6. ASSUME NEW r \in Roots, CheckContents(r) PROVE AdmissionSafe'
  <2>1. /\ admission.pc = "contents" /\ admission'.pc \in {"pinned", "contents"}
        /\ admission'.meta = admission.meta
    BY <1>6 DEF CheckContents, Admissions
  <2> QED
    BY <2>1 DEF AdmissionSafe, Looking
<1> QED
  BY <1>1, <1>2, <1>3, <1>4, <1>5, <1>6 DEF Admission

LEMMA AdmissionNext ==
  ASSUME CustodyTyped, WrittenBefore, LeaseSafe, ReceiptSafe, ComparisonSafe, AdmissionSafe, CustodyNext
  PROVE  AdmissionSafe'
<1> USE DEF CustodyTyped
<1>1. CASE Admission
  BY <1>1, AdmissionSteps
<1>2. CASE Certification
  <2>1. UNCHANGED <<admission, corpus, written, changes, consumer>>
    BY <1>2, CertificationLeaves DEF sources
  <2>2. ASSUME admission.pc \in Looking, ~consumer, NEW r \in DOMAIN admission.meta \cap Reread',
               certifier'.meta[r] = admission.meta[r]
        PROVE  certifier'.seen[r] \in admission.held[r]
    <3>1. r \in Roots /\ corpus[r] \in admission.held[r]
      BY <1>2, <2>2, CertificationReads DEF AdmissionSafe
    <3> QED
      BY <1>2, <2>2, <3>1, CertificationReads DEF AdmissionSafe, Seen
  <2>3. CASE receipt' = receipt
    BY <2>1, <2>2, <2>3 DEF AdmissionSafe, Seen
  <2>4. CASE CertifyReceipt
    <3>1. /\ certifier.pc = "receipt"
          /\ receipt'.inventory = certifier.seen /\ receipt'.meta = certifier.meta
          /\ receipt'.dirs = certifier.dirs
      BY <2>4 DEF CertifyReceipt
    <3>2. Reread = certifier.dirs
      BY <3>1 DEF Reread, Publishing
    <3>3. admission.pc \notin {"walk", "receipt"}
      BY <3>1 DEF LeaseSafe, Publishing, Shared, Inspecting
    <3>4. admission.pc \in Looking => ~consumer
      BY <3>3 DEF AdmissionSafe, Looking
    <3>5. admission.pc \in Looking =>
            \A r \in DOMAIN admission.meta \cap certifier.dirs :
              certifier.meta[r] = admission.meta[r] => certifier.seen[r] \in admission.held[r]
      BY <3>2, <3>4 DEF AdmissionSafe, Seen
    <3> QED
      BY <2>1, <2>2, <3>1, <3>3, <3>5 DEF AdmissionSafe, Seen
  <2>5. CertifyReceipt \/ receipt' = receipt
    BY <1>2
       DEF Certification, CertifyBegin, CertifyDatabase, CertifyNamespaces, CertifyLock,
           CertifyRead, CertifyCompare,
      CertifyMeta, CertifyReread, CertifyAdmit, CertifyAnchor, CertifyIdentity, CertifyStops, custody
  <2> QED
    BY <2>3, <2>4, <2>5
<1>3. CASE Writing
  <2>1. UNCHANGED <<certifier, consumer, receipt>> /\ changes' = changes + 1 /\ Reread' = Reread
    BY <1>3, WritingLeaves DEF Reread
  <2>2. PICK r \in Roots, v \in Data :
          /\ Noticed(r, v)
          /\ corpus' = [corpus EXCEPT ![r] = v]
          /\ written' = [written EXCEPT ![r] = changes + 1]
    BY <1>3, WritingIs
  <2>3. /\ admission'.pc = admission.pc /\ admission'.left = admission.left
        /\ admission'.dirs = admission.dirs /\ admission'.meta = admission.meta
        /\ admission'.held = IF ~consumer /\ admission.pc \in {"early", "inspect", "receipt"}
                             THEN [admission.held EXCEPT ![r] = @ \cup {v}] ELSE admission.held
    BY <2>2 DEF Noticed, Admissions
  <2>4. admission.pc \in Looking =>
          /\ DOMAIN admission'.held = Roots
          /\ \A x \in Roots : admission.held[x] \subseteq admission'.held[x]
          /\ ~consumer => v \in admission'.held[r]
    BY <2>3 DEF AdmissionSafe, Looking
  <2>5. \A x \in DOMAIN admission.meta : x \in Roots /\ admission.meta[x] \in Nat
    BY PartialIs DEF Admissions
  <2>6. \A x \in receipt.dirs : x \in Roots /\ receipt.meta[x] \in Nat /\ receipt.meta[x] <= changes
    BY PartialIs DEF ReceiptSafe, Agrees, StorageTyped, Receipts
  <2>7. changes \in Nat
    BY DEF SourcesTyped
  <2>8. \A x \in Roots : /\ corpus'[x] = (IF x = r THEN v ELSE corpus[x])
                         /\ written'[x] = (IF x = r THEN changes + 1 ELSE written[x])
    BY <2>2 DEF SourcesTyped
  <2>9. admission.pc \in Looking => \A x \in DOMAIN admission'.meta : admission'.meta[x] <= changes'
    BY <2>1, <2>3, <2>5, <2>7 DEF AdmissionSafe
  <2>10. admission.pc \in Looking =>
           \A x \in DOMAIN admission.meta \cap receipt.dirs :
             receipt.meta[x] = admission.meta[x] => receipt.inventory[x] \in admission'.held[x]
    BY <2>4, <2>5 DEF AdmissionSafe, Seen
  <2>11. admission.pc \in Looking /\ ~consumer =>
           /\ \A x \in Roots : corpus'[x] \in admission'.held[x]
           /\ \A x \in DOMAIN admission.meta \cap Reread :
                certifier.meta[x] = admission.meta[x] => certifier.seen[x] \in admission'.held[x]
    BY <2>4, <2>5, <2>8 DEF AdmissionSafe, Seen
  <2>12. admission.pc = "walk" =>
           \A x \in admission.left \cap receipt.dirs :
             receipt.meta[x] = written'[x] => receipt.inventory[x] \in admission'.held[x]
    BY <2>4, <2>6, <2>7, <2>8 DEF AdmissionSafe, Looking
  <2> QED
    BY <2>1, <2>3, <2>4, <2>9, <2>10, <2>11, <2>12 DEF AdmissionSafe, Seen
<1>4. CASE UNCHANGED <<admission, certifier, consumer, receipt, corpus, written>> /\ changes' \in {changes, changes + 1}
  <2>1. \A x \in DOMAIN admission.meta : admission.meta[x] \in Nat
    BY PartialIs DEF Admissions
  <2>2. changes \in Nat /\ Reread' = Reread
    BY <1>4 DEF SourcesTyped, Reread
  <2>3. admission.pc \in Looking => \A x \in DOMAIN admission.meta : admission.meta[x] <= changes'
    BY <1>4, <2>1, <2>2 DEF AdmissionSafe
  <2> QED
    BY <1>4, <2>2, <2>3 DEF AdmissionSafe, Seen
<1> QED
  BY <1>1, <1>2, <1>3, <1>4, AdoptionLeaves, ServeLeaves, SurroundingsLeave
     DEF CustodyNext, sources, custody

LEMMA TakenNext ==
  ASSUME CustodyTyped, ReceiptSafe, AdmissionSafe, TakenSafe, CustodyNext
  PROVE  TakenSafe'
<1> USE DEF CustodyTyped
<1>1. ASSUME NEW phase \in {"preflight", "activate"}, CheckBegin(phase) PROVE TakenSafe'
  <2>1. admission'.pc = "pinned" /\ admission'.took = NoReceipt
    BY <1>1 DEF CheckBegin, NoAdmission
  <2> QED
    BY <2>1, EmptyIs DEF TakenSafe, NoReceipt, NoEvidence, Meets, Looking
<1>2. CASE CheckStops
  <2>1. admission'.pc = "out" /\ admission'.took = NoReceipt
    BY <1>2 DEF CheckStops, NoAdmission
  <2> QED
    BY <2>1, EmptyIs DEF TakenSafe, NoReceipt, NoEvidence, Meets, Looking
<1>3. CASE CheckRows
  <2>1. /\ admission.pc = "pinned" /\ admission'.pc = "pinned" /\ admission'.took = admission.took
        /\ admission'.dirs = admission.dirs /\ admission'.held = admission.held
        /\ admission'.todo = admission.todo \ {"rows"}
    BY <1>3 DEF CheckRows, Admissions
  <2> QED
    BY <2>1 DEF TakenSafe, Looking
<1>4. CASE CheckFiles
  <2>1. /\ admission.took = NoReceipt /\ admission'.took = admission.took
        /\ admission'.pc \in {"walk", "early"}
    BY <1>4 DEF CheckFiles, Admissions, TakenSafe
  <2> QED
    BY <2>1, EmptyIs DEF TakenSafe, NoReceipt, NoEvidence, Meets
<1>5. CASE CheckInspect \/ \E r \in Roots : CheckMeta(r)
  <2>1. /\ admission.pc \in Looking /\ admission'.pc \in Looking
        /\ admission'.took = admission.took
        /\ admission'.dirs = admission.dirs /\ admission'.held = admission.held
    BY <1>5 DEF CheckInspect, CheckMeta, Admissions, Looking
  <2>2. admission'.pc \notin {"pinned", "ready"}
    BY <2>1 DEF Looking
  <2> QED
    BY <2>1, <2>2 DEF TakenSafe
<1>6. CASE CheckReceipt
  <2>1. /\ admission.pc = "receipt" /\ receipt.dirs = admission.dirs /\ receipt.meta = admission.meta
        /\ admission'.took = receipt /\ admission'.dirs = admission.dirs /\ admission'.held = admission.held
        /\ \/ admission'.pc = "pinned" /\ admission'.todo = admission.todo \ {"files"}
           \/ admission'.pc = "contents"
    BY <1>6 DEF CheckReceipt, Bound, Admissions
  <2>2. \A r \in admission.dirs : receipt.inventory[r] \in admission.held[r]
    BY <2>1 DEF AdmissionSafe, Looking, Seen
  <2>3. DOMAIN receipt.inventory = admission.dirs /\ Meets(receipt.inventory, receipt.evidence.needs)
    BY <2>1 DEF ReceiptSafe
  <2> QED
    BY <2>1, <2>2, <2>3 DEF TakenSafe, Looking
<1>7. ASSUME NEW r \in Roots, CheckContents(r) PROVE TakenSafe'
  <2>1. /\ admission'.took = admission.took
        /\ admission'.dirs = admission.dirs /\ admission'.held = admission.held
        /\ \/ admission'.pc = "pinned" /\ admission'.todo = admission.todo \ {"files"}
           \/ admission'.pc = "contents"
    BY <1>7 DEF CheckContents, Admissions
  <2> QED
    BY <2>1 DEF TakenSafe, Looking
<1>8. CASE CheckReady
  <2>1. /\ admission'.pc = "ready" /\ admission'.took = admission.took /\ admission'.asked = admission.asked
        /\ admission'.dirs = admission.dirs /\ admission'.held = admission.held
        /\ Paired(admission.took.evidence, admission.asked)
    BY <1>8 DEF CheckReady, Admissions
  <2> QED
    BY <2>1 DEF TakenSafe, Looking
<1>9. CASE Writing
  <2>1. PICK r \in Roots, v \in Data : Noticed(r, v)
    BY <1>9, WritingIs
  <2>2. CASE admission' = admission
    BY <2>2 DEF TakenSafe
  <2>3. CASE admission.pc \in {"early", "inspect", "receipt"} /\ admission' = [admission EXCEPT !.held[r] = @ \cup {v}]
    <3>1. admission.took = NoReceipt
      BY <2>3 DEF TakenSafe, Looking
    <3>2. admission'.took = NoReceipt /\ admission'.pc \in {"early", "inspect", "receipt"}
      BY <2>3, <3>1 DEF Admissions
    <3> QED
      BY <3>2, EmptyIs DEF TakenSafe, NoReceipt, NoEvidence, Meets
  <2> QED
    BY <2>1, <2>2, <2>3 DEF Noticed
<1>10. CASE admission' = admission
  BY <1>10 DEF TakenSafe
<1> QED
  BY <1>1, <1>2, <1>3, <1>4, <1>5, <1>6, <1>7, <1>8, <1>9, <1>10,
    CertificationLeaves, AdoptionLeaves, ServeLeaves, SurroundingsLeave
  DEF CustodyNext, Admission

CustodyInv ==
  /\ CustodyTyped /\ WrittenBefore /\ LeaseSafe /\ MarkingSafe
  /\ ComparisonSafe /\ ReceiptSafe /\ AdmissionSafe /\ TakenSafe

LEMMA CustodyInitially == CustodyInit => CustodyInv
<1> SUFFICES ASSUME CustodyInit PROVE CustodyInv
  OBVIOUS
<1>1. CustodyTyped
  <2>1. database \in Evidences
    BY RequirementsTyped DEF CustodyInit, Evidences
  <2>2. SourcesTyped
    BY <2>1 DEF CustodyInit, SourcesTyped
  <2>3. StorageTyped
    BY NothingTyped DEF CustodyInit, StorageTyped, Unadopted, Markers
  <2> QED
    BY <2>2, <2>3, NothingTyped DEF CustodyInit, CustodyTyped
<1>2. certifier.pc = "out" /\ adopter.pc = "out" /\ admission.pc = "out" /\ admission.took = NoReceipt
  BY DEF CustodyInit, NoCertifier, NoAdopter, NoAdmission
<1>3. WrittenBefore /\ LeaseSafe /\ MarkingSafe
  BY <1>2 DEF CustodyInit, WrittenBefore, LeaseSafe, MarkingSafe, Comparing, Publishing
<1>4. ComparisonSafe
  <2>1. certifier.meta = Empty /\ Reread = {}
    BY <1>2 DEF CustodyInit, NoCertifier, Reread, Publishing
  <2> QED
    BY <1>2, <2>1, EmptyIs DEF ComparisonSafe, Compared, Publishing
<1>5. ReceiptSafe
  BY EmptyIs DEF CustodyInit, ReceiptSafe, NoReceipt, NoEvidence, Meets
<1>6. AdmissionSafe
  BY <1>2 DEF AdmissionSafe, Looking
<1>7. TakenSafe
  BY <1>2, EmptyIs DEF TakenSafe, NoReceipt, NoEvidence, Meets, Looking
<1> QED
  BY <1>1, <1>3, <1>4, <1>5, <1>6, <1>7 DEF CustodyInv

LEMMA CustodyInvNext == CustodyInv /\ [CustodyNext]_custodyVars => CustodyInv'
<1>1. ASSUME CustodyInv, CustodyNext PROVE CustodyInv'
  <2> USE <1>1 DEF CustodyInv
  <2>1. CustodyTyped'
    BY CertifierTypedNext, AdopterTypedNext, AdmissionTypedNext, RestTypedNext
       DEF CustodyTyped
  <2>2. WrittenBefore'
    BY StepOfSources
  <2>3. LeaseSafe' /\ MarkingSafe'
    BY LeaseNext, MarkingNext
  <2>4. ComparisonSafe' /\ ReceiptSafe'
    BY ComparisonNext, ReceiptNext
  <2>5. AdmissionSafe' /\ TakenSafe'
    BY AdmissionNext, TakenNext
  <2> QED
    BY <2>1, <2>2, <2>3, <2>4, <2>5
<1>2. ASSUME CustodyInv, UNCHANGED custodyVars PROVE CustodyInv'
  BY <1>2
     DEF CustodyInv, custodyVars, sources, custody, programs, CustodyTyped, SourcesTyped,
         StorageTyped,
    WrittenBefore, LeaseSafe, Shared, MarkingSafe, ComparisonSafe, Reread, Agrees, ReceiptSafe,
    AdmissionSafe, Seen, TakenSafe
<1> QED
  BY <1>1, <1>2

LEMMA CustodyHolds == CustodySpec => []CustodyInv
BY CustodyInitially, CustodyInvNext, PTL DEF CustodySpec

\* Types.
THEOREM CustodyIsTyped == CustodySpec => []CustodyTyped
<1>1. CustodyInv => CustodyTyped
  BY DEF CustodyInv
<1> QED
  BY <1>1, CustodyHolds, PTL

\* What an admission lets pass is what a certification compared with an
\* independent restore, root by root, however programs write meanwhile.
THEOREM AdmissionsAreCertified == CustodySpec => []AdmittedIsCertified
<1>1. CustodyInv => AdmittedIsCertified
  BY DEF CustodyInv, TakenSafe, AdmittedIsCertified
<1> QED
  BY <1>1, CustodyHolds, PTL

\* A ready admission looked at every file the database's rows named.
THEOREM ReadyIsServed == CustodySpec => []ReadyServesDatabase
<1>1. CustodyInv => ReadyServesDatabase
  BY DEF CustodyInv, TakenSafe, ReadyServesDatabase, Paired, Meets
<1> QED
  BY <1>1, CustodyHolds, PTL

LEMMA IdentityStep ==
  ASSUME CustodyInv, CustodyNext
  PROVE  /\ identity.id # NoIdentifier => identity' = identity
         /\ \A r \in Roots : anchor[r] # NoIdentifier /\ born'[r] = born[r] => anchor'[r] = anchor[r]
<1> USE DEF CustodyInv, CustodyTyped
<1>1. ASSUME NEW r \in Roots, CertifyAnchor(r)
      PROVE  /\ UNCHANGED identity
             /\ \A x \in Roots : anchor[x] # NoIdentifier => anchor'[x] = anchor[x]
  BY <1>1 DEF CertifyAnchor, MarkingSafe, StorageTyped
<1>2. ASSUME NEW r \in Roots, AdoptAnchor(r)
      PROVE  /\ UNCHANGED identity
             /\ \A x \in Roots : anchor[x] # NoIdentifier => anchor'[x] = anchor[x]
  BY <1>2 DEF AdoptAnchor, MarkingSafe, StorageTyped
<1>3. CertifyIdentity \/ AdoptIdentity => identity.id = NoIdentifier /\ anchor' = anchor
  BY DEF CertifyIdentity, AdoptIdentity, MarkingSafe
<1>4. CASE Writing
  <2>1. identity' = identity
    BY <1>4, WritingLeaves
  <2>2. changes \in Nat /\ \A r \in Roots : born[r] <= changes
    BY DEF SourcesTyped, WrittenBefore
  <2>3. PICK r \in Roots :
          \/ anchor' = anchor
          \/ anchor' = [anchor EXCEPT ![r] = NoIdentifier] /\ born' = [born EXCEPT ![r] = changes + 1]
    BY <1>4, WritingIs
  <2>4. \/ anchor' = anchor
        \/ born'[r] # born[r] /\ \A x \in Roots \ {r} : anchor'[x] = anchor[x]
    BY <2>2, <2>3 DEF SourcesTyped, StorageTyped
  <2> QED
    BY <2>1, <2>4
<1>5. CASE UNCHANGED <<anchor, identity>>
  BY <1>5
<1>6. Certification => (\E r \in Roots : CertifyAnchor(r)) \/ CertifyIdentity \/ UNCHANGED <<anchor, identity>>
  BY
     DEF Certification, CertifyBegin, CertifyDatabase, CertifyNamespaces, CertifyLock,
         CertifyRead, CertifyCompare,
    CertifyMeta, CertifyReread, CertifyAdmit, CertifyReceipt, CertifyStops, custody
<1>7. Adoption => (\E r \in Roots : AdoptAnchor(r)) \/ AdoptIdentity \/ UNCHANGED <<anchor, identity>>
  BY DEF Adoption, AdoptBegin, AdoptStops, custody
<1> QED
  BY <1>1, <1>2, <1>3, <1>4, <1>5, <1>6, <1>7, AdmissionLeaves, ServeLeaves,
     SurroundingsLeave
  DEF CustodyNext, custody

\* An identity and the markers of a directory stand, for every identifier and
\* every interleaving of certifications, adoptions and kills.
THEOREM IdentityIsKept == CustodySpec => IdentityStands
<1> DEFINE Stands == /\ identity.id # NoIdentifier => identity' = identity
                     /\ \A r \in Roots :
                          anchor[r] # NoIdentifier /\ born'[r] = born[r] => anchor'[r] = anchor[r]
<1>1. CustodyInv /\ [CustodyNext]_custodyVars => [Stands]_custodyVars
  BY IdentityStep
<1> QED
  BY <1>1, CustodyHolds, PTL DEF CustodySpec, IdentityStands
=============================================================================
