------------------------- MODULE ApplicationCaptures -------------------------
(***************************************************************************)
(* The restore points of one application: storage/application_backup.rs    *)
(* (capture), storage/application_retention.rs (prune) and the copy of     *)
(* storage/application_publication.rs, for version 2 manifests.            *)
(*                                                                         *)
(* An attempt keeps its trees side by side under the backup root.  Four    *)
(* adapter commands run as an unprivileged worker that owns the staging    *)
(* and the workspace, and may go on writing the staging at any time.  What *)
(* it captured is copied to a root-owned seal, restored and verified from  *)
(* there, and the seal is renamed to be the point.                         *)
(*                                                                         *)
(* Simplifications:                                                        *)
(*  - capture and prune hold the one lock, so one of them runs; a killed   *)
(*    one stops between two publications.  Its adapters inherit the lock,  *)
(*    so the next one starts after they ended.  Power is not lost: the     *)
(*    renames of a retry share one flush (application_backup.rs:585);      *)
(*  - a tree's bytes are a member of Bytes, or Part when it is incomplete; *)
(*  - manifest and executables are one identity, `tools`, although the     *)
(*    check before the publication reads the executables again only;       *)
(*  - the acceptance envelope is published with the rename of its tree;    *)
(*  - prune refuses redirected and mounted entries before its plan;        *)
(*  - the age of an incomplete attempt is a choice of the prune, as is the *)
(*    freshness of a capture; the worker's credential copy of a retry, and *)
(*    certify on another machine, are left out.                            *)
(***************************************************************************)
EXTENDS Integers, Sequences, FiniteSets

CONSTANTS Attempts,   \* attempt names, numbered in their order
          Scheduled,  \* the names of the timer
          Bytes,      \* what an artifact tree may hold
          Keep,       \* --keep
          MaxClock, MaxTools, MaxKills, \* bounds
          MayReuse    \* a name may be captured again once it is being retired

ASSUME CapturesAssumption ==
  /\ Attempts \subseteq Nat \ {0} /\ IsFiniteSet(Attempts) /\ Scheduled \subseteq Attempts
  /\ 0 \notin Bytes
  /\ Keep \in Nat \ {0}
  /\ {MaxClock, MaxTools} \subseteq Nat \ {0} /\ MaxKills \in Nat
  /\ MayReuse \in BOOLEAN

VARIABLES
  tools,    \* the deployed manifest and executables
  clock,
  entries,  \* the attempt's names under the root
  intent,   \* <attempt>.intent.json
  staged,   \* bytes of <attempt>.partial/artifacts
  seal,     \* bytes of <attempt>.sealed
  point,    \* the published tree: bytes and receipt
  last,     \* LAST_SUCCESS
  op,       \* the running capture or prune
  \* Kept for the properties:
  dirty,    \* the tree the live restore workspace was last used with
  retired,  \* prune has begun to delete the attempt
  kills

disk == <<entries, intent, staged, seal, point, last>>
ghosts == <<dirty, retired, kills>>
vars == <<tools, clock, disk, op, ghosts>>

Part == 0
None == [attempt |-> 0]
NoIntent == [tools |-> 0, origin |-> "none"]
NoPoint == [bytes |-> Part, at |-> 0, tools |-> 0, artifacts |-> Part, restored |-> Part]
Idle == [pc |-> "idle", a |-> 0, tools |-> 0, at |-> 0, artifacts |-> Part, restored |-> Part,
         ok |-> FALSE, todo |-> {}]

\* Names under the root, in the order of the paths of one attempt.
Ordinary == <<"abandoned", "credentials", "intent", "staging", "workspace", "sealed">>
Names == {Ordinary[i] : i \in DOMAIN Ordinary} \cup {"point", "tombstone"}

Init ==
  /\ tools = 1 /\ clock = 1
  /\ entries = [a \in Attempts |-> {}]
  /\ intent = [a \in Attempts |-> NoIntent]
  /\ staged = [a \in Attempts |-> Part]
  /\ seal = [a \in Attempts |-> Part]
  /\ point = [a \in Attempts |-> NoPoint]
  /\ last = None
  /\ op = Idle
  /\ dirty = [a \in Attempts |-> "no"]
  /\ retired = [a \in Attempts |-> FALSE]
  /\ kills = 0

Has(a, name) == name \in entries[a]
Add(a, name) == entries' = [entries EXCEPT ![a] = @ \cup {name}]

\* The name is gone from its place: removed, or moved aside.
Gone(a, name) ==
  /\ entries' = [entries EXCEPT ![a] = @ \ {name}]
  /\ intent' = IF name = "intent" THEN [intent EXCEPT ![a] = NoIntent] ELSE intent
  /\ staged' = IF name = "staging" THEN [staged EXCEPT ![a] = Part] ELSE staged
  /\ seal' = IF name = "sealed" THEN [seal EXCEPT ![a] = Part] ELSE seal
  /\ point' = IF name = "point" THEN [point EXCEPT ![a] = NoPoint] ELSE point

\* What an inventory of one of the attempt's trees finds.
Inventory(a, tree) == IF tree = "staging" THEN staged[a] ELSE seal[a]

\* What the manifest names now: immutable files, compared by their digests.
Executables == tools

At(pc) == op.pc = pc
Goto(pc) == op' = [op EXCEPT !.pc = pc]

\* The operation returns; dropping its Worker removes the credentials.
Return ==
  /\ op' = Idle
  /\ entries' = IF op.a = 0 THEN entries ELSE [entries EXCEPT ![op.a] = @ \ {"credentials"}]

(***************************************************************************)
(* Around the operations.                                                  *)
(***************************************************************************)
\* A process the worker left behind, or a descriptor it kept, changes what it
\* staged.  It cannot write the root-owned seal or the point.
Alter(a) ==
  /\ Has(a, "staging")
  /\ \E bytes \in Bytes \ {staged[a]} : staged' = [staged EXCEPT ![a] = bytes]
  /\ UNCHANGED <<tools, clock, entries, intent, seal, point, last, op, ghosts>>

\* A deployment changes the manifest or the executables.
Redeploy ==
  /\ tools < MaxTools
  /\ tools' = tools + 1
  /\ UNCHANGED <<clock, disk, op, ghosts>>

\* The running program is killed, or fails to write.
Kill ==
  /\ ~At("idle") /\ kills < MaxKills
  /\ op' = Idle
  /\ kills' = kills + 1
  /\ UNCHANGED <<tools, clock, disk, dirty, retired>>

(***************************************************************************)
(* Capture.                                                                *)
(***************************************************************************)
Leftovers(a) == entries[a] \cap {"intent", "staging", "workspace", "sealed", "credentials"} # {}

BugCleanupTree(a, expected) == IF Has(a, "sealed") THEN "sealed" ELSE "staging"
\* The tree the journal names for the cleanup of an interrupted attempt.
CleanupTree(a, expected) ==
  IF ~Has(a, "intent") \/ intent[a].tools # expected THEN "refused"
  ELSE IF intent[a].origin = "staging" THEN "staging"
  ELSE IF Has(a, "sealed") THEN "sealed"
  ELSE "refused"

Begin(a, retry) ==
  /\ At("idle")
  /\ ~Has(a, "point")
  /\ MayReuse \/ ~retired[a]
  /\ Leftovers(a) => retry /\ CleanupTree(a, Executables) # "refused"
  /\ op' = [Idle EXCEPT !.a = a, !.tools = Executables, !.ok = TRUE,
                        !.pc = IF ~Leftovers(a) THEN "journal"
                               ELSE IF Has(a, "workspace") THEN "drain" ELSE "credentials"]
  /\ UNCHANGED <<tools, clock, disk, ghosts>>

\* The adapter drains the old workspace, or fails and ends the retry.
Drain ==
  /\ At("drain")
  /\ \/ /\ dirty' = [dirty EXCEPT ![op.a] = "no"] /\ Goto("credentials")
     \/ /\ op' = Idle /\ UNCHANGED dirty
  /\ UNCHANGED <<tools, clock, disk, retired, kills>>

RemoveCredentials ==
  /\ At("credentials")
  /\ entries' = [entries EXCEPT ![op.a] = (@ \ {"credentials"}) \cup {"abandoned"}]
  /\ Goto("abandon")
  /\ UNCHANGED <<tools, clock, intent, staged, seal, point, last, ghosts>>

\* The order in which a retry moves the attempt's entries aside.
AbandonOrder == <<"staging", "workspace", "intent", "sealed">>

\* One rename into the abandoned directory; missing entries are passed over.
Abandon ==
  /\ At("abandon")
  /\ LET there == {i \in DOMAIN AbandonOrder : Has(op.a, AbandonOrder[i])}
     IN  IF there = {} THEN Goto("journal") /\ UNCHANGED <<entries, intent, staged, seal, point>>
         ELSE /\ \E i \in there : (\A j \in there : i <= j) /\ Gone(op.a, AbandonOrder[i])
              /\ UNCHANGED op
  /\ UNCHANGED <<tools, clock, last, ghosts>>

Journal ==
  /\ At("journal")
  /\ Add(op.a, "intent")
  /\ intent' = [intent EXCEPT ![op.a] = [tools |-> op.tools, origin |-> "staging"]]
  /\ Goto("worker")
  /\ UNCHANGED <<tools, clock, staged, seal, point, last, ghosts>>

\* The worker's credentials are copied and the time is read; a source that is
\* not trusted ends the capture.
Worker ==
  /\ At("worker")
  /\ \/ /\ Add(op.a, "credentials")
        /\ \E now \in {clock, clock + 1} : now <= MaxClock /\ clock' = now
        /\ op' = [op EXCEPT !.pc = "staging", !.at = clock']
     \/ Return /\ UNCHANGED clock
  /\ UNCHANGED <<tools, intent, staged, seal, point, last, ghosts>>

\* The worker is given its staging, then its workspace.
Directory(name, next) ==
  /\ At(name)
  /\ Add(op.a, name)
  /\ Goto(next)
  /\ UNCHANGED <<tools, clock, intent, staged, seal, point, last, ghosts>>

\* An adapter command was given the workspace and `tree`; it may fail.
Used(tree) == dirty' = [dirty EXCEPT ![op.a] = tree]
Fail == op' = [op EXCEPT !.pc = "cleanup", !.ok = FALSE]

\* The worker captures; its inventory is what the copy must hold.
Execute ==
  /\ At("capture")
  /\ Used("staging")
  /\ \/ \E bytes \in Bytes :
          /\ staged' = [staged EXCEPT ![op.a] = bytes]
          /\ op' = [op EXCEPT !.pc = "seal", !.artifacts = bytes]
     \/ Fail /\ UNCHANGED staged
  /\ UNCHANGED <<tools, clock, entries, intent, seal, point, last, retired, kills>>

\* The copy begins: the seal is there, and is incomplete.
OpenSeal ==
  /\ At("seal")
  /\ Add(op.a, "sealed")
  /\ Goto("copy")
  /\ UNCHANGED <<tools, clock, intent, staged, seal, point, last, ghosts>>

\* The copy ends with what is staged now, and must equal the inventory.
Copy ==
  /\ At("copy")
  /\ \/ /\ seal' = [seal EXCEPT ![op.a] = Inventory(op.a, "staging")]
        /\ IF seal'[op.a] = op.artifacts THEN Goto("sealed") ELSE Fail
     \/ Fail /\ UNCHANGED seal
  /\ UNCHANGED <<tools, clock, entries, intent, staged, point, last, ghosts>>

\* The synchronized seal becomes the tree cleanup is to be given.
JournalSeal ==
  /\ At("sealed")
  /\ intent' = [intent EXCEPT ![op.a].origin = "sealed"]
  /\ Goto("restore")
  /\ UNCHANGED <<tools, clock, entries, staged, seal, point, last, ghosts>>

BugCertified(a) == Inventory(a, "staging")
\* The bytes certification restores, checks and publishes.
Certified(a) == Inventory(a, "sealed")

\* Restore and verify in the workspace.
Restore ==
  /\ At("restore")
  /\ Used("sealed")
  /\ \/ op' = [op EXCEPT !.pc = "certify", !.restored = Certified(op.a)]
     \/ Fail
  /\ UNCHANGED <<tools, clock, disk, retired, kills>>

\* The artifacts must not have changed during the restore.
Certify ==
  /\ At("certify")
  /\ IF Certified(op.a) = op.artifacts THEN Goto("cleanup") ELSE Fail
  /\ UNCHANGED <<tools, clock, disk, ghosts>>

\* Cleanup runs after success and after failure alike; when it fails, or the
\* journal names no tree, everything is left for a retry.
Cleanup ==
  /\ At("cleanup")
  /\ \/ /\ CleanupTree(op.a, op.tools) # "refused"
        /\ dirty' = [dirty EXCEPT ![op.a] = "no"]
        /\ Goto("workspace-out") /\ UNCHANGED entries
     \/ Return /\ UNCHANGED dirty
  /\ UNCHANGED <<tools, clock, intent, staged, seal, point, last, retired, kills>>

RemoveWorkspace ==
  /\ At("workspace-out")
  /\ IF op.ok
     THEN entries' = [entries EXCEPT ![op.a] = @ \ {"workspace"}] /\ Goto("publish")
     ELSE op' = Idle /\ entries' = [entries EXCEPT ![op.a] = @ \ {"workspace", "credentials"}]
  /\ UNCHANGED <<tools, clock, intent, staged, seal, point, last, ghosts>>

\* Mutant: LAST_SUCCESS names the point before the rename that makes it.
BugPublish ==
  /\ At("publish")
  /\ last' = [attempt |-> op.a, accepted |-> point[op.a]]
  /\ Goto("mark")
  /\ UNCHANGED <<tools, clock, entries, intent, staged, seal, point, ghosts>>

\* The last checks (bytes, tools, freshness), then the no-replace rename.
Publish ==
  /\ At("publish")
  /\ \/ /\ Certified(op.a) = op.artifacts
        /\ Executables = op.tools
        /\ entries' = [entries EXCEPT ![op.a] = (@ \ {"sealed"}) \cup {"point"}]
        /\ point' = [point EXCEPT ![op.a] =
             [bytes |-> Certified(op.a), at |-> op.at, tools |-> op.tools,
              artifacts |-> op.artifacts, restored |-> op.restored]]
        /\ seal' = [seal EXCEPT ![op.a] = Part]
        /\ Goto("mark")
     \/ Return /\ UNCHANGED <<seal, point>>
  /\ UNCHANGED <<tools, clock, intent, staged, last, ghosts>>

Mark ==
  /\ At("mark")
  /\ last' = [attempt |-> op.a, accepted |-> point[op.a]]
  /\ Goto("finish")
  /\ UNCHANGED <<tools, clock, entries, intent, staged, seal, point, ghosts>>

\* The worker's staging goes, then its credentials.
Finish ==
  /\ At("finish")
  /\ op' = Idle
  /\ entries' = [entries EXCEPT ![op.a] = @ \ {"staging", "credentials"}]
  /\ staged' = [staged EXCEPT ![op.a] = Part]
  /\ UNCHANGED <<tools, clock, intent, seal, point, last, ghosts>>

\* An inspection accepts the point under the given manifest.
VerifyIntegrity(a, expected) ==
  point[a].tools = expected /\ point[a].bytes # Part /\ point[a].bytes = point[a].artifacts

Capture ==
  \/ \E a \in Attempts, retry \in BOOLEAN : Begin(a, retry)
  \/ Drain \/ RemoveCredentials \/ Abandon
  \/ Journal \/ Worker \/ Directory("staging", "workspace") \/ Directory("workspace", "capture")
  \/ Execute \/ OpenSeal \/ Copy \/ JournalSeal \/ Restore \/ Certify
  \/ Cleanup \/ RemoveWorkspace \/ Publish \/ Mark \/ Finish

(***************************************************************************)
(* Retention of the timer's attempts.                                      *)
(***************************************************************************)
Groups == {a \in Scheduled : entries[a] # {}}
Accepted == {a \in Groups : Has(a, "point")}

\* The plan is refused before anything is deleted.
PlanRefused ==
  \/ last # None /\ ~(Has(last.attempt, "point") /\ point[last.attempt] = last.accepted)
  \/ \E a \in Accepted :
        Has(a, "tombstone") \/ point[a].artifacts = Part \/ point[a].at > clock

\* Newer of two points: by capture time, then by name.
Newer(a, b) == point[a].at > point[b].at \/ (point[a].at = point[b].at /\ a > b)

\* Points beyond the newest Keep, except the one LAST_SUCCESS names.
Surplus ==
  {a \in Accepted : Cardinality({b \in Accepted : Newer(b, a)}) >= Keep} \ {last.attempt}

\* Mutant: the point of a group that stays counts as scratch.
BugRemoval(aged) ==
  {e \in Groups \X Names :
     /\ Has(e[1], e[2])
     /\ IF e[1] \in Accepted THEN e[1] \in Surplus \/ e[2] # "intent"
        ELSE e[1] \in aged \/ Has(e[1], "tombstone")}

\* What the prune removes when `aged` are the attempts past the grace period:
\* whole groups, and the scratch of points that stay.
Removal(aged) ==
  {e \in Groups \X Names :
     /\ Has(e[1], e[2])
     /\ IF e[1] \in Accepted THEN e[1] \in Surplus \/ e[2] \notin {"point", "intent"}
        ELSE e[1] \in aged \/ Has(e[1], "tombstone")}

Plan ==
  /\ At("idle")
  /\ ~PlanRefused
  /\ \E aged \in SUBSET (Groups \ Accepted) :
        LET todo == Removal(aged)
        IN  /\ todo # {}
            /\ op' = [Idle EXCEPT !.pc = "prune", !.todo = todo]
            /\ retired' = [a \in Attempts |-> retired[a] \/ <<a, "tombstone">> \in todo
                             \/ (a \notin Accepted /\ \E name \in Names : <<a, name>> \in todo)]
  /\ UNCHANGED <<tools, clock, disk, dirty, kills>>

Retiring == {a \in Attempts : <<a, "point">> \in op.todo}

\* The points whose renames come before every deletion.
RetireFirst == Retiring

\* An accepted point is renamed before its contents are touched.
Retire ==
  /\ At("prune")
  /\ \E a \in RetireFirst :
        /\ \A b \in RetireFirst : a <= b
        /\ entries' = [entries EXCEPT ![a] = (@ \ {"point"}) \cup {"tombstone"}]
        /\ point' = [point EXCEPT ![a] = NoPoint]
        /\ op' = [op EXCEPT !.todo = (@ \ {<<a, "point">>}) \cup {<<a, "tombstone">>}]
        /\ retired' = [retired EXCEPT ![a] = TRUE]
  /\ UNCHANGED <<tools, clock, intent, staged, seal, last, dirty, kills>>

Position(e) ==
  LET name == e[2] IN
  IF name \in {"tombstone", "point"} THEN 7 ELSE CHOOSE i \in DOMAIN Ordinary : Ordinary[i] = name

\* Deletion goes by path, the tombstones last.
Before(e, f) ==
  LET late(x) == Position(x) = 7 IN
  \/ ~late(e) /\ late(f)
  \/ late(e) = late(f) /\ (e[1] < f[1] \/ (e[1] = f[1] /\ Position(e) <= Position(f)))

\* A tree is emptied entry by entry: an interruption leaves a part of it.
Delete ==
  /\ At("prune") /\ RetireFirst = {}
  /\ \E e \in op.todo :
        /\ \A f \in op.todo : Before(e, f)
        /\ \/ /\ Gone(e[1], e[2])
              /\ dirty' = IF e[2] = "workspace" THEN [dirty EXCEPT ![e[1]] = "no"] ELSE dirty
              /\ op' = IF op.todo = {e} THEN Idle ELSE [op EXCEPT !.todo = @ \ {e}]
           \/ /\ e[2] \in {"sealed", "point"} /\ <<seal[e[1]], point[e[1]]>> # <<Part, NoPoint>>
              /\ seal' = IF e[2] = "sealed" THEN [seal EXCEPT ![e[1]] = Part] ELSE seal
              /\ point' = IF e[2] = "point" THEN [point EXCEPT ![e[1]] = NoPoint] ELSE point
              /\ UNCHANGED <<entries, intent, staged, dirty, op>>
  /\ UNCHANGED <<tools, clock, last, retired, kills>>

Prune == Plan \/ Retire \/ Delete

Next == Capture \/ Prune \/ Redeploy \/ Kill \/ \E a \in Attempts : Alter(a)

Spec == Init /\ [][Next]_vars

(***************************************************************************)
(* Properties.                                                             *)
(***************************************************************************)
Trees == {"staging", "sealed"}
TypeOK ==
  /\ tools \in 1..MaxTools /\ clock \in 1..MaxClock /\ kills \in 0..MaxKills
  /\ entries \in [Attempts -> SUBSET Names]
  /\ \A a \in Attempts : intent[a] # NoIntent => intent[a] \in [tools : 1..MaxTools, origin : Trees]
  /\ {staged[a] : a \in Attempts} \cup {seal[a] : a \in Attempts} \subseteq Bytes \cup {Part}
  /\ dirty \in [Attempts -> Trees \cup {"no"}]
  /\ last = None \/ last.attempt \in Attempts
  /\ op.todo \subseteq Attempts \X Names

\* LAST_SUCCESS always names a complete point with the acceptance it was
\* written for, whatever was captured after it and wherever a prune was
\* killed.  docs/application-storage.md:107: retention "retains the newest 96
\* timer restore points plus the point named by LAST_SUCCESS".
LastSuccessWhole ==
  last # None => Has(last.attempt, "point") /\ point[last.attempt] = last.accepted

\* The bytes of a point are the bytes that were restored and verified, and
\* those its receipt lists, whatever a worker wrote to the staging meanwhile.
AcceptedIsRestored ==
  \A a \in Attempts : Has(a, "point") =>
    VerifyIntegrity(a, point[a].tools) /\ point[a].bytes = point[a].restored

\* While a workspace holds a restore that was not drained, the retry finds the
\* tree it was restored from, complete: cleanup is never given a half-made
\* seal.  The comment of capture_cleanup_tree: "The journal, rather than seal
\* existence, owns the durable cleanup origin."
CleanupHasItsTree ==
  \A a \in Attempts : dirty[a] # "no" /\ ~retired[a] =>
    LET tree == CleanupTree(a, intent[a].tools)
    IN  /\ {"workspace", tree} \subseteq entries[a]
        /\ tree = "sealed" => seal[a] # Part
        /\ dirty[a] = "sealed" => tree = "sealed"

\* However a capture or a prune was interrupted, the next prune is admitted:
\* retention never blocks itself.  docs/application-storage.md:139: "Retries
\* finish these tombstones and their siblings immediately, even if the
\* acceptance file was already removed".
PruneAdmitted == At("idle") => ~PlanRefused

\* An interrupted attempt without a point can be captured again, unless the
\* manifest changed.  docs/application-storage.md:322: "An interrupted point
\* may be retried explicitly with `--retry-incomplete`."
Retryable ==
  \A a \in Attempts :
    /\ At("idle") /\ ~Has(a, "point") /\ ~retired[a]
    /\ Has(a, "intent") => intent[a].tools = tools
    => (Leftovers(a) => CleanupTree(a, tools) # "refused")
=============================================================================
