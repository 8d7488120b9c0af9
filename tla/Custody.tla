------------------------------ MODULE Custody ------------------------------
(***************************************************************************)
(* Custody of a filesystem resource (custody.rs), the admission of a       *)
(* deployment by it (cutover.rs, harbor-db-cutover) and its adoption       *)
(* (resource.rs).  A certification compares the source with an independent *)
(* restore, adopts the storage and publishes a receipt; an admission       *)
(* compares the source with that receipt, file by file, while programs     *)
(* write, and the receipt with what the database answers.                  *)
(*                                                                         *)
(* Abstractions:                                                           *)
(*  - a root stands for a file in it: two files of one root are visited    *)
(*    one after the other just as the files of two roots are;              *)
(*  - written[r] is the metadata of the inventory (times, inode, device);  *)
(*    every change gives new metadata, as ctime does when its clock ticks  *)
(*    between two changes.  A digest is stable or refused, so it is one    *)
(*    step.  born[r] is the root's own identity;                           *)
(*  - the contract is the directories it names; the binding is compared    *)
(*    with them.  Only a consumer's validator makes it change;             *)
(*  - the coordinator and its workers are one program.  A worker that      *)
(*    refuses, a deadline, a kill and a blocked verdict are one thing:     *)
(*    the program stops and leaves what it has published;                  *)
(*  - the restored tree is the operator's: the comparison goes on with one *)
(*    that equals the source, or the certification stops;                  *)
(*  - the resource has a database dependency and no transition manifest    *)
(*    (ApplicationTransition has those).                                   *)
(***************************************************************************)
EXTENDS Integers

CONSTANTS Roots,        \* directories a contract may name
          Data,         \* what a file may hold
          Requirements, \* the files and bytes the database's rows may name
          Identifiers, NoIdentifier,
          MaxChanges,   \* bound on what the environment changes
          MaxCommands   \* bound on the programs operators start

ASSUME CustodyAssumption ==
  /\ Requirements \subseteq UNION {[S -> Data] : S \in SUBSET Roots}
  /\ NoIdentifier \notin Identifiers
  /\ MaxChanges \in Nat /\ MaxCommands \in Nat

VARIABLES
  consumer,    \* consumer_command is configured
  contract,    \* the directories it would expand to now
  corpus, written, born,
  unit,        \* a declared writer unit runs without the guard
  database,    \* the digest of the recovery snapshot, the paths the rows need
  changes,
  anchor,      \* <root>/.harbor-db-<resource>-identity.json
  identity,    \* identity.json
  receipt, expired,
  served,      \* harbor-db-cutover serve, then the program it execs
  certifier, adopter, admission,
  commands

sources == <<consumer, contract, corpus, written, born, unit, database, changes>>
custody == <<anchor, identity, receipt, expired>>
programs == <<served, certifier, adopter, admission>>
custodyVars == <<sources, custody, programs, commands>>

Contracts == SUBSET Roots \ {{}}

Empty == [r \in {} |-> 0]
Also(f, r, v) == [x \in DOMAIN f \cup {r} |-> IF x = r THEN v ELSE f[x]]
NoEvidence == [snapshot |-> 0, needs |-> Empty]
NoReceipt == [id |-> NoIdentifier, dirs |-> {}, inventory |-> Empty, meta |-> Empty,
              born |-> Empty, evidence |-> NoEvidence]
Unadopted == [id |-> NoIdentifier, dirs |-> {}]
NoCertifier == [pc |-> "out", id |-> NoIdentifier, dirs |-> {}, left |-> {}, born |-> Empty,
                seen |-> Empty, meta |-> Empty, evidence |-> NoEvidence]
NoAdopter == [pc |-> "out", id |-> NoIdentifier, dirs |-> {}, left |-> {}]
NoAdmission == [pc |-> "out", phase |-> "none", dirs |-> {}, todo |-> {}, left |-> {}, meta |-> Empty,
                took |-> NoReceipt, asked |-> NoEvidence, held |-> Empty]

CustodyInit ==
  /\ consumer \in BOOLEAN
  /\ contract \in Contracts
  /\ corpus \in [Roots -> Data]
  /\ written = [r \in Roots |-> 0]
  /\ born = [r \in Roots |-> 0]
  /\ unit = FALSE
  /\ database \in [snapshot : {0}, needs : Requirements]
  /\ changes = 0
  /\ anchor = [r \in Roots |-> NoIdentifier]
  /\ identity = Unadopted
  /\ receipt = NoReceipt /\ expired = FALSE
  /\ served = "out" /\ certifier = NoCertifier /\ adopter = NoAdopter /\ admission = NoAdmission
  /\ commands = 0

(***************************************************************************)
(* The lease on <state>/lock.                                              *)
(***************************************************************************)
Comparing == {"first", "compare", "meta", "second", "admit"}
Publishing == {"anchor", "identity", "receipt"}
Inspecting == {"walk", "receipt", "contents"}
Exclusive == certifier.pc \in Comparing \cup Publishing \/ adopter.pc # "out"
Shared == admission.pc \in Inspecting \/ served # "out"

(***************************************************************************)
(* What everybody asks of the adopted storage.                             *)
(***************************************************************************)
Verified(dirs) ==
  /\ identity.id # NoIdentifier
  /\ identity.dirs = dirs
  /\ \A r \in dirs : anchor[r] = identity.id

\* The coordinator inspects the namespaces of every resource, under a shared
\* lease of each adopted one.
NamespacesValid(dirs) == identity.id # NoIdentifier => ~Exclusive /\ Verified(dirs)

\* The validator's answer is compared with the one the namespaces were
\* inspected for.
Pinned(dirs) == contract = dirs

\* resource::inspection, with the lease it returns.
Inspected(dirs) == ~Exclusive /\ Pinned(dirs) /\ Verified(dirs)

WritersInactive == ~unit

\* An operator starts a program.
Started == commands < MaxCommands /\ commands' = commands + 1

RootIdentities(dirs) == [r \in dirs |-> born[r]]

\* The files the rows name are there, with the bytes they name.
Meets(inventory, needs) ==
  \A r \in DOMAIN needs : r \in DOMAIN inventory /\ inventory[r] = needs[r]

\* Some directories are marked already: only with this identifier.
Markable(dirs, id) == \A r \in dirs : anchor[r] \in {NoIdentifier, id}

(***************************************************************************)
(* Certification.                                                          *)
(***************************************************************************)
CertifyBegin(id) ==
  /\ certifier.pc = "out"
  /\ Started
  /\ NamespacesValid(contract)
  /\ certifier' = [NoCertifier EXCEPT !.pc = "database", !.id = id, !.dirs = contract]
  /\ UNCHANGED <<sources, custody, served, adopter, admission>>

\* The database worker holds its leases until the queries are answered.
CertifyDatabase ==
  /\ certifier.pc = "database"
  /\ certifier' = [certifier EXCEPT !.pc = "namespaces", !.evidence = database]
  /\ UNCHANGED <<sources, custody, served, adopter, admission, commands>>

\* The certifying worker inspects the namespaces again and asks the validator.
CertifyNamespaces ==
  /\ certifier.pc = "namespaces"
  /\ NamespacesValid(certifier.dirs)
  /\ Pinned(certifier.dirs)
  /\ certifier' = [certifier EXCEPT !.pc = "lock"]
  /\ UNCHANGED <<sources, custody, served, adopter, admission, commands>>

CertifyLock ==
  /\ certifier.pc = "lock"
  /\ ~Exclusive /\ ~Shared
  /\ WritersInactive
  /\ certifier' = [certifier EXCEPT !.pc = "first", !.left = certifier.dirs,
                                    !.born = RootIdentities(certifier.dirs)]
  /\ UNCHANGED <<sources, custody, served, adopter, admission, commands>>

\* The first reading of the source's contents.
CertifyRead(r) ==
  /\ certifier.pc = "first" /\ r \in certifier.left
  /\ certifier' = [certifier EXCEPT !.left = @ \ {r}, !.seen = Also(@, r, corpus[r]),
                                    !.pc = IF certifier.left = {r} THEN "compare" ELSE "first"]
  /\ UNCHANGED <<sources, custody, served, adopter, admission, commands>>

\* The restore equals what was read and shares no inode with it.
CertifyCompare ==
  /\ certifier.pc = "compare"
  /\ Meets(certifier.seen, certifier.evidence.needs)
  /\ certifier' = [certifier EXCEPT !.pc = "meta", !.left = certifier.dirs]
  /\ UNCHANGED <<sources, custody, served, adopter, admission, commands>>

CertifyMeta(r) ==
  /\ certifier.pc = "meta" /\ r \in certifier.left
  /\ LET done == certifier.left = {r}
     IN  certifier' = [certifier EXCEPT !.left = IF done THEN certifier.dirs ELSE @ \ {r},
                                        !.meta = Also(@, r, written[r]),
                                        !.pc = IF done THEN "second" ELSE "meta"]
  /\ UNCHANGED <<sources, custody, served, adopter, admission, commands>>

\* The contents again: a difference ends the certification.
BugOnceIsEnough(r) == TRUE
Unchanged(r) == corpus[r] = certifier.seen[r]

CertifyReread(r) ==
  /\ certifier.pc = "second" /\ r \in certifier.left
  /\ Unchanged(r)
  /\ certifier' = [certifier EXCEPT !.left = @ \ {r},
                                    !.pc = IF certifier.left = {r} THEN "admit" ELSE "second"]
  /\ UNCHANGED <<sources, custody, served, adopter, admission, commands>>

\* Writers, root identities and contract are as they were; storage that is
\* adopted keeps its identity, storage that is marked its marker.
CertifyAdmit ==
  /\ certifier.pc = "admit"
  /\ WritersInactive
  /\ RootIdentities(certifier.dirs) = certifier.born
  /\ Pinned(certifier.dirs)
  /\ \/ /\ identity.id # NoIdentifier
        /\ Verified(certifier.dirs) /\ identity.id = certifier.id
        /\ certifier' = [certifier EXCEPT !.pc = "receipt"]
     \/ /\ identity.id = NoIdentifier
        /\ Markable(certifier.dirs, certifier.id)
        /\ certifier' = [certifier EXCEPT !.pc = "anchor", !.left = certifier.dirs]
  /\ UNCHANGED <<sources, custody, served, adopter, admission, commands>>

CertifyAnchor(r) ==
  /\ certifier.pc = "anchor" /\ r \in certifier.left
  /\ anchor' = [anchor EXCEPT ![r] = certifier.id]
  /\ certifier' = [certifier EXCEPT !.left = @ \ {r},
                                    !.pc = IF certifier.left = {r} THEN "identity" ELSE "anchor"]
  /\ UNCHANGED <<sources, identity, receipt, expired, served, adopter, admission, commands>>

CertifyIdentity ==
  /\ certifier.pc = "identity"
  /\ identity' = [id |-> certifier.id, dirs |-> certifier.dirs]
  /\ certifier' = [certifier EXCEPT !.pc = "receipt"]
  /\ UNCHANGED <<sources, anchor, receipt, expired, served, adopter, admission, commands>>

CertifyReceipt ==
  /\ certifier.pc = "receipt"
  /\ receipt' = [id |-> certifier.id, dirs |-> certifier.dirs, inventory |-> certifier.seen,
                 meta |-> certifier.meta, born |-> certifier.born, evidence |-> certifier.evidence]
  /\ expired' = FALSE
  /\ certifier' = NoCertifier
  /\ UNCHANGED <<sources, anchor, identity, served, adopter, admission, commands>>

\* Killed, refused or out of time: the lease goes with the process.
CertifyStops ==
  /\ certifier.pc # "out"
  /\ certifier' = NoCertifier
  /\ UNCHANGED <<sources, custody, served, adopter, admission, commands>>

Certification ==
  \/ \E id \in Identifiers : CertifyBegin(id)
  \/ CertifyDatabase \/ CertifyNamespaces \/ CertifyLock \/ CertifyCompare \/ CertifyAdmit
  \/ CertifyIdentity \/ CertifyReceipt \/ CertifyStops
  \/ \E r \in Roots : CertifyRead(r) \/ CertifyMeta(r) \/ CertifyReread(r) \/ CertifyAnchor(r)

(***************************************************************************)
(* resource adopt: the other program that publishes an identity.  Adopted  *)
(* storage is verified and left alone.                                     *)
(***************************************************************************)
AdoptBegin(id) ==
  /\ adopter.pc = "out"
  /\ Started
  /\ ~Exclusive /\ ~Shared
  /\ identity.id = NoIdentifier
  /\ Markable(contract, id)
  /\ adopter' = [pc |-> "anchor", id |-> id, dirs |-> contract, left |-> contract]
  /\ UNCHANGED <<sources, custody, served, certifier, admission>>

AdoptAnchor(r) ==
  /\ adopter.pc = "anchor" /\ r \in adopter.left
  /\ anchor' = [anchor EXCEPT ![r] = adopter.id]
  /\ adopter' = [adopter EXCEPT !.left = @ \ {r},
                                !.pc = IF adopter.left = {r} THEN "identity" ELSE "anchor"]
  /\ UNCHANGED <<sources, identity, receipt, expired, served, certifier, admission, commands>>

AdoptIdentity ==
  /\ adopter.pc = "identity"
  /\ identity' = [id |-> adopter.id, dirs |-> adopter.dirs]
  /\ adopter' = NoAdopter
  /\ UNCHANGED <<sources, anchor, receipt, expired, served, certifier, admission, commands>>

AdoptStops ==
  /\ adopter.pc # "out"
  /\ adopter' = NoAdopter
  /\ UNCHANGED <<sources, custody, served, certifier, admission, commands>>

Adoption ==
  \/ \E id \in Identifiers : AdoptBegin(id)
  \/ \E r \in Roots : AdoptAnchor(r)
  \/ AdoptIdentity \/ AdoptStops

(***************************************************************************)
(* serve: inspection, the startup check, the guarded program.              *)
(***************************************************************************)
ServeInspect ==
  /\ served = "out"
  /\ Started
  /\ Inspected(contract)
  /\ served' = "inspected"
  /\ UNCHANGED <<sources, custody, certifier, adopter, admission>>

\* The receipt is of this storage; what the files hold is not asked.
Bound(dirs) ==
  /\ receipt.id = identity.id
  /\ receipt.dirs = dirs
  /\ receipt.born = RootIdentities(dirs)

ServeStart ==
  /\ served = "inspected"
  /\ Inspected(contract) /\ Bound(contract)
  /\ served' = "running"
  /\ UNCHANGED <<sources, custody, certifier, adopter, admission, commands>>

ServeEnds ==
  /\ served # "out"
  /\ served' = "out"
  /\ UNCHANGED <<sources, custody, certifier, adopter, admission, commands>>

Serve == ServeInspect \/ ServeStart \/ ServeEnds

(***************************************************************************)
(* Admission: check_manifest runs a worker for each resource, in the order *)
(* of their names, and pairs what they return.                             *)
(***************************************************************************)
CheckBegin(phase) ==
  /\ admission.pc \in {"out", "ready"}
  /\ Started
  /\ NamespacesValid(contract)
  /\ admission' = [NoAdmission EXCEPT !.pc = "pinned", !.phase = phase, !.dirs = contract,
                                      !.todo = {"files", "rows"}]
  /\ UNCHANGED <<sources, custody, served, certifier, adopter>>

\* The database worker answers the queries and digests the snapshot.
CheckRows ==
  /\ admission.pc = "pinned" /\ "rows" \in admission.todo
  /\ admission' = [admission EXCEPT !.todo = @ \ {"rows"}, !.asked = database]
  /\ UNCHANGED <<sources, custody, served, certifier, adopter, commands>>

\* The metadata is taken under the lease when a consumer names the
\* directories, before it when they are configured.
CheckFiles ==
  /\ admission.pc = "pinned" /\ "files" \in admission.todo
  /\ consumer => Inspected(admission.dirs)
  /\ admission' = [admission EXCEPT !.pc = IF consumer THEN "walk" ELSE "early",
                                    !.left = admission.dirs,
                                    !.held = [r \in Roots |-> {corpus[r]}]]
  /\ UNCHANGED <<sources, custody, served, certifier, adopter, commands>>

CheckMeta(r) ==
  /\ admission.pc \in {"early", "walk"} /\ r \in admission.left
  /\ admission' = [admission EXCEPT !.left = @ \ {r}, !.meta = Also(@, r, written[r]),
                                    !.pc = IF admission.left # {r} THEN @
                                           ELSE IF @ = "early" THEN "inspect" ELSE "receipt"]
  /\ UNCHANGED <<sources, custody, served, certifier, adopter, commands>>

CheckInspect ==
  /\ admission.pc = "inspect"
  /\ Inspected(admission.dirs)
  /\ admission' = [admission EXCEPT !.pc = "receipt"]
  /\ UNCHANGED <<sources, custody, served, certifier, adopter, commands>>

CheckReceipt ==
  /\ admission.pc = "receipt"
  /\ Bound(admission.dirs)
  /\ ~expired
  /\ receipt.meta = admission.meta
  /\ admission' = LET passed == [admission EXCEPT !.took = receipt, !.meta = Empty]
                  IN  IF admission.phase = "preflight"
                      THEN [passed EXCEPT !.pc = "pinned", !.todo = @ \ {"files"}]
                      ELSE [passed EXCEPT !.pc = "contents", !.left = admission.dirs]
  /\ UNCHANGED <<sources, custody, served, certifier, adopter, commands>>

\* Activation hashes the corpus; a difference ends the check, and so does a
\* file the requirements miss.
CheckContents(r) ==
  /\ admission.pc = "contents" /\ r \in admission.left
  /\ corpus[r] = admission.took.inventory[r]
  /\ admission.left = {r} => Meets(admission.took.inventory, admission.took.evidence.needs)
  /\ admission' = IF admission.left = {r}
                  THEN [admission EXCEPT !.pc = "pinned", !.todo = @ \ {"files"}, !.left = {}]
                  ELSE [admission EXCEPT !.left = @ \ {r}]
  /\ UNCHANGED <<sources, custody, served, certifier, adopter, commands>>

\* The snapshot and the requirements of the receipt are those of the database.
BugSnapshotOnly(evidence, asked) == evidence.snapshot = asked.snapshot
Paired(evidence, asked) ==
  evidence.snapshot = asked.snapshot /\ evidence.needs = asked.needs

CheckReady ==
  /\ admission.pc = "pinned" /\ admission.todo = {}
  /\ Paired(admission.took.evidence, admission.asked)
  /\ admission' = [admission EXCEPT !.pc = "ready"]
  /\ UNCHANGED <<sources, custody, served, certifier, adopter, commands>>

CheckStops ==
  /\ admission.pc # "out"
  /\ admission' = NoAdmission
  /\ UNCHANGED <<sources, custody, served, certifier, adopter, commands>>

Admission ==
  \/ \E phase \in {"preflight", "activate"} : CheckBegin(phase)
  \/ CheckRows \/ CheckFiles \/ CheckInspect \/ CheckReceipt \/ CheckReady \/ CheckStops
  \/ \E r \in Roots : CheckMeta(r) \/ CheckContents(r)

(***************************************************************************)
(* The environment: applications write at any time, guarded or not.        *)
(***************************************************************************)
Changed == changes < MaxChanges /\ changes' = changes + 1

\* Kept for the properties: what a root has held since the worker of an
\* admission began, or, where a consumer names the directories, at that moment.
Noticed(r, v) ==
  admission' = IF ~consumer /\ admission.pc \in {"early", "inspect", "receipt"}
               THEN [admission EXCEPT !.held[r] = @ \cup {v}] ELSE admission

WriteFile(r, v) ==
  /\ Changed
  /\ corpus' = [corpus EXCEPT ![r] = v]
  /\ written' = [written EXCEPT ![r] = changes']
  /\ Noticed(r, v)
  /\ UNCHANGED <<consumer, contract, born, unit, database, custody, served, certifier, adopter, commands>>

\* Another directory comes to be at the path, without a marker.
ReplaceRoot(r, v) ==
  /\ Changed
  /\ corpus' = [corpus EXCEPT ![r] = v]
  /\ written' = [written EXCEPT ![r] = changes']
  /\ born' = [born EXCEPT ![r] = changes']
  /\ anchor' = [anchor EXCEPT ![r] = NoIdentifier]
  /\ Noticed(r, v)
  /\ UNCHANGED <<consumer, contract, unit, database, identity, receipt, expired, served, certifier, adopter, commands>>

\* The consumer's configuration names other directories.
Reconfigure ==
  /\ Changed
  /\ consumer
  /\ contract' \in Contracts \ {contract}
  /\ UNCHANGED <<consumer, corpus, written, born, unit, database, custody, programs, commands>>

\* Recovery evidence is renewed, or rows come and go.
MoveDatabase ==
  /\ Changed
  /\ \/ database' = [database EXCEPT !.snapshot = changes']
     \/ \E needs \in Requirements \ {database.needs} : database' = [database EXCEPT !.needs = needs]
  /\ UNCHANGED <<consumer, contract, corpus, written, born, unit, custody, programs, commands>>

UnitStarts ==
  /\ Changed
  /\ unit' = TRUE
  /\ UNCHANGED <<consumer, contract, corpus, written, born, database, custody, programs, commands>>

UnitStops ==
  /\ unit
  /\ unit' = FALSE
  /\ UNCHANGED <<consumer, contract, corpus, written, born, database, changes, custody, programs, commands>>

Expire ==
  /\ Changed
  /\ receipt # NoReceipt
  /\ expired' = TRUE
  /\ UNCHANGED <<consumer, contract, corpus, written, born, unit, database, anchor, identity, receipt, programs, commands>>

Surroundings ==
  \/ \E r \in Roots, v \in Data : WriteFile(r, v) \/ ReplaceRoot(r, v)
  \/ Reconfigure \/ MoveDatabase \/ UnitStarts \/ UnitStops \/ Expire

CustodyNext == Certification \/ Adoption \/ Serve \/ Admission \/ Surroundings
CustodySpec == CustodyInit /\ [][CustodyNext]_custodyVars

(***************************************************************************)
(* Properties.                                                             *)
(***************************************************************************)
\* "rejects ... changed source data" (docs/cutover-admission.md:125): every
\* root an admission lets pass held what was certified at some instant while
\* the worker looked at it; where a consumer names the directories, all of them
\* did at once, when the metadata walk began.  The admission may have seen
\* metadata only (preflight), and the source may change during each of the three
\* readings of a certification and during the admission's.
AdmittedIsCertified ==
  admission.took # NoReceipt =>
    \A r \in admission.dirs : admission.took.inventory[r] \in admission.held[r]

\* "Database snapshot equality alone cannot prove" completeness
\* (docs/cutover-admission.md:184): when a check reports ready, the files that
\* the database's rows named during it were in the corpus it looked at, with
\* the bytes they named.
ReadyServesDatabase ==
  admission.pc = "ready" =>
    \A r \in DOMAIN admission.asked.needs :
      /\ r \in admission.dirs
      /\ admission.asked.needs[r] \in admission.held[r]

\* An adopted identity is never replaced, and a marked directory never gets
\* another marker, whoever else certifies or adopts and wherever one is killed
\* ("cannot replace adopted storage identity", custody.rs:584, resource.rs:371).
IdentityStands ==
  [][/\ identity.id # NoIdentifier => identity' = identity
     /\ \A r \in Roots :
          anchor[r] # NoIdentifier /\ born'[r] = born[r] => anchor'[r] = anchor[r]]_custodyVars
=============================================================================
