----------------------- MODULE SessionRecoveryProofs -----------------------
(***************************************************************************)
(* Proofs about SessionRecovery for any number of recoveries, process      *)
(* generations and faults.  The invariant says who holds which lock at     *)
(* which step (OwnerLocks, WorkerInv), what exists on disk at each step of *)
(* the owner (OwnerInv), and what a cleanup proof, a marker or a missing   *)
(* root says of the contained processes (ProcessInv).  Whoever deletes the *)
(* root has established the last of these under the guard.                 *)
(***************************************************************************)
EXTENDS SessionRecovery, TLAPS

\* The owner's steps, grouped by what it holds and what it has on disk.
Creating == {"create", "guard", "protect"}
Arming == {"arm", "armBind", "armCap", "armProof", "armRecord"}
Using == {"publish", "work", "failed", "pending", "spawn", "awaitR", "awaitX", "unproven",
          "settling", "rmroot"} \cup Arming
Completing == {"removed", "wcap", "wrec", "wbind", "wcapfile", "wmarker"}
Deleted == {"rmguard", "rmprot", "close"} \cup Completing
HoldsGuard == {"protect", "rmguard", "rmprot", "close"} \cup Using
HoldsFence == {"armBind", "armCap", "armProof", "armRecord", "wcap", "wrec", "wbind", "wcapfile"}
\* Those at which a process of its own may be there.
Retaining == {"awaitR", "awaitX", "unproven", "settling", "exit"}

OwnerLocks ==
    /\ opc \in {"guard", "protect"} => lock["coord"] = Owner
    /\ opc \in HoldsGuard => lock["guard"] = Owner
    /\ opc \in HoldsFence => lock["fence"] = Owner
    /\ typed /\ opc # "exit" => lock["id"] = Owner

\* What is on disk, and what the owner knows, at each of its steps.
OwnerInv ==
    /\ opc \in Creating =>
          /\ \A p \in Workers : pc[p] = "idle"
          /\ rec = NoRecord /\ cap = NoCapability /\ marker = NoMarker /\ ~bound
          /\ spc = "none" /\ gen = 0 /\ (root <=> opc # "create") /\ ~prot
          /\ (opc = "protect" => guardFile)
    /\ opc \in {"publish", "pending"} => typed
    /\ opc \in Using => root /\ guardFile /\ prot
    /\ opc = "rmguard" => guardFile
    /\ opc \in Deleted => ~root
    /\ opc \in Arming => gen < MaxGen
    /\ opc \in {"pending", "spawn", "awaitR", "awaitX"} => gen > 0
    /\ opc \notin Retaining => ~retained
    /\ opc \in {"armRecord", "pending", "spawn"} => proof.kind = "notarget"
    /\ typed /\ opc \in (Using \ {"publish", "settling", "rmroot"}) => marker # NoMarker
    /\ typed /\ opc = "spawn" => marker.phase = "pending"
    /\ opc \in {"wcap", "wrec"} => validBinding
    /\ opc = "wrec" => cap.removed
    /\ opc \in {"wbind", "wcapfile"} => rec.st = "removed"
    /\ opc = "wcapfile" => ~bound

\* No process of the Session is alive and none can be started any more.
Dead ==
    /\ ~target
    /\ spc \in {"adopt", "revoke", "revoked", "ready"} => "S" \notin chan /\ opc = "exit"

\* What the evidence says of the contained processes.
ProcessInv ==
    /\ ~retained => ~target /\ spc \in {"none", "ended"}
    /\ "X" \in chan => spc = "ended" /\ ~target
    /\ spc \in {"adopt", "revoke", "revoked"} => chan = {}
    /\ spc \in {"none", "adopt", "revoke", "revoked", "ready", "settled", "settledX", "report"} => ~target
    /\ spc # "none" => gen > 0
    /\ proof.kind = "notarget" => ~target /\ spc \in {"none", "ended", "adopt", "revoke"}
    /\ proof.kind = "settled" => ~target /\ spc \in {"report", "ended"}
    /\ marker # NoMarker => typed
    /\ marker.phase \in {"prepared", "recoverable"} => ~target /\ spc \in {"none", "ended"}
    /\ root /\ ~prot => spc = "none" /\ opc \in {"guard", "protect", "exit"}
    /\ ~root => Dead

\* Steps of a recovery, grouped in the same way.
Deleting == {"rmroot", "rmguard", "rmprot"}
Bound == {"lease", "flock", "verify", "wcap", "wrec"} \cup Deleting
Finishing == {"wcap", "wrec", "wmarker", "wbind", "wcapfile"}
Typed == {"match", "tfence", "tdone", "wmarker", "wbind", "wcapfile"} \cup Bound
Untyped == {"lookup", "fence", "wmarker", "wbind", "wcapfile"} \cup Bound

WorkerInv(p) ==
    /\ p \in Recoverers => pc[p] \in Untyped \cup {"idle"} /\ auth[p] # "untracked"
    /\ p \in TypedRecoverers => pc[p] \in Typed \cup {"idle"}
    /\ p \in TypedRecoverers /\ pc[p] # "idle" => typed /\ auth[p] \in {"held", "untracked"}
    /\ p \in TypedRecoverers /\ pc[p] \notin {"idle", "wbind", "wcapfile"} => marker # NoMarker
    /\ pc[p] # "idle" /\ auth[p] \in {"held", "untracked"} => typed /\ lock["id"] = p
    /\ pc[p] = "lookup" => typed
    /\ pc[p] \in {"match", "tfence", "tdone"} => auth[p] = "held"
    /\ pc[p] \in {"flock", "rmguard", "rmprot"} => lock["coord"] = p
    /\ pc[p] \in {"verify"} \cup Deleting => lock["guard"] = p
    /\ pc[p] \in Bound \cup Finishing /\ auth[p] # "untracked" => lock["fence"] = p
    /\ pc[p] \in Bound /\ auth[p] # "untracked" => validBinding
    /\ pc[p] \in Finishing \ {"wmarker"} => auth[p] # "untracked"
    /\ pc[p] = "wrec" => cap.removed
    /\ pc[p] \in {"wmarker", "wbind", "wcapfile"} /\ auth[p] # "untracked" => rec.st = "removed"
    /\ pc[p] = "wcapfile" => ~bound
    /\ pc[p] \in Deleting \cup Finishing => opc = "exit"
    /\ pc[p] \in (Deleting \cup Finishing) \ {"rmroot"} => ~root
    /\ pc[p] = "rmroot" => Dead
WorkersInv == \A p \in Recovery : WorkerInv(p)

StartupInv ==
    /\ pc[Startup] \in {"idle", "inspect", "reclaim"}
    /\ pc[Startup] = "reclaim" =>
          /\ ~prot
          /\ lock["guard"] = Startup \/ opc \in (Deleted \ {"rmguard"}) \cup {"exit"}

\* What was reported as removed is gone.
RemovedInv ==
    /\ rec.st = "removed" => ~root /\ opc \in {"wbind", "wcapfile", "wmarker", "exit"}
    /\ cap.removed => ~root /\ opc \in {"wrec", "wbind", "wcapfile", "exit"}

IndInv ==
    /\ TypeOK /\ OwnerLocks /\ OwnerInv /\ ProcessInv /\ WorkersInv /\ StartupInv /\ RemovedInv



\* What a step of p may do to the locks: take free ones and drop its own.
Locking(p) ==
    /\ lock' \in [Locks -> Workers \cup {Owner, Nobody}]
    /\ \A l \in Locks : \/ lock'[l] = lock[l]
                        \/ lock[l] \in {p, Nobody} /\ lock'[l] \in {p, Nobody}

\* What a step of somebody else leaves of what recovery q relies on.
Leaves(q) ==
    /\ typed' = typed /\ pc'[q] = pc[q] /\ auth'[q] = auth[q]
    /\ \A l \in Locks : lock[l] = q => lock'[l] = q
    /\ lock["id"] = q /\ marker # NoMarker => marker' # NoMarker
    /\ lock["fence"] = q => /\ validBinding => validBinding'
                            /\ cap.removed => cap'.removed
                            /\ rec.st = "removed" => rec'.st = "removed"
                            /\ ~bound => ~bound'
    /\ opc = "exit" => opc' = "exit"
    /\ ~root => ~root'
    /\ Dead /\ opc = "exit" => Dead'

-----------------------------------------------------------------------------
LEMMA FaultBounds ==
  ASSUME faults \in 0..MaxFaults
  PROVE  Fault => faults' \in 0..MaxFaults
  BY SessionAssumption DEF Fault

LEMMA GenBounds ==
  /\ 0 \in Gens /\ \A g \in 1..MaxGen : g \in Gens
  /\ \A g \in Gens : /\ g # 0 => g \in 1..MaxGen /\ g > 0
                     /\ g < MaxGen => g + 1 \in 1..MaxGen /\ g + 1 > 0
  BY SessionAssumption DEF Gens

\* The updates of a record, a capability and a marker that exist.
LEMMA Restated ==
  ASSUME TypeOK, rec # NoRecord, NEW s \in RecordStates, NEW r, r = [rec EXCEPT !.st = s]
  PROVE  /\ r \in [st : RecordStates, gen : 1..MaxGen, comp : Gens]
         /\ r.st = s /\ r.gen = rec.gen /\ r # NoRecord
<1>1. rec \in [st : RecordStates, gen : 1..MaxGen, comp : Gens]
  BY DEF TypeOK
<1>2. NoRecord.st \notin RecordStates
  BY DEF NoRecord, RecordStates
<1> QED
  BY <1>1, <1>2

LEMMA RecordRemoved ==
  ASSUME TypeOK, rec # NoRecord, NEW r, r = [rec EXCEPT !.st = "removed", !.comp = cap.gen]
  PROVE  /\ r \in [st : RecordStates, gen : 1..MaxGen, comp : Gens]
         /\ r.st = "removed" /\ r.gen = rec.gen
<1>1. rec \in [st : RecordStates, gen : 1..MaxGen, comp : Gens] /\ cap.gen \in Gens
  BY SessionAssumption DEF TypeOK, NoCapability, Gens
<1> DEFINE r1 == [rec EXCEPT !.st = "removed"]
           r2 == [r1 EXCEPT !.comp = cap.gen]
<1>2. r1 \in [st : RecordStates, gen : 1..MaxGen, comp : Gens] /\ r1.st = "removed" /\ r1.gen = rec.gen
  BY <1>1 DEF RecordStates
<1>3. /\ r2 \in [st : RecordStates, gen : 1..MaxGen, comp : Gens]
      /\ r2.st = "removed" /\ r2.gen = rec.gen
  BY <1>1, <1>2
<1>4. r = r2
  OBVIOUS
<1> HIDE DEF r1, r2
<1> QED
  BY <1>3, <1>4

LEMMA CapabilityRemoved ==
  ASSUME TypeOK, cap # NoCapability, NEW c, c = [cap EXCEPT !.removed = TRUE]
  PROVE  c \in [gen : 1..MaxGen, removed : BOOLEAN] /\ c.removed /\ c.gen = cap.gen
<1>1. cap \in [gen : 1..MaxGen, removed : BOOLEAN]
  BY DEF TypeOK
<1> QED
  BY <1>1

LEMMA Rephased ==
  ASSUME TypeOK, marker # NoMarker, NEW ph \in {"prepared", "pending", "recoverable"},
         NEW m, m = [marker EXCEPT !.phase = ph]
  PROVE  /\ m \in [phase : {"prepared", "pending", "recoverable"}, chal : Gens]
         /\ m.phase = ph /\ m # NoMarker
<1>1. marker \in [phase : {"prepared", "pending", "recoverable"}, chal : Gens]
  BY DEF TypeOK
<1>2. NoMarker.phase \notin {"prepared", "pending", "recoverable"}
  BY DEF NoMarker
<1> QED
  BY <1>1, <1>2

\* A binding that holds names a record and a capability.
LEMMA ValidExists == validBinding => rec # NoRecord /\ cap # NoCapability
  BY DEF validBinding, NoRecord, NoCapability

\* The actors are different, and nobody of them is Nobody.
LEMMA Actors ==
  /\ \A p \in Recovery : p \in Workers /\ p # Owner /\ p # Startup /\ p # Nobody
  /\ \A r \in Recoverers : r \in Recovery /\ r \notin TypedRecoverers
  /\ \A t \in TypedRecoverers : t \in Recovery /\ t \notin Recoverers
  /\ Startup \in Workers /\ Owner \notin Workers /\ Nobody \notin Workers
  /\ Owner # Nobody /\ Startup # Nobody /\ Startup # Owner
  BY SessionAssumption DEF Recovery, Workers

LEMMA WorkerKept ==
  ASSUME NEW q \in Recovery, WorkerInv(q), Leaves(q)
  PROVE  WorkerInv(q)'
  BY DEF WorkerInv, Leaves, Deleting, Bound, Finishing, Typed, Untyped, Locks

LEMMA OwnerLocksKept ==
  ASSUME OwnerLocks, NEW p, p # Owner, Locking(p), UNCHANGED <<opc, typed>>
  PROVE  OwnerLocks'
  BY Actors DEF OwnerLocks, Locking, Locks


LEMMA MakeRootHolds == ASSUME IndInv, MakeRoot PROVE IndInv'
<1>1. /\ TypeOK /\ OwnerLocks /\ OwnerInv /\ ProcessInv /\ WorkersInv /\ StartupInv /\ RemovedInv
  BY DEF IndInv
<1>k. Locking(Owner)
  BY <1>1, Actors DEF MakeRoot, Locking, TypeOK, OwnerLocks, HoldsGuard, HoldsFence, Locks, Take, Free
<1>t. /\ root' \in BOOLEAN
      /\ opc' \in OwnerSteps
  BY <1>1, GenBounds DEF MakeRoot, Free, TypeOK, OwnerSteps, OwnerInv, Arming
<1>A. TypeOK'
  BY <1>1, <1>k, <1>t DEF MakeRoot, TypeOK, session, registry, owner, supervisor, workers, Locking
<1>B. OwnerLocks'
  BY <1>1, <1>k, Actors DEF MakeRoot, Take, Free, OwnerLocks, Creating, Arming, Using, Completing,
     Deleted, HoldsGuard, HoldsFence, Retaining, Locks, OwnerInv, session, registry, owner, supervisor,
     workers, Locking
<1>C. OwnerInv'
  BY <1>1, <1>k, Actors DEF MakeRoot, Take, Free, OwnerInv, Creating, Arming, Using, Completing,
     Deleted, HoldsGuard, HoldsFence, Retaining, validBinding, NoRecord, NoCapability, NoMarker,
     ProcessInv, RemovedInv, OwnerLocks, Locks, session, registry, owner, supervisor, workers, Locking
<1>D. ProcessInv'
  BY <1>1, <1>k, Actors DEF MakeRoot, Take, Free, ProcessInv, Dead, NoMarker, NoProof, OwnerInv,
     Creating, Arming, Using, Completing, Deleted, HoldsGuard, HoldsFence, Retaining, session,
     registry, owner, supervisor, workers, Locking
<1>E. WorkersInv'
  BY <1>1 DEF MakeRoot, OwnerInv, Creating, WorkersInv, WorkerInv, Deleting, Bound, Finishing, Typed,
     Untyped, workers, Recovery, Workers
<1>F. StartupInv'
  BY <1>1, <1>k, Actors DEF MakeRoot, Take, Free, StartupInv, Deleted, Completing, Locks, OwnerInv,
     OwnerLocks, Using, Arming, Creating, HoldsGuard, session, registry, owner, supervisor, workers,
     Locking
<1>G. RemovedInv'
  BY <1>1, <1>k, Actors DEF MakeRoot, Take, Free, RemovedInv, NoRecord, NoCapability, OwnerInv,
     Completing, Deleted, session, registry, owner, supervisor, workers, Locking
<1> QED
  BY <1>A, <1>B, <1>C, <1>D, <1>E, <1>F, <1>G DEF IndInv

LEMMA MakeGuardHolds == ASSUME IndInv, MakeGuard PROVE IndInv'
<1>1. /\ TypeOK /\ OwnerLocks /\ OwnerInv /\ ProcessInv /\ WorkersInv /\ StartupInv /\ RemovedInv
  BY DEF IndInv
<1>k. /\ lock' \in [Locks -> Workers \cup {Owner, Nobody}] /\ lock'["guard"] = Owner
      /\ \A l \in Locks \ {"guard"} : lock'[l] = lock[l]
  BY <1>1 DEF MakeGuard, Take, TypeOK, Locks
<1>t. /\ guardFile' \in BOOLEAN
      /\ opc' \in OwnerSteps
  BY <1>1, GenBounds DEF MakeGuard, TypeOK, OwnerSteps, OwnerInv, Arming
<1>A. TypeOK'
  BY <1>1, <1>k, <1>t DEF MakeGuard, TypeOK, session, registry, owner, supervisor, workers, Locking
<1>B. OwnerLocks'
  BY <1>1, <1>k, Actors DEF MakeGuard, Take, OwnerLocks, Creating, Arming, Using, Completing, Deleted,
     HoldsGuard, HoldsFence, Retaining, Locks, OwnerInv, session, registry, owner, supervisor, workers,
     Locking
<1>C. OwnerInv'
  BY <1>1, <1>k, Actors DEF MakeGuard, Take, OwnerInv, Creating, Arming, Using, Completing, Deleted,
     HoldsGuard, HoldsFence, Retaining, validBinding, NoRecord, NoCapability, NoMarker, ProcessInv,
     RemovedInv, OwnerLocks, Locks, session, registry, owner, supervisor, workers, Locking
<1>D. ProcessInv'
  BY <1>1, <1>k, Actors DEF MakeGuard, Take, ProcessInv, Dead, NoMarker, NoProof, OwnerInv, Creating,
     Arming, Using, Completing, Deleted, HoldsGuard, HoldsFence, Retaining, session, registry, owner,
     supervisor, workers, Locking
<1>E. WorkersInv'
  BY <1>1 DEF MakeGuard, OwnerInv, Creating, WorkersInv, WorkerInv, Deleting, Bound, Finishing, Typed,
     Untyped, workers, Recovery, Workers
<1>F. StartupInv'
  BY <1>1, <1>k, Actors DEF MakeGuard, Take, StartupInv, Deleted, Completing, Locks, OwnerInv,
     OwnerLocks, Using, Arming, Creating, HoldsGuard, session, registry, owner, supervisor, workers,
     Locking
<1>G. RemovedInv'
  BY <1>1, <1>k, Actors DEF MakeGuard, Take, RemovedInv, NoRecord, NoCapability, OwnerInv, Completing,
     Deleted, session, registry, owner, supervisor, workers, Locking
<1> QED
  BY <1>A, <1>B, <1>C, <1>D, <1>E, <1>F, <1>G DEF IndInv

LEMMA ProtectHolds == ASSUME IndInv, Protect PROVE IndInv'
<1>1. /\ TypeOK /\ OwnerLocks /\ OwnerInv /\ ProcessInv /\ WorkersInv /\ StartupInv /\ RemovedInv
  BY DEF IndInv
<1>k. Locking(Owner)
  BY <1>1, Actors DEF Protect, Locking, TypeOK, OwnerLocks, HoldsGuard, HoldsFence, Locks, Drop
<1>t. /\ prot' \in BOOLEAN
      /\ opc' \in OwnerSteps
  BY <1>1, GenBounds DEF Protect, TypeOK, OwnerSteps, OwnerInv, Arming
<1>A. TypeOK'
  BY <1>1, <1>k, <1>t DEF Protect, TypeOK, session, registry, owner, supervisor, workers, Locking
<1>B. OwnerLocks'
  BY <1>1, <1>k, Actors DEF Protect, Drop, OwnerLocks, Creating, Arming, Using, Completing, Deleted,
     HoldsGuard, HoldsFence, Retaining, Locks, OwnerInv, session, registry, owner, supervisor, workers,
     Locking
<1>C. OwnerInv'
  BY <1>1, <1>k, Actors DEF Protect, Drop, OwnerInv, Creating, Arming, Using, Completing, Deleted,
     HoldsGuard, HoldsFence, Retaining, validBinding, NoRecord, NoCapability, NoMarker, ProcessInv,
     RemovedInv, OwnerLocks, Locks, session, registry, owner, supervisor, workers, Locking
<1>D. ProcessInv'
  BY <1>1, <1>k, Actors DEF Protect, Drop, ProcessInv, Dead, NoMarker, NoProof, OwnerInv, Creating,
     Arming, Using, Completing, Deleted, HoldsGuard, HoldsFence, Retaining, session, registry, owner,
     supervisor, workers, Locking
<1>E. WorkersInv'
  <2>1. ASSUME NEW q \in Recovery PROVE Leaves(q)
    BY <2>1, <1>1, <1>k, Actors DEF Protect, Leaves, Dead, validBinding, Locks, Recovery, Workers,
       Locking, OwnerLocks, OwnerInv, ProcessInv, RemovedInv, Creating, Arming, Using, Completing,
       Deleted, HoldsGuard, HoldsFence, Retaining, session, registry, owner, supervisor, workers
  <2> QED
    BY <1>1, <2>1, WorkerKept DEF WorkersInv
<1>F. StartupInv'
  BY <1>1, <1>k, Actors DEF Protect, Drop, StartupInv, Deleted, Completing, Locks, OwnerInv,
     OwnerLocks, Using, Arming, Creating, HoldsGuard, session, registry, owner, supervisor, workers,
     Locking
<1>G. RemovedInv'
  BY <1>1, <1>k, Actors DEF Protect, Drop, RemovedInv, NoRecord, NoCapability, OwnerInv, Completing,
     Deleted, session, registry, owner, supervisor, workers, Locking
<1> QED
  BY <1>A, <1>B, <1>C, <1>D, <1>E, <1>F, <1>G DEF IndInv

LEMMA PublishPreparedHolds == ASSUME IndInv, PublishPrepared PROVE IndInv'
<1>1. /\ TypeOK /\ OwnerLocks /\ OwnerInv /\ ProcessInv /\ WorkersInv /\ StartupInv /\ RemovedInv
  BY DEF IndInv
<1>t. /\ marker' \in {NoMarker} \cup [phase : {"prepared", "pending", "recoverable"}, chal : Gens]
      /\ opc' \in OwnerSteps
  BY <1>1, GenBounds DEF PublishPrepared, TypeOK, OwnerSteps, OwnerInv, Arming
<1>A. TypeOK'
  BY <1>1, <1>t DEF PublishPrepared, TypeOK, session, registry, owner, supervisor, workers, Locking
<1>B. OwnerLocks'
  BY <1>1, Actors DEF PublishPrepared, OwnerLocks, Creating, Arming, Using, Completing, Deleted,
     HoldsGuard, HoldsFence, Retaining, Locks, OwnerInv, session, registry, owner, supervisor, workers
<1>C. OwnerInv'
  BY <1>1, Actors DEF PublishPrepared, OwnerInv, Creating, Arming, Using, Completing, Deleted,
     HoldsGuard, HoldsFence, Retaining, validBinding, NoRecord, NoCapability, NoMarker, ProcessInv,
     RemovedInv, OwnerLocks, Locks, session, registry, owner, supervisor, workers
<1>D. ProcessInv'
  BY <1>1, Actors DEF PublishPrepared, ProcessInv, Dead, NoMarker, NoProof, OwnerInv, Creating, Arming,
     Using, Completing, Deleted, HoldsGuard, HoldsFence, Retaining, session, registry, owner,
     supervisor, workers
<1>E. WorkersInv'
  <2>1. ASSUME NEW q \in Recovery PROVE Leaves(q)
    BY <2>1, <1>1, Actors DEF PublishPrepared, Leaves, Dead, validBinding, Locks, Recovery, Workers,
       OwnerLocks, OwnerInv, ProcessInv, RemovedInv, Creating, Arming, Using, Completing, Deleted,
       HoldsGuard, HoldsFence, Retaining, session, registry, owner, supervisor, workers
  <2> QED
    BY <1>1, <2>1, WorkerKept DEF WorkersInv
<1>F. StartupInv'
  BY <1>1, Actors DEF PublishPrepared, StartupInv, Deleted, Completing, Locks, OwnerInv, OwnerLocks,
     Using, Arming, Creating, HoldsGuard, session, registry, owner, supervisor, workers
<1>G. RemovedInv'
  BY <1>1, Actors DEF PublishPrepared, RemovedInv, NoRecord, NoCapability, OwnerInv, Completing,
     Deleted, session, registry, owner, supervisor, workers
<1> QED
  BY <1>A, <1>B, <1>C, <1>D, <1>E, <1>F, <1>G DEF IndInv

LEMMA AdvanceChallengeHolds == ASSUME IndInv, AdvanceChallenge PROVE IndInv'
<1>1. /\ TypeOK /\ OwnerLocks /\ OwnerInv /\ ProcessInv /\ WorkersInv /\ StartupInv /\ RemovedInv
  BY DEF IndInv
<1>t. /\ marker' \in {NoMarker} \cup [phase : {"prepared", "pending", "recoverable"}, chal : Gens]
      /\ opc' \in OwnerSteps
  BY <1>1, GenBounds DEF AdvanceChallenge, TypeOK, OwnerSteps, OwnerInv, Arming
<1>A. TypeOK'
  BY <1>1, <1>t DEF AdvanceChallenge, TypeOK, session, registry, owner, supervisor, workers, Locking
<1>B. OwnerLocks'
  BY <1>1, Actors DEF AdvanceChallenge, OwnerLocks, Creating, Arming, Using, Completing, Deleted,
     HoldsGuard, HoldsFence, Retaining, Locks, OwnerInv, session, registry, owner, supervisor, workers
<1>C. OwnerInv'
  BY <1>1, Actors DEF AdvanceChallenge, OwnerInv, Creating, Arming, Using, Completing, Deleted,
     HoldsGuard, HoldsFence, Retaining, validBinding, NoRecord, NoCapability, NoMarker, ProcessInv,
     RemovedInv, OwnerLocks, Locks, session, registry, owner, supervisor, workers
<1>D. ProcessInv'
  BY <1>1, Actors DEF AdvanceChallenge, ProcessInv, Dead, NoMarker, NoProof, OwnerInv, Creating,
     Arming, Using, Completing, Deleted, HoldsGuard, HoldsFence, Retaining, session, registry, owner,
     supervisor, workers
<1>E. WorkersInv'
  <2>1. ASSUME NEW q \in Recovery PROVE Leaves(q)
    BY <2>1, <1>1, Actors DEF AdvanceChallenge, Leaves, Dead, validBinding, Locks, Recovery, Workers,
       OwnerLocks, OwnerInv, ProcessInv, RemovedInv, Creating, Arming, Using, Completing, Deleted,
       HoldsGuard, HoldsFence, Retaining, session, registry, owner, supervisor, workers
  <2> QED
    BY <1>1, <2>1, WorkerKept DEF WorkersInv
<1>F. StartupInv'
  BY <1>1, Actors DEF AdvanceChallenge, StartupInv, Deleted, Completing, Locks, OwnerInv, OwnerLocks,
     Using, Arming, Creating, HoldsGuard, session, registry, owner, supervisor, workers
<1>G. RemovedInv'
  BY <1>1, Actors DEF AdvanceChallenge, RemovedInv, NoRecord, NoCapability, OwnerInv, Completing,
     Deleted, session, registry, owner, supervisor, workers
<1> QED
  BY <1>A, <1>B, <1>C, <1>D, <1>E, <1>F, <1>G DEF IndInv

LEMMA ArmBeginHolds == ASSUME IndInv, ArmBegin PROVE IndInv'
<1>1. /\ TypeOK /\ OwnerLocks /\ OwnerInv /\ ProcessInv /\ WorkersInv /\ StartupInv /\ RemovedInv
  BY DEF IndInv
<1>k. Locking(Owner)
  BY <1>1, Actors DEF ArmBegin, Locking, TypeOK, OwnerLocks, HoldsGuard, HoldsFence, Locks, Take, Free
<1>t. /\ opc' \in OwnerSteps
  BY <1>1, GenBounds DEF ArmBegin, Free, armAdmitted, TypeOK, OwnerSteps, OwnerInv, Arming
<1>A. TypeOK'
  BY <1>1, <1>k, <1>t DEF ArmBegin, TypeOK, session, registry, owner, supervisor, workers, Locking
<1>B. OwnerLocks'
  BY <1>1, <1>k, Actors DEF ArmBegin, Take, Free, armAdmitted, OwnerLocks, Creating, Arming, Using,
     Completing, Deleted, HoldsGuard, HoldsFence, Retaining, Locks, OwnerInv, session, registry, owner,
     supervisor, workers, Locking
<1>C. OwnerInv'
  BY <1>1, <1>k, Actors DEF ArmBegin, Take, Free, armAdmitted, OwnerInv, Creating, Arming, Using,
     Completing, Deleted, HoldsGuard, HoldsFence, Retaining, validBinding, NoRecord, NoCapability,
     NoMarker, ProcessInv, RemovedInv, OwnerLocks, Locks, session, registry, owner, supervisor,
     workers, Locking
<1>D. ProcessInv'
  BY <1>1, <1>k, Actors DEF ArmBegin, Take, Free, armAdmitted, ProcessInv, Dead, NoMarker, NoProof,
     OwnerInv, Creating, Arming, Using, Completing, Deleted, HoldsGuard, HoldsFence, Retaining,
     session, registry, owner, supervisor, workers, Locking
<1>E. WorkersInv'
  <2>1. ASSUME NEW q \in Recovery PROVE Leaves(q)
    BY <2>1, <1>1, <1>k, Actors DEF ArmBegin, Free, armAdmitted, Leaves, Dead, validBinding, Locks,
       Recovery, Workers, Locking, OwnerLocks, OwnerInv, ProcessInv, RemovedInv, Creating, Arming,
       Using, Completing, Deleted, HoldsGuard, HoldsFence, Retaining, session, registry, owner,
       supervisor, workers
  <2> QED
    BY <1>1, <2>1, WorkerKept DEF WorkersInv
<1>F. StartupInv'
  BY <1>1, <1>k, Actors DEF ArmBegin, Take, Free, armAdmitted, StartupInv, Deleted, Completing, Locks,
     OwnerInv, OwnerLocks, Using, Arming, Creating, HoldsGuard, session, registry, owner, supervisor,
     workers, Locking
<1>G. RemovedInv'
  BY <1>1, <1>k, Actors DEF ArmBegin, Take, Free, armAdmitted, RemovedInv, NoRecord, NoCapability,
     OwnerInv, Completing, Deleted, session, registry, owner, supervisor, workers, Locking
<1> QED
  BY <1>A, <1>B, <1>C, <1>D, <1>E, <1>F, <1>G DEF IndInv

LEMMA ArmBindingHolds == ASSUME IndInv, ArmBinding PROVE IndInv'
<1>1. /\ TypeOK /\ OwnerLocks /\ OwnerInv /\ ProcessInv /\ WorkersInv /\ StartupInv /\ RemovedInv
  BY DEF IndInv
<1>t. /\ bound' \in BOOLEAN
      /\ opc' \in OwnerSteps
  BY <1>1, GenBounds DEF ArmBinding, TypeOK, OwnerSteps, OwnerInv, Arming
<1>A. TypeOK'
  BY <1>1, <1>t DEF ArmBinding, TypeOK, session, registry, owner, supervisor, workers, Locking
<1>B. OwnerLocks'
  BY <1>1, Actors DEF ArmBinding, OwnerLocks, Creating, Arming, Using, Completing, Deleted, HoldsGuard,
     HoldsFence, Retaining, Locks, OwnerInv, session, registry, owner, supervisor, workers
<1>C. OwnerInv'
  BY <1>1, Actors DEF ArmBinding, OwnerInv, Creating, Arming, Using, Completing, Deleted, HoldsGuard,
     HoldsFence, Retaining, validBinding, NoRecord, NoCapability, NoMarker, ProcessInv, RemovedInv,
     OwnerLocks, Locks, session, registry, owner, supervisor, workers
<1>D. ProcessInv'
  BY <1>1, Actors DEF ArmBinding, ProcessInv, Dead, NoMarker, NoProof, OwnerInv, Creating, Arming,
     Using, Completing, Deleted, HoldsGuard, HoldsFence, Retaining, session, registry, owner,
     supervisor, workers
<1>E. WorkersInv'
  <2>1. ASSUME NEW q \in Recovery PROVE Leaves(q)
    BY <2>1, <1>1, Actors DEF ArmBinding, Leaves, Dead, validBinding, Locks, Recovery, Workers,
       OwnerLocks, OwnerInv, ProcessInv, RemovedInv, Creating, Arming, Using, Completing, Deleted,
       HoldsGuard, HoldsFence, Retaining, session, registry, owner, supervisor, workers
  <2> QED
    BY <1>1, <2>1, WorkerKept DEF WorkersInv
<1>F. StartupInv'
  BY <1>1, Actors DEF ArmBinding, StartupInv, Deleted, Completing, Locks, OwnerInv, OwnerLocks, Using,
     Arming, Creating, HoldsGuard, session, registry, owner, supervisor, workers
<1>G. RemovedInv'
  BY <1>1, Actors DEF ArmBinding, RemovedInv, NoRecord, NoCapability, OwnerInv, Completing, Deleted,
     session, registry, owner, supervisor, workers
<1> QED
  BY <1>A, <1>B, <1>C, <1>D, <1>E, <1>F, <1>G DEF IndInv

LEMMA ArmCapabilityHolds == ASSUME IndInv, ArmCapability PROVE IndInv'
<1>1. /\ TypeOK /\ OwnerLocks /\ OwnerInv /\ ProcessInv /\ WorkersInv /\ StartupInv /\ RemovedInv
  BY DEF IndInv
<1>r. /\ cap' \in [gen : 1..MaxGen, removed : BOOLEAN] /\ ~cap'.removed /\ opc \in Arming
  BY <1>1, GenBounds DEF ArmCapability, TypeOK, OwnerInv, Arming
<1>t. /\ cap' \in {NoCapability} \cup [gen : 1..MaxGen, removed : BOOLEAN]
      /\ opc' \in OwnerSteps
      /\ stale' \subseteq Recovery
  BY <1>1, <1>r, GenBounds DEF ArmCapability, Outdate, TypeOK, OwnerSteps, OwnerInv, Arming
<1>A. TypeOK'
  BY <1>1, <1>t DEF ArmCapability, TypeOK, session, registry, owner, supervisor, workers, Locking
<1>B. OwnerLocks'
  BY <1>1, <1>r, Actors DEF ArmCapability, Outdate, OwnerLocks, Creating, Arming, Using, Completing,
     Deleted, HoldsGuard, HoldsFence, Retaining, Locks, OwnerInv, session, registry, owner, supervisor,
     workers
<1>C. OwnerInv'
  BY <1>1, <1>r, Actors DEF ArmCapability, Outdate, OwnerInv, Creating, Arming, Using, Completing,
     Deleted, HoldsGuard, HoldsFence, Retaining, validBinding, NoRecord, NoCapability, NoMarker,
     ProcessInv, RemovedInv, OwnerLocks, Locks, session, registry, owner, supervisor, workers
<1>D. ProcessInv'
  BY <1>1, <1>r, Actors DEF ArmCapability, Outdate, ProcessInv, Dead, NoMarker, NoProof, OwnerInv,
     Creating, Arming, Using, Completing, Deleted, HoldsGuard, HoldsFence, Retaining, session,
     registry, owner, supervisor, workers
<1>E. WorkersInv'
  <2>1. ASSUME NEW q \in Recovery PROVE Leaves(q)
    BY <2>1, <1>1, <1>r, Actors DEF ArmCapability, Outdate, Leaves, Dead, validBinding, Locks,
       Recovery, Workers, OwnerLocks, OwnerInv, ProcessInv, RemovedInv, Creating, Arming, Using,
       Completing, Deleted, HoldsGuard, HoldsFence, Retaining, session, registry, owner, supervisor,
       workers
  <2> QED
    BY <1>1, <2>1, WorkerKept DEF WorkersInv
<1>F. StartupInv'
  BY <1>1, <1>r, Actors DEF ArmCapability, Outdate, StartupInv, Deleted, Completing, Locks, OwnerInv,
     OwnerLocks, Using, Arming, Creating, HoldsGuard, session, registry, owner, supervisor, workers
<1>G. RemovedInv'
  BY <1>1, <1>r, Actors DEF ArmCapability, Outdate, RemovedInv, NoRecord, NoCapability, OwnerInv,
     Completing, Deleted, session, registry, owner, supervisor, workers
<1> QED
  BY <1>A, <1>B, <1>C, <1>D, <1>E, <1>F, <1>G DEF IndInv

LEMMA ArmProofHolds == ASSUME IndInv, ArmProof PROVE IndInv'
<1>1. /\ TypeOK /\ OwnerLocks /\ OwnerInv /\ ProcessInv /\ WorkersInv /\ StartupInv /\ RemovedInv
  BY DEF IndInv
<1>r. proof' \in [kind : {"notarget", "settled"}, gen : 1..MaxGen] /\ proof'.kind = "notarget"
  BY <1>1, GenBounds DEF ArmProof, TypeOK, OwnerInv, Arming
<1>t. /\ proof' \in {NoProof} \cup [kind : {"notarget", "settled"}, gen : 1..MaxGen]
      /\ opc' \in OwnerSteps
  BY <1>1, <1>r, GenBounds DEF ArmProof, TypeOK, OwnerSteps, OwnerInv, Arming
<1>A. TypeOK'
  BY <1>1, <1>t DEF ArmProof, TypeOK, session, registry, owner, supervisor, workers, Locking
<1>B. OwnerLocks'
  BY <1>1, <1>r, Actors DEF ArmProof, OwnerLocks, Creating, Arming, Using, Completing, Deleted,
     HoldsGuard, HoldsFence, Retaining, Locks, OwnerInv, session, registry, owner, supervisor, workers
<1>C. OwnerInv'
  BY <1>1, <1>r, Actors DEF ArmProof, OwnerInv, Creating, Arming, Using, Completing, Deleted,
     HoldsGuard, HoldsFence, Retaining, validBinding, NoRecord, NoCapability, NoMarker, ProcessInv,
     RemovedInv, OwnerLocks, Locks, session, registry, owner, supervisor, workers
<1>D. ProcessInv'
  BY <1>1, <1>r, Actors DEF ArmProof, ProcessInv, Dead, NoMarker, NoProof, OwnerInv, Creating, Arming,
     Using, Completing, Deleted, HoldsGuard, HoldsFence, Retaining, session, registry, owner,
     supervisor, workers
<1>E. WorkersInv'
  <2>1. ASSUME NEW q \in Recovery PROVE Leaves(q)
    BY <2>1, <1>1, <1>r, Actors DEF ArmProof, Leaves, Dead, validBinding, Locks, Recovery, Workers,
       OwnerLocks, OwnerInv, ProcessInv, RemovedInv, Creating, Arming, Using, Completing, Deleted,
       HoldsGuard, HoldsFence, Retaining, session, registry, owner, supervisor, workers
  <2> QED
    BY <1>1, <2>1, WorkerKept DEF WorkersInv
<1>F. StartupInv'
  BY <1>1, <1>r, Actors DEF ArmProof, StartupInv, Deleted, Completing, Locks, OwnerInv, OwnerLocks,
     Using, Arming, Creating, HoldsGuard, session, registry, owner, supervisor, workers
<1>G. RemovedInv'
  BY <1>1, <1>r, Actors DEF ArmProof, RemovedInv, NoRecord, NoCapability, OwnerInv, Completing,
     Deleted, session, registry, owner, supervisor, workers
<1> QED
  BY <1>A, <1>B, <1>C, <1>D, <1>E, <1>F, <1>G DEF IndInv

LEMMA ArmRecordHolds == ASSUME IndInv, ArmRecord PROVE IndInv'
<1>1. /\ TypeOK /\ OwnerLocks /\ OwnerInv /\ ProcessInv /\ WorkersInv /\ StartupInv /\ RemovedInv
  BY DEF IndInv
<1>r. /\ rec' \in [st : RecordStates, gen : 1..MaxGen, comp : Gens] /\ rec'.st = "active"
      /\ gen' \in Gens /\ gen' > 0
  BY <1>1, GenBounds DEF ArmRecord, TypeOK, OwnerInv, Arming, RecordStates
<1>k. Locking(Owner)
  BY <1>1, Actors DEF ArmRecord, Locking, TypeOK, OwnerLocks, HoldsGuard, HoldsFence, Locks, Drop
<1>t. /\ rec' \in {NoRecord} \cup [st : RecordStates, gen : 1..MaxGen, comp : Gens]
      /\ opc' \in OwnerSteps
      /\ gen' \in Gens
      /\ stale' \subseteq Recovery
  BY <1>1, <1>r, GenBounds DEF ArmRecord, Outdate, TypeOK, RecordStates, OwnerSteps, OwnerInv, Arming
<1>A. TypeOK'
  BY <1>1, <1>k, <1>t DEF ArmRecord, TypeOK, session, registry, owner, supervisor, workers, Locking
<1>B. OwnerLocks'
  BY <1>1, <1>r, <1>k, Actors DEF ArmRecord, Drop, Outdate, OwnerLocks, Creating, Arming, Using,
     Completing, Deleted, HoldsGuard, HoldsFence, Retaining, Locks, OwnerInv, session, registry, owner,
     supervisor, workers, Locking
<1>C. OwnerInv'
  BY <1>1, <1>r, <1>k, Actors DEF ArmRecord, Drop, Outdate, OwnerInv, Creating, Arming, Using,
     Completing, Deleted, HoldsGuard, HoldsFence, Retaining, validBinding, NoRecord, NoCapability,
     NoMarker, ProcessInv, RemovedInv, OwnerLocks, Locks, session, registry, owner, supervisor,
     workers, Locking
<1>D. ProcessInv'
  BY <1>1, <1>r, <1>k, Actors DEF ArmRecord, Drop, Outdate, ProcessInv, Dead, NoMarker, NoProof,
     OwnerInv, Creating, Arming, Using, Completing, Deleted, HoldsGuard, HoldsFence, Retaining,
     session, registry, owner, supervisor, workers, Locking
<1>E. WorkersInv'
  <2>1. ASSUME NEW q \in Recovery PROVE Leaves(q)
    BY <2>1, <1>1, <1>r, <1>k, Actors DEF ArmRecord, Outdate, Leaves, Dead, validBinding, Locks,
       Recovery, Workers, Locking, OwnerLocks, OwnerInv, ProcessInv, RemovedInv, Creating, Arming,
       Using, Completing, Deleted, HoldsGuard, HoldsFence, Retaining, session, registry, owner,
       supervisor, workers
  <2> QED
    BY <1>1, <2>1, WorkerKept DEF WorkersInv
<1>F. StartupInv'
  BY <1>1, <1>r, <1>k, Actors DEF ArmRecord, Drop, Outdate, StartupInv, Deleted, Completing, Locks,
     OwnerInv, OwnerLocks, Using, Arming, Creating, HoldsGuard, session, registry, owner, supervisor,
     workers, Locking
<1>G. RemovedInv'
  BY <1>1, <1>r, <1>k, Actors DEF ArmRecord, Drop, Outdate, RemovedInv, NoRecord, NoCapability,
     OwnerInv, Completing, Deleted, session, registry, owner, supervisor, workers, Locking
<1> QED
  BY <1>A, <1>B, <1>C, <1>D, <1>E, <1>F, <1>G DEF IndInv

LEMMA MarkCleanupPendingHolds == ASSUME IndInv, MarkCleanupPending PROVE IndInv'
<1>1. /\ TypeOK /\ OwnerLocks /\ OwnerInv /\ ProcessInv /\ WorkersInv /\ StartupInv /\ RemovedInv
  BY DEF IndInv
<1>m. marker # NoMarker
  BY <1>1 DEF MarkCleanupPending, OwnerInv, Using
<1>r. /\ marker' \in [phase : {"prepared", "pending", "recoverable"}, chal : Gens]
      /\ marker'.phase = "pending" /\ marker' # NoMarker
  BY <1>1, <1>m, Rephased DEF MarkCleanupPending
<1>t. /\ marker' \in {NoMarker} \cup [phase : {"prepared", "pending", "recoverable"}, chal : Gens]
      /\ opc' \in OwnerSteps
  BY <1>1, <1>r, GenBounds DEF MarkCleanupPending, TypeOK, OwnerSteps, OwnerInv, Arming
<1>A. TypeOK'
  BY <1>1, <1>t DEF MarkCleanupPending, TypeOK, session, registry, owner, supervisor, workers, Locking
<1>B. OwnerLocks'
  BY <1>1, <1>m, <1>r, Actors DEF MarkCleanupPending, OwnerLocks, Creating, Arming, Using, Completing,
     Deleted, HoldsGuard, HoldsFence, Retaining, Locks, OwnerInv, session, registry, owner, supervisor,
     workers
<1>C. OwnerInv'
  BY <1>1, <1>m, <1>r, Actors DEF MarkCleanupPending, OwnerInv, Creating, Arming, Using, Completing,
     Deleted, HoldsGuard, HoldsFence, Retaining, validBinding, NoRecord, NoCapability, NoMarker,
     ProcessInv, RemovedInv, OwnerLocks, Locks, session, registry, owner, supervisor, workers
<1>D. ProcessInv'
  BY <1>1, <1>m, <1>r, Actors DEF MarkCleanupPending, ProcessInv, Dead, NoMarker, NoProof, OwnerInv,
     Creating, Arming, Using, Completing, Deleted, HoldsGuard, HoldsFence, Retaining, session,
     registry, owner, supervisor, workers
<1>E. WorkersInv'
  <2>1. ASSUME NEW q \in Recovery PROVE Leaves(q)
    BY <2>1, <1>1, <1>m, <1>r, Actors DEF MarkCleanupPending, Leaves, Dead, validBinding, Locks,
       Recovery, Workers, OwnerLocks, OwnerInv, ProcessInv, RemovedInv, Creating, Arming, Using,
       Completing, Deleted, HoldsGuard, HoldsFence, Retaining, session, registry, owner, supervisor,
       workers
  <2> QED
    BY <1>1, <2>1, WorkerKept DEF WorkersInv
<1>F. StartupInv'
  BY <1>1, <1>m, <1>r, Actors DEF MarkCleanupPending, StartupInv, Deleted, Completing, Locks, OwnerInv,
     OwnerLocks, Using, Arming, Creating, HoldsGuard, session, registry, owner, supervisor, workers
<1>G. RemovedInv'
  BY <1>1, <1>m, <1>r, Actors DEF MarkCleanupPending, RemovedInv, NoRecord, NoCapability, OwnerInv,
     Completing, Deleted, session, registry, owner, supervisor, workers
<1> QED
  BY <1>A, <1>B, <1>C, <1>D, <1>E, <1>F, <1>G DEF IndInv

LEMMA SpawnHolds == ASSUME IndInv, Spawn PROVE IndInv'
<1>1. /\ TypeOK /\ OwnerLocks /\ OwnerInv /\ ProcessInv /\ WorkersInv /\ StartupInv /\ RemovedInv
  BY DEF IndInv
<1>f. faults' \in 0..MaxFaults
  BY <1>1, FaultBounds DEF Spawn, TypeOK
<1>t. /\ opc' \in OwnerSteps
      /\ retained' \in BOOLEAN
      /\ spc' \in SupervisorSteps
      /\ chan' \subseteq {"R", "S", "X"}
  BY <1>1, GenBounds DEF Spawn, TypeOK, OwnerSteps, SupervisorSteps, OwnerInv, Arming
<1>A. TypeOK'
  BY <1>1, <1>f, <1>t DEF Spawn, TypeOK, session, registry, owner, supervisor, workers, Locking
<1>B. OwnerLocks'
  BY <1>1, Actors DEF Spawn, Fault, OwnerLocks, Creating, Arming, Using, Completing, Deleted,
     HoldsGuard, HoldsFence, Retaining, Locks, OwnerInv, session, registry, owner, supervisor, workers
<1>C. OwnerInv'
  BY <1>1, Actors DEF Spawn, Fault, OwnerInv, Creating, Arming, Using, Completing, Deleted, HoldsGuard,
     HoldsFence, Retaining, validBinding, NoRecord, NoCapability, NoMarker, ProcessInv, RemovedInv,
     OwnerLocks, Locks, session, registry, owner, supervisor, workers
<1>D. ProcessInv'
  BY <1>1, Actors DEF Spawn, Fault, ProcessInv, Dead, NoMarker, NoProof, OwnerInv, Creating, Arming,
     Using, Completing, Deleted, HoldsGuard, HoldsFence, Retaining, session, registry, owner,
     supervisor, workers
<1>E. WorkersInv'
  <2>1. ASSUME NEW q \in Recovery PROVE Leaves(q)
    BY <2>1, <1>1, Actors DEF Spawn, Leaves, Dead, validBinding, Locks, Recovery, Workers, OwnerLocks,
       OwnerInv, ProcessInv, RemovedInv, Creating, Arming, Using, Completing, Deleted, HoldsGuard,
       HoldsFence, Retaining, session, registry, owner, supervisor, workers
  <2> QED
    BY <1>1, <2>1, WorkerKept DEF WorkersInv
<1>F. StartupInv'
  BY <1>1, Actors DEF Spawn, Fault, StartupInv, Deleted, Completing, Locks, OwnerInv, OwnerLocks,
     Using, Arming, Creating, HoldsGuard, session, registry, owner, supervisor, workers
<1>G. RemovedInv'
  BY <1>1, Actors DEF Spawn, Fault, RemovedInv, NoRecord, NoCapability, OwnerInv, Completing, Deleted,
     session, registry, owner, supervisor, workers
<1> QED
  BY <1>A, <1>B, <1>C, <1>D, <1>E, <1>F, <1>G DEF IndInv

LEMMA SendStartHolds == ASSUME IndInv, SendStart PROVE IndInv'
<1>1. /\ TypeOK /\ OwnerLocks /\ OwnerInv /\ ProcessInv /\ WorkersInv /\ StartupInv /\ RemovedInv
  BY DEF IndInv
<1>t. /\ opc' \in OwnerSteps
      /\ chan' \subseteq {"R", "S", "X"}
  BY <1>1, GenBounds DEF SendStart, TypeOK, OwnerSteps, OwnerInv, Arming
<1>A. TypeOK'
  BY <1>1, <1>t DEF SendStart, TypeOK, session, registry, owner, supervisor, workers, Locking
<1>B. OwnerLocks'
  BY <1>1, Actors DEF SendStart, OwnerLocks, Creating, Arming, Using, Completing, Deleted, HoldsGuard,
     HoldsFence, Retaining, Locks, OwnerInv, session, registry, owner, supervisor, workers
<1>C. OwnerInv'
  BY <1>1, Actors DEF SendStart, OwnerInv, Creating, Arming, Using, Completing, Deleted, HoldsGuard,
     HoldsFence, Retaining, validBinding, NoRecord, NoCapability, NoMarker, ProcessInv, RemovedInv,
     OwnerLocks, Locks, session, registry, owner, supervisor, workers
<1>D. ProcessInv'
  BY <1>1, Actors DEF SendStart, ProcessInv, Dead, NoMarker, NoProof, OwnerInv, Creating, Arming,
     Using, Completing, Deleted, HoldsGuard, HoldsFence, Retaining, session, registry, owner,
     supervisor, workers
<1>E. WorkersInv'
  <2>1. ASSUME NEW q \in Recovery PROVE Leaves(q)
    BY <2>1, <1>1, Actors DEF SendStart, Leaves, Dead, validBinding, Locks, Recovery, Workers,
       OwnerLocks, OwnerInv, ProcessInv, RemovedInv, Creating, Arming, Using, Completing, Deleted,
       HoldsGuard, HoldsFence, Retaining, session, registry, owner, supervisor, workers
  <2> QED
    BY <1>1, <2>1, WorkerKept DEF WorkersInv
<1>F. StartupInv'
  BY <1>1, Actors DEF SendStart, StartupInv, Deleted, Completing, Locks, OwnerInv, OwnerLocks, Using,
     Arming, Creating, HoldsGuard, session, registry, owner, supervisor, workers
<1>G. RemovedInv'
  BY <1>1, Actors DEF SendStart, RemovedInv, NoRecord, NoCapability, OwnerInv, Completing, Deleted,
     session, registry, owner, supervisor, workers
<1> QED
  BY <1>A, <1>B, <1>C, <1>D, <1>E, <1>F, <1>G DEF IndInv

LEMMA AwaitCleanupHolds == ASSUME IndInv, AwaitCleanup PROVE IndInv'
<1>1. /\ TypeOK /\ OwnerLocks /\ OwnerInv /\ ProcessInv /\ WorkersInv /\ StartupInv /\ RemovedInv
  BY DEF IndInv
<1>t. /\ opc' \in OwnerSteps
      /\ retained' \in BOOLEAN
  BY <1>1, GenBounds DEF AwaitCleanup, TypeOK, OwnerSteps, OwnerInv, Arming
<1>A. TypeOK'
  BY <1>1, <1>t DEF AwaitCleanup, TypeOK, session, registry, owner, supervisor, workers, Locking
<1>B. OwnerLocks'
  BY <1>1, Actors DEF AwaitCleanup, OwnerLocks, Creating, Arming, Using, Completing, Deleted,
     HoldsGuard, HoldsFence, Retaining, Locks, OwnerInv, session, registry, owner, supervisor, workers
<1>C. OwnerInv'
  BY <1>1, Actors DEF AwaitCleanup, OwnerInv, Creating, Arming, Using, Completing, Deleted, HoldsGuard,
     HoldsFence, Retaining, validBinding, NoRecord, NoCapability, NoMarker, ProcessInv, RemovedInv,
     OwnerLocks, Locks, session, registry, owner, supervisor, workers
<1>D. ProcessInv'
  BY <1>1, Actors DEF AwaitCleanup, ProcessInv, Dead, NoMarker, NoProof, OwnerInv, Creating, Arming,
     Using, Completing, Deleted, HoldsGuard, HoldsFence, Retaining, session, registry, owner,
     supervisor, workers
<1>E. WorkersInv'
  <2>1. ASSUME NEW q \in Recovery PROVE Leaves(q)
    BY <2>1, <1>1, Actors DEF AwaitCleanup, Leaves, Dead, validBinding, Locks, Recovery, Workers,
       OwnerLocks, OwnerInv, ProcessInv, RemovedInv, Creating, Arming, Using, Completing, Deleted,
       HoldsGuard, HoldsFence, Retaining, session, registry, owner, supervisor, workers
  <2> QED
    BY <1>1, <2>1, WorkerKept DEF WorkersInv
<1>F. StartupInv'
  BY <1>1, Actors DEF AwaitCleanup, StartupInv, Deleted, Completing, Locks, OwnerInv, OwnerLocks,
     Using, Arming, Creating, HoldsGuard, session, registry, owner, supervisor, workers
<1>G. RemovedInv'
  BY <1>1, Actors DEF AwaitCleanup, RemovedInv, NoRecord, NoCapability, OwnerInv, Completing, Deleted,
     session, registry, owner, supervisor, workers
<1> QED
  BY <1>A, <1>B, <1>C, <1>D, <1>E, <1>F, <1>G DEF IndInv

LEMMA SupervisorLostHolds == ASSUME IndInv, SupervisorLost PROVE IndInv'
<1>1. /\ TypeOK /\ OwnerLocks /\ OwnerInv /\ ProcessInv /\ WorkersInv /\ StartupInv /\ RemovedInv
  BY DEF IndInv
<1>t. /\ opc' \in OwnerSteps
  BY <1>1, GenBounds DEF SupervisorLost, TypeOK, OwnerSteps, OwnerInv, Arming
<1>A. TypeOK'
  BY <1>1, <1>t DEF SupervisorLost, TypeOK, session, registry, owner, supervisor, workers, Locking
<1>B. OwnerLocks'
  BY <1>1, Actors DEF SupervisorLost, OwnerLocks, Creating, Arming, Using, Completing, Deleted,
     HoldsGuard, HoldsFence, Retaining, Locks, OwnerInv, session, registry, owner, supervisor, workers
<1>C. OwnerInv'
  BY <1>1, Actors DEF SupervisorLost, OwnerInv, Creating, Arming, Using, Completing, Deleted,
     HoldsGuard, HoldsFence, Retaining, validBinding, NoRecord, NoCapability, NoMarker, ProcessInv,
     RemovedInv, OwnerLocks, Locks, session, registry, owner, supervisor, workers
<1>D. ProcessInv'
  BY <1>1, Actors DEF SupervisorLost, ProcessInv, Dead, NoMarker, NoProof, OwnerInv, Creating, Arming,
     Using, Completing, Deleted, HoldsGuard, HoldsFence, Retaining, session, registry, owner,
     supervisor, workers
<1>E. WorkersInv'
  <2>1. ASSUME NEW q \in Recovery PROVE Leaves(q)
    BY <2>1, <1>1, Actors DEF SupervisorLost, Leaves, Dead, validBinding, Locks, Recovery, Workers,
       OwnerLocks, OwnerInv, ProcessInv, RemovedInv, Creating, Arming, Using, Completing, Deleted,
       HoldsGuard, HoldsFence, Retaining, session, registry, owner, supervisor, workers
  <2> QED
    BY <1>1, <2>1, WorkerKept DEF WorkersInv
<1>F. StartupInv'
  BY <1>1, Actors DEF SupervisorLost, StartupInv, Deleted, Completing, Locks, OwnerInv, OwnerLocks,
     Using, Arming, Creating, HoldsGuard, session, registry, owner, supervisor, workers
<1>G. RemovedInv'
  BY <1>1, Actors DEF SupervisorLost, RemovedInv, NoRecord, NoCapability, OwnerInv, Completing,
     Deleted, session, registry, owner, supervisor, workers
<1> QED
  BY <1>A, <1>B, <1>C, <1>D, <1>E, <1>F, <1>G DEF IndInv

LEMMA GiveUpUnprovenHolds == ASSUME IndInv, GiveUpUnproven PROVE IndInv'
<1>1. /\ TypeOK /\ OwnerLocks /\ OwnerInv /\ ProcessInv /\ WorkersInv /\ StartupInv /\ RemovedInv
  BY DEF IndInv
<1>k. Locking(Owner)
  BY <1>1, Actors DEF GiveUpUnproven, Locking, TypeOK, OwnerLocks, HoldsGuard, HoldsFence, Locks,
     DropAll
<1>t. /\ opc' \in OwnerSteps
  BY <1>1, GenBounds DEF GiveUpUnproven, TypeOK, OwnerSteps, OwnerInv, Arming
<1>A. TypeOK'
  BY <1>1, <1>k, <1>t DEF GiveUpUnproven, TypeOK, session, registry, owner, supervisor, workers, Locking
<1>B. OwnerLocks'
  BY <1>1, <1>k, Actors DEF GiveUpUnproven, DropAll, OwnerLocks, Creating, Arming, Using, Completing,
     Deleted, HoldsGuard, HoldsFence, Retaining, Locks, OwnerInv, session, registry, owner, supervisor,
     workers, Locking
<1>C. OwnerInv'
  BY <1>1, <1>k, Actors DEF GiveUpUnproven, DropAll, OwnerInv, Creating, Arming, Using, Completing,
     Deleted, HoldsGuard, HoldsFence, Retaining, validBinding, NoRecord, NoCapability, NoMarker,
     ProcessInv, RemovedInv, OwnerLocks, Locks, session, registry, owner, supervisor, workers, Locking
<1>D. ProcessInv'
  BY <1>1, <1>k, Actors DEF GiveUpUnproven, DropAll, ProcessInv, Dead, NoMarker, NoProof, OwnerInv,
     Creating, Arming, Using, Completing, Deleted, HoldsGuard, HoldsFence, Retaining, session,
     registry, owner, supervisor, workers, Locking
<1>E. WorkersInv'
  <2>1. ASSUME NEW q \in Recovery PROVE Leaves(q)
    BY <2>1, <1>1, <1>k, Actors DEF GiveUpUnproven, Leaves, Dead, validBinding, Locks, Recovery,
       Workers, Locking, OwnerLocks, OwnerInv, ProcessInv, RemovedInv, Creating, Arming, Using,
       Completing, Deleted, HoldsGuard, HoldsFence, Retaining, session, registry, owner, supervisor,
       workers
  <2> QED
    BY <1>1, <2>1, WorkerKept DEF WorkersInv
<1>F. StartupInv'
  BY <1>1, <1>k, Actors DEF GiveUpUnproven, DropAll, StartupInv, Deleted, Completing, Locks, OwnerInv,
     OwnerLocks, Using, Arming, Creating, HoldsGuard, session, registry, owner, supervisor, workers,
     Locking
<1>G. RemovedInv'
  BY <1>1, <1>k, Actors DEF GiveUpUnproven, DropAll, RemovedInv, NoRecord, NoCapability, OwnerInv,
     Completing, Deleted, session, registry, owner, supervisor, workers, Locking
<1> QED
  BY <1>A, <1>B, <1>C, <1>D, <1>E, <1>F, <1>G DEF IndInv

LEMMA FinishHolds == ASSUME IndInv, Finish PROVE IndInv'
<1>1. /\ TypeOK /\ OwnerLocks /\ OwnerInv /\ ProcessInv /\ WorkersInv /\ StartupInv /\ RemovedInv
  BY DEF IndInv
<1>r. IF typed THEN /\ marker' \in [phase : {"prepared", "pending", "recoverable"}, chal : Gens]
                    /\ marker'.phase = "recoverable" /\ marker' # NoMarker
               ELSE marker' = marker
  <2>1. typed => marker # NoMarker
    BY <1>1 DEF Finish, OwnerInv, Using
  <2> QED
    BY <1>1, <2>1, Rephased DEF Finish
<1>t. /\ marker' \in {NoMarker} \cup [phase : {"prepared", "pending", "recoverable"}, chal : Gens]
      /\ opc' \in OwnerSteps
  BY <1>1, <1>r, GenBounds DEF Finish, TypeOK, OwnerSteps, OwnerInv, Arming
<1>A. TypeOK'
  BY <1>1, <1>t DEF Finish, TypeOK, session, registry, owner, supervisor, workers, Locking
<1>B. OwnerLocks'
  BY <1>1, <1>r, Actors DEF Finish, OwnerLocks, Creating, Arming, Using, Completing, Deleted,
     HoldsGuard, HoldsFence, Retaining, Locks, OwnerInv, session, registry, owner, supervisor, workers
<1>C. OwnerInv'
  BY <1>1, <1>r, Actors DEF Finish, OwnerInv, Creating, Arming, Using, Completing, Deleted, HoldsGuard,
     HoldsFence, Retaining, validBinding, NoRecord, NoCapability, NoMarker, ProcessInv, RemovedInv,
     OwnerLocks, Locks, session, registry, owner, supervisor, workers
<1>D. ProcessInv'
  BY <1>1, <1>r, Actors DEF Finish, ProcessInv, Dead, NoMarker, NoProof, OwnerInv, Creating, Arming,
     Using, Completing, Deleted, HoldsGuard, HoldsFence, Retaining, session, registry, owner,
     supervisor, workers
<1>E. WorkersInv'
  <2>1. ASSUME NEW q \in Recovery PROVE Leaves(q)
    BY <2>1, <1>1, <1>r, Actors DEF Finish, Leaves, Dead, validBinding, Locks, Recovery, Workers,
       OwnerLocks, OwnerInv, ProcessInv, RemovedInv, Creating, Arming, Using, Completing, Deleted,
       HoldsGuard, HoldsFence, Retaining, session, registry, owner, supervisor, workers
  <2> QED
    BY <1>1, <2>1, WorkerKept DEF WorkersInv
<1>F. StartupInv'
  BY <1>1, <1>r, Actors DEF Finish, StartupInv, Deleted, Completing, Locks, OwnerInv, OwnerLocks,
     Using, Arming, Creating, HoldsGuard, session, registry, owner, supervisor, workers
<1>G. RemovedInv'
  BY <1>1, <1>r, Actors DEF Finish, RemovedInv, NoRecord, NoCapability, OwnerInv, Completing, Deleted,
     session, registry, owner, supervisor, workers
<1> QED
  BY <1>A, <1>B, <1>C, <1>D, <1>E, <1>F, <1>G DEF IndInv

LEMMA RemoveHolds == ASSUME IndInv, Remove PROVE IndInv'
<1>1. /\ TypeOK /\ OwnerLocks /\ OwnerInv /\ ProcessInv /\ WorkersInv /\ StartupInv /\ RemovedInv
  BY DEF IndInv
<1>r. /\ \/ rec' = rec /\ stale' = stale
         \/ /\ rec' \in [st : RecordStates, gen : 1..MaxGen, comp : Gens]
            /\ rec'.st = "settling" /\ rec'.gen = rec.gen /\ lock["fence"] = Nobody /\ stale' = Recovery
      /\ opc \in {"settling", "rmroot", "rmguard", "rmprot"}
  <2>1. /\ \/ rec' = rec /\ stale' = stale
           \/ /\ rec # NoRecord /\ rec' = [rec EXCEPT !.st = "settling"]
              /\ lock["fence"] = Nobody /\ stale' = Recovery
        /\ opc \in {"settling", "rmroot", "rmguard", "rmprot"}
    BY DEF Remove, transition, Outdate, Free
  <2> QED
    BY <1>1, <2>1, Restated DEF RecordStates
<1>k. Locking(Owner)
  BY <1>1, Actors DEF Remove, Locking, TypeOK, OwnerLocks, HoldsGuard, HoldsFence, Locks, DropAll
<1>t. /\ rec' \in {NoRecord} \cup [st : RecordStates, gen : 1..MaxGen, comp : Gens]
      /\ opc' \in OwnerSteps
      /\ stale' \subseteq Recovery
  BY <1>1, <1>r, GenBounds DEF Remove, transition, Outdate, TypeOK, RecordStates, OwnerSteps, OwnerInv,
     Arming
<1>A. TypeOK'
  BY <1>1, <1>k, <1>t DEF Remove, TypeOK, session, registry, owner, supervisor, workers, Locking
<1>B. OwnerLocks'
  BY <1>1, <1>r, <1>k, Actors DEF Remove, DropAll, transition, Outdate, OwnerLocks, Creating, Arming,
     Using, Completing, Deleted, HoldsGuard, HoldsFence, Retaining, Locks, OwnerInv, session, registry,
     owner, supervisor, workers, Locking
<1>C. OwnerInv'
  BY <1>1, <1>r, <1>k, Actors DEF Remove, DropAll, transition, Outdate, OwnerInv, Creating, Arming,
     Using, Completing, Deleted, HoldsGuard, HoldsFence, Retaining, validBinding, NoRecord,
     NoCapability, NoMarker, ProcessInv, RemovedInv, OwnerLocks, Locks, session, registry, owner,
     supervisor, workers, Locking
<1>D. ProcessInv'
  BY <1>1, <1>r, <1>k, Actors DEF Remove, DropAll, transition, Outdate, ProcessInv, Dead, NoMarker,
     NoProof, OwnerInv, Creating, Arming, Using, Completing, Deleted, HoldsGuard, HoldsFence,
     Retaining, session, registry, owner, supervisor, workers, Locking
<1>E. WorkersInv'
  <2>1. ASSUME NEW q \in Recovery PROVE Leaves(q)
    BY <2>1, <1>1, <1>r, <1>k, Actors DEF Remove, transition, Outdate, Leaves, Dead, validBinding,
       Locks, Recovery, Workers, Locking, OwnerLocks, OwnerInv, ProcessInv, RemovedInv, Creating,
       Arming, Using, Completing, Deleted, HoldsGuard, HoldsFence, Retaining, session, registry, owner,
       supervisor, workers
  <2> QED
    BY <1>1, <2>1, WorkerKept DEF WorkersInv
<1>F. StartupInv'
  BY <1>1, <1>r, <1>k, Actors DEF Remove, DropAll, transition, Outdate, StartupInv, Deleted,
     Completing, Locks, OwnerInv, OwnerLocks, Using, Arming, Creating, HoldsGuard, session, registry,
     owner, supervisor, workers, Locking
<1>G. RemovedInv'
  BY <1>1, <1>r, <1>k, Actors DEF Remove, DropAll, transition, Outdate, RemovedInv, NoRecord,
     NoCapability, OwnerInv, Completing, Deleted, session, registry, owner, supervisor, workers,
     Locking
<1> QED
  BY <1>A, <1>B, <1>C, <1>D, <1>E, <1>F, <1>G DEF IndInv

LEMMA RemoveRootHolds == ASSUME IndInv, RemoveRoot PROVE IndInv'
<1>1. /\ TypeOK /\ OwnerLocks /\ OwnerInv /\ ProcessInv /\ WorkersInv /\ StartupInv /\ RemovedInv
  BY DEF IndInv
<1>t. /\ root' \in BOOLEAN
      /\ proof' \in {NoProof} \cup [kind : {"notarget", "settled"}, gen : 1..MaxGen]
      /\ lbind' \in Gens
      /\ opc' \in OwnerSteps
  BY <1>1, GenBounds DEF RemoveRoot, TypeOK, OwnerSteps, OwnerInv, Arming
<1>A. TypeOK'
  BY <1>1, <1>t DEF RemoveRoot, TypeOK, session, registry, owner, supervisor, workers, Locking
<1>B. OwnerLocks'
  BY <1>1, Actors DEF RemoveRoot, OwnerLocks, Creating, Arming, Using, Completing, Deleted, HoldsGuard,
     HoldsFence, Retaining, Locks, OwnerInv, session, registry, owner, supervisor, workers
<1>C. OwnerInv'
  BY <1>1, Actors DEF RemoveRoot, OwnerInv, Creating, Arming, Using, Completing, Deleted, HoldsGuard,
     HoldsFence, Retaining, validBinding, NoRecord, NoCapability, NoMarker, ProcessInv, RemovedInv,
     OwnerLocks, Locks, session, registry, owner, supervisor, workers
<1>D. ProcessInv'
  BY <1>1, Actors DEF RemoveRoot, ProcessInv, Dead, NoMarker, NoProof, OwnerInv, Creating, Arming,
     Using, Completing, Deleted, HoldsGuard, HoldsFence, Retaining, session, registry, owner,
     supervisor, workers
<1>E. WorkersInv'
  <2>1. ASSUME NEW q \in Recovery PROVE Leaves(q)
    BY <2>1, <1>1, Actors DEF RemoveRoot, Leaves, Dead, validBinding, Locks, Recovery, Workers,
       OwnerLocks, OwnerInv, ProcessInv, RemovedInv, Creating, Arming, Using, Completing, Deleted,
       HoldsGuard, HoldsFence, Retaining, session, registry, owner, supervisor, workers
  <2> QED
    BY <1>1, <2>1, WorkerKept DEF WorkersInv
<1>F. StartupInv'
  BY <1>1, Actors DEF RemoveRoot, StartupInv, Deleted, Completing, Locks, OwnerInv, OwnerLocks, Using,
     Arming, Creating, HoldsGuard, session, registry, owner, supervisor, workers
<1>G. RemovedInv'
  BY <1>1, Actors DEF RemoveRoot, RemovedInv, NoRecord, NoCapability, OwnerInv, Completing, Deleted,
     session, registry, owner, supervisor, workers
<1> QED
  BY <1>A, <1>B, <1>C, <1>D, <1>E, <1>F, <1>G DEF IndInv

LEMMA RemoveGuardHolds == ASSUME IndInv, RemoveGuard PROVE IndInv'
<1>1. /\ TypeOK /\ OwnerLocks /\ OwnerInv /\ ProcessInv /\ WorkersInv /\ StartupInv /\ RemovedInv
  BY DEF IndInv
<1>t. /\ guardFile' \in BOOLEAN
      /\ opc' \in OwnerSteps
  BY <1>1, GenBounds DEF RemoveGuard, TypeOK, OwnerSteps, OwnerInv, Arming
<1>A. TypeOK'
  BY <1>1, <1>t DEF RemoveGuard, TypeOK, session, registry, owner, supervisor, workers, Locking
<1>B. OwnerLocks'
  BY <1>1, Actors DEF RemoveGuard, OwnerLocks, Creating, Arming, Using, Completing, Deleted,
     HoldsGuard, HoldsFence, Retaining, Locks, OwnerInv, session, registry, owner, supervisor, workers
<1>C. OwnerInv'
  BY <1>1, Actors DEF RemoveGuard, OwnerInv, Creating, Arming, Using, Completing, Deleted, HoldsGuard,
     HoldsFence, Retaining, validBinding, NoRecord, NoCapability, NoMarker, ProcessInv, RemovedInv,
     OwnerLocks, Locks, session, registry, owner, supervisor, workers
<1>D. ProcessInv'
  BY <1>1, Actors DEF RemoveGuard, ProcessInv, Dead, NoMarker, NoProof, OwnerInv, Creating, Arming,
     Using, Completing, Deleted, HoldsGuard, HoldsFence, Retaining, session, registry, owner,
     supervisor, workers
<1>E. WorkersInv'
  <2>1. ASSUME NEW q \in Recovery PROVE Leaves(q)
    BY <2>1, <1>1, Actors DEF RemoveGuard, Leaves, Dead, validBinding, Locks, Recovery, Workers,
       OwnerLocks, OwnerInv, ProcessInv, RemovedInv, Creating, Arming, Using, Completing, Deleted,
       HoldsGuard, HoldsFence, Retaining, session, registry, owner, supervisor, workers
  <2> QED
    BY <1>1, <2>1, WorkerKept DEF WorkersInv
<1>F. StartupInv'
  BY <1>1, Actors DEF RemoveGuard, StartupInv, Deleted, Completing, Locks, OwnerInv, OwnerLocks, Using,
     Arming, Creating, HoldsGuard, session, registry, owner, supervisor, workers
<1>G. RemovedInv'
  BY <1>1, Actors DEF RemoveGuard, RemovedInv, NoRecord, NoCapability, OwnerInv, Completing, Deleted,
     session, registry, owner, supervisor, workers
<1> QED
  BY <1>A, <1>B, <1>C, <1>D, <1>E, <1>F, <1>G DEF IndInv

LEMMA RemoveProtectionHolds == ASSUME IndInv, RemoveProtection PROVE IndInv'
<1>1. /\ TypeOK /\ OwnerLocks /\ OwnerInv /\ ProcessInv /\ WorkersInv /\ StartupInv /\ RemovedInv
  BY DEF IndInv
<1>t. /\ prot' \in BOOLEAN
      /\ opc' \in OwnerSteps
  BY <1>1, GenBounds DEF RemoveProtection, TypeOK, OwnerSteps, OwnerInv, Arming
<1>A. TypeOK'
  BY <1>1, <1>t DEF RemoveProtection, TypeOK, session, registry, owner, supervisor, workers, Locking
<1>B. OwnerLocks'
  BY <1>1, Actors DEF RemoveProtection, OwnerLocks, Creating, Arming, Using, Completing, Deleted,
     HoldsGuard, HoldsFence, Retaining, Locks, OwnerInv, session, registry, owner, supervisor, workers
<1>C. OwnerInv'
  BY <1>1, Actors DEF RemoveProtection, OwnerInv, Creating, Arming, Using, Completing, Deleted,
     HoldsGuard, HoldsFence, Retaining, validBinding, NoRecord, NoCapability, NoMarker, ProcessInv,
     RemovedInv, OwnerLocks, Locks, session, registry, owner, supervisor, workers
<1>D. ProcessInv'
  BY <1>1, Actors DEF RemoveProtection, ProcessInv, Dead, NoMarker, NoProof, OwnerInv, Creating,
     Arming, Using, Completing, Deleted, HoldsGuard, HoldsFence, Retaining, session, registry, owner,
     supervisor, workers
<1>E. WorkersInv'
  <2>1. ASSUME NEW q \in Recovery PROVE Leaves(q)
    BY <2>1, <1>1, Actors DEF RemoveProtection, Leaves, Dead, validBinding, Locks, Recovery, Workers,
       OwnerLocks, OwnerInv, ProcessInv, RemovedInv, Creating, Arming, Using, Completing, Deleted,
       HoldsGuard, HoldsFence, Retaining, session, registry, owner, supervisor, workers
  <2> QED
    BY <1>1, <2>1, WorkerKept DEF WorkersInv
<1>F. StartupInv'
  BY <1>1, Actors DEF RemoveProtection, StartupInv, Deleted, Completing, Locks, OwnerInv, OwnerLocks,
     Using, Arming, Creating, HoldsGuard, session, registry, owner, supervisor, workers
<1>G. RemovedInv'
  BY <1>1, Actors DEF RemoveProtection, RemovedInv, NoRecord, NoCapability, OwnerInv, Completing,
     Deleted, session, registry, owner, supervisor, workers
<1> QED
  BY <1>A, <1>B, <1>C, <1>D, <1>E, <1>F, <1>G DEF IndInv

LEMMA CloseGuardHolds == ASSUME IndInv, CloseGuard PROVE IndInv'
<1>1. /\ TypeOK /\ OwnerLocks /\ OwnerInv /\ ProcessInv /\ WorkersInv /\ StartupInv /\ RemovedInv
  BY DEF IndInv
<1>k. Locking(Owner)
  BY <1>1, Actors DEF CloseGuard, Locking, TypeOK, OwnerLocks, HoldsGuard, HoldsFence, Locks, Drop
<1>t. /\ opc' \in OwnerSteps
  BY <1>1, GenBounds DEF CloseGuard, TypeOK, OwnerSteps, OwnerInv, Arming
<1>A. TypeOK'
  BY <1>1, <1>k, <1>t DEF CloseGuard, TypeOK, session, registry, owner, supervisor, workers, Locking
<1>B. OwnerLocks'
  BY <1>1, <1>k, Actors DEF CloseGuard, Drop, OwnerLocks, Creating, Arming, Using, Completing, Deleted,
     HoldsGuard, HoldsFence, Retaining, Locks, OwnerInv, session, registry, owner, supervisor, workers,
     Locking
<1>C. OwnerInv'
  BY <1>1, <1>k, Actors DEF CloseGuard, Drop, OwnerInv, Creating, Arming, Using, Completing, Deleted,
     HoldsGuard, HoldsFence, Retaining, validBinding, NoRecord, NoCapability, NoMarker, ProcessInv,
     RemovedInv, OwnerLocks, Locks, session, registry, owner, supervisor, workers, Locking
<1>D. ProcessInv'
  BY <1>1, <1>k, Actors DEF CloseGuard, Drop, ProcessInv, Dead, NoMarker, NoProof, OwnerInv, Creating,
     Arming, Using, Completing, Deleted, HoldsGuard, HoldsFence, Retaining, session, registry, owner,
     supervisor, workers, Locking
<1>E. WorkersInv'
  <2>1. ASSUME NEW q \in Recovery PROVE Leaves(q)
    BY <2>1, <1>1, <1>k, Actors DEF CloseGuard, Leaves, Dead, validBinding, Locks, Recovery, Workers,
       Locking, OwnerLocks, OwnerInv, ProcessInv, RemovedInv, Creating, Arming, Using, Completing,
       Deleted, HoldsGuard, HoldsFence, Retaining, session, registry, owner, supervisor, workers
  <2> QED
    BY <1>1, <2>1, WorkerKept DEF WorkersInv
<1>F. StartupInv'
  BY <1>1, <1>k, Actors DEF CloseGuard, Drop, StartupInv, Deleted, Completing, Locks, OwnerInv,
     OwnerLocks, Using, Arming, Creating, HoldsGuard, session, registry, owner, supervisor, workers,
     Locking
<1>G. RemovedInv'
  BY <1>1, <1>k, Actors DEF CloseGuard, Drop, RemovedInv, NoRecord, NoCapability, OwnerInv, Completing,
     Deleted, session, registry, owner, supervisor, workers, Locking
<1> QED
  BY <1>A, <1>B, <1>C, <1>D, <1>E, <1>F, <1>G DEF IndInv

LEMMA RemovedBeginHolds == ASSUME IndInv, RemovedBegin PROVE IndInv'
<1>1. /\ TypeOK /\ OwnerLocks /\ OwnerInv /\ ProcessInv /\ WorkersInv /\ StartupInv /\ RemovedInv
  BY DEF IndInv
<1>k. Locking(Owner)
  BY <1>1, Actors DEF RemovedBegin, Locking, TypeOK, OwnerLocks, HoldsGuard, HoldsFence, Locks, Take,
     Free, DropAll
<1>t. /\ opc' \in OwnerSteps
  BY <1>1, GenBounds DEF RemovedBegin, Free, validBinding, TypeOK, OwnerSteps, OwnerInv, Arming
<1>A. TypeOK'
  BY <1>1, <1>k, <1>t DEF RemovedBegin, TypeOK, session, registry, owner, supervisor, workers, Locking
<1>B. OwnerLocks'
  BY <1>1, <1>k, Actors DEF RemovedBegin, Take, Free, DropAll, validBinding, OwnerLocks, Creating,
     Arming, Using, Completing, Deleted, HoldsGuard, HoldsFence, Retaining, Locks, OwnerInv, session,
     registry, owner, supervisor, workers, Locking
<1>C. OwnerInv'
  BY <1>1, <1>k, Actors DEF RemovedBegin, Take, Free, DropAll, validBinding, OwnerInv, Creating,
     Arming, Using, Completing, Deleted, HoldsGuard, HoldsFence, Retaining, NoRecord, NoCapability,
     NoMarker, ProcessInv, RemovedInv, OwnerLocks, Locks, session, registry, owner, supervisor,
     workers, Locking
<1>D. ProcessInv'
  BY <1>1, <1>k, Actors DEF RemovedBegin, Take, Free, DropAll, validBinding, ProcessInv, Dead,
     NoMarker, NoProof, OwnerInv, Creating, Arming, Using, Completing, Deleted, HoldsGuard, HoldsFence,
     Retaining, session, registry, owner, supervisor, workers, Locking
<1>E. WorkersInv'
  <2>1. ASSUME NEW q \in Recovery PROVE Leaves(q)
    BY <2>1, <1>1, <1>k, Actors DEF RemovedBegin, Free, validBinding, Leaves, Dead, Locks, Recovery,
       Workers, Locking, OwnerLocks, OwnerInv, ProcessInv, RemovedInv, Creating, Arming, Using,
       Completing, Deleted, HoldsGuard, HoldsFence, Retaining, session, registry, owner, supervisor,
       workers
  <2> QED
    BY <1>1, <2>1, WorkerKept DEF WorkersInv
<1>F. StartupInv'
  BY <1>1, <1>k, Actors DEF RemovedBegin, Take, Free, DropAll, validBinding, StartupInv, Deleted,
     Completing, Locks, OwnerInv, OwnerLocks, Using, Arming, Creating, HoldsGuard, session, registry,
     owner, supervisor, workers, Locking
<1>G. RemovedInv'
  BY <1>1, <1>k, Actors DEF RemovedBegin, Take, Free, DropAll, validBinding, RemovedInv, NoRecord,
     NoCapability, OwnerInv, Completing, Deleted, session, registry, owner, supervisor, workers,
     Locking
<1> QED
  BY <1>A, <1>B, <1>C, <1>D, <1>E, <1>F, <1>G DEF IndInv

LEMMA RemovedCapabilityHolds == ASSUME IndInv, RemovedCapability PROVE IndInv'
<1>1. /\ TypeOK /\ OwnerLocks /\ OwnerInv /\ ProcessInv /\ WorkersInv /\ StartupInv /\ RemovedInv
  BY DEF IndInv
<1>r. cap' \in [gen : 1..MaxGen, removed : BOOLEAN] /\ cap'.removed /\ cap'.gen = cap.gen
  <2>1. cap # NoCapability
    BY <1>1, ValidExists DEF RemovedCapability, OwnerInv
  <2> QED
    BY <1>1, <2>1, CapabilityRemoved DEF RemovedCapability
<1>t. /\ cap' \in {NoCapability} \cup [gen : 1..MaxGen, removed : BOOLEAN]
      /\ opc' \in OwnerSteps
      /\ stale' \subseteq Recovery
  BY <1>1, <1>r, GenBounds DEF RemovedCapability, Outdate, TypeOK, OwnerSteps, OwnerInv, Arming
<1>A. TypeOK'
  BY <1>1, <1>t DEF RemovedCapability, TypeOK, session, registry, owner, supervisor, workers, Locking
<1>B. OwnerLocks'
  BY <1>1, <1>r, Actors DEF RemovedCapability, Outdate, OwnerLocks, Creating, Arming, Using,
     Completing, Deleted, HoldsGuard, HoldsFence, Retaining, Locks, OwnerInv, session, registry, owner,
     supervisor, workers
<1>C. OwnerInv'
  BY <1>1, <1>r, Actors DEF RemovedCapability, Outdate, OwnerInv, Creating, Arming, Using, Completing,
     Deleted, HoldsGuard, HoldsFence, Retaining, validBinding, NoRecord, NoCapability, NoMarker,
     ProcessInv, RemovedInv, OwnerLocks, Locks, session, registry, owner, supervisor, workers
<1>D. ProcessInv'
  BY <1>1, <1>r, Actors DEF RemovedCapability, Outdate, ProcessInv, Dead, NoMarker, NoProof, OwnerInv,
     Creating, Arming, Using, Completing, Deleted, HoldsGuard, HoldsFence, Retaining, session,
     registry, owner, supervisor, workers
<1>E. WorkersInv'
  <2>1. ASSUME NEW q \in Recovery PROVE Leaves(q)
    BY <2>1, <1>1, <1>r, Actors DEF RemovedCapability, Outdate, Leaves, Dead, validBinding, Locks,
       Recovery, Workers, OwnerLocks, OwnerInv, ProcessInv, RemovedInv, Creating, Arming, Using,
       Completing, Deleted, HoldsGuard, HoldsFence, Retaining, session, registry, owner, supervisor,
       workers
  <2> QED
    BY <1>1, <2>1, WorkerKept DEF WorkersInv
<1>F. StartupInv'
  BY <1>1, <1>r, Actors DEF RemovedCapability, Outdate, StartupInv, Deleted, Completing, Locks,
     OwnerInv, OwnerLocks, Using, Arming, Creating, HoldsGuard, session, registry, owner, supervisor,
     workers
<1>G. RemovedInv'
  BY <1>1, <1>r, Actors DEF RemovedCapability, Outdate, RemovedInv, NoRecord, NoCapability, OwnerInv,
     Completing, Deleted, session, registry, owner, supervisor, workers
<1> QED
  BY <1>A, <1>B, <1>C, <1>D, <1>E, <1>F, <1>G DEF IndInv

LEMMA RemovedRecordHolds == ASSUME IndInv, RemovedRecord PROVE IndInv'
<1>1. /\ TypeOK /\ OwnerLocks /\ OwnerInv /\ ProcessInv /\ WorkersInv /\ StartupInv /\ RemovedInv
  BY DEF IndInv
<1>r. rec' \in [st : RecordStates, gen : 1..MaxGen, comp : Gens] /\ rec'.st = "removed" /\ rec'.gen = rec.gen
  <2>1. rec # NoRecord
    BY <1>1, ValidExists DEF RemovedRecord, OwnerInv
  <2> QED
    BY <1>1, <2>1, RecordRemoved DEF RemovedRecord
<1>t. /\ rec' \in {NoRecord} \cup [st : RecordStates, gen : 1..MaxGen, comp : Gens]
      /\ opc' \in OwnerSteps
      /\ stale' \subseteq Recovery
  BY <1>1, <1>r, GenBounds DEF RemovedRecord, Outdate, TypeOK, RecordStates, OwnerSteps, OwnerInv,
     Arming
<1>A. TypeOK'
  BY <1>1, <1>t DEF RemovedRecord, TypeOK, session, registry, owner, supervisor, workers, Locking
<1>B. OwnerLocks'
  BY <1>1, <1>r, Actors DEF RemovedRecord, Outdate, OwnerLocks, Creating, Arming, Using, Completing,
     Deleted, HoldsGuard, HoldsFence, Retaining, Locks, OwnerInv, session, registry, owner, supervisor,
     workers
<1>C. OwnerInv'
  BY <1>1, <1>r, Actors DEF RemovedRecord, Outdate, OwnerInv, Creating, Arming, Using, Completing,
     Deleted, HoldsGuard, HoldsFence, Retaining, validBinding, NoRecord, NoCapability, NoMarker,
     ProcessInv, RemovedInv, OwnerLocks, Locks, session, registry, owner, supervisor, workers
<1>D. ProcessInv'
  BY <1>1, <1>r, Actors DEF RemovedRecord, Outdate, ProcessInv, Dead, NoMarker, NoProof, OwnerInv,
     Creating, Arming, Using, Completing, Deleted, HoldsGuard, HoldsFence, Retaining, session,
     registry, owner, supervisor, workers
<1>E. WorkersInv'
  <2>1. ASSUME NEW q \in Recovery PROVE Leaves(q)
    BY <2>1, <1>1, <1>r, Actors DEF RemovedRecord, Outdate, Leaves, Dead, validBinding, Locks,
       Recovery, Workers, OwnerLocks, OwnerInv, ProcessInv, RemovedInv, Creating, Arming, Using,
       Completing, Deleted, HoldsGuard, HoldsFence, Retaining, session, registry, owner, supervisor,
       workers
  <2> QED
    BY <1>1, <2>1, WorkerKept DEF WorkersInv
<1>F. StartupInv'
  BY <1>1, <1>r, Actors DEF RemovedRecord, Outdate, StartupInv, Deleted, Completing, Locks, OwnerInv,
     OwnerLocks, Using, Arming, Creating, HoldsGuard, session, registry, owner, supervisor, workers
<1>G. RemovedInv'
  BY <1>1, <1>r, Actors DEF RemovedRecord, Outdate, RemovedInv, NoRecord, NoCapability, OwnerInv,
     Completing, Deleted, session, registry, owner, supervisor, workers
<1> QED
  BY <1>A, <1>B, <1>C, <1>D, <1>E, <1>F, <1>G DEF IndInv

LEMMA RemovedBindingHolds == ASSUME IndInv, RemovedBinding PROVE IndInv'
<1>1. /\ TypeOK /\ OwnerLocks /\ OwnerInv /\ ProcessInv /\ WorkersInv /\ StartupInv /\ RemovedInv
  BY DEF IndInv
<1>t. /\ bound' \in BOOLEAN
      /\ opc' \in OwnerSteps
  BY <1>1, GenBounds DEF RemovedBinding, TypeOK, OwnerSteps, OwnerInv, Arming
<1>A. TypeOK'
  BY <1>1, <1>t DEF RemovedBinding, TypeOK, session, registry, owner, supervisor, workers, Locking
<1>B. OwnerLocks'
  BY <1>1, Actors DEF RemovedBinding, OwnerLocks, Creating, Arming, Using, Completing, Deleted,
     HoldsGuard, HoldsFence, Retaining, Locks, OwnerInv, session, registry, owner, supervisor, workers
<1>C. OwnerInv'
  BY <1>1, Actors DEF RemovedBinding, OwnerInv, Creating, Arming, Using, Completing, Deleted,
     HoldsGuard, HoldsFence, Retaining, validBinding, NoRecord, NoCapability, NoMarker, ProcessInv,
     RemovedInv, OwnerLocks, Locks, session, registry, owner, supervisor, workers
<1>D. ProcessInv'
  BY <1>1, Actors DEF RemovedBinding, ProcessInv, Dead, NoMarker, NoProof, OwnerInv, Creating, Arming,
     Using, Completing, Deleted, HoldsGuard, HoldsFence, Retaining, session, registry, owner,
     supervisor, workers
<1>E. WorkersInv'
  <2>1. ASSUME NEW q \in Recovery PROVE Leaves(q)
    BY <2>1, <1>1, Actors DEF RemovedBinding, Leaves, Dead, validBinding, Locks, Recovery, Workers,
       OwnerLocks, OwnerInv, ProcessInv, RemovedInv, Creating, Arming, Using, Completing, Deleted,
       HoldsGuard, HoldsFence, Retaining, session, registry, owner, supervisor, workers
  <2> QED
    BY <1>1, <2>1, WorkerKept DEF WorkersInv
<1>F. StartupInv'
  BY <1>1, Actors DEF RemovedBinding, StartupInv, Deleted, Completing, Locks, OwnerInv, OwnerLocks,
     Using, Arming, Creating, HoldsGuard, session, registry, owner, supervisor, workers
<1>G. RemovedInv'
  BY <1>1, Actors DEF RemovedBinding, RemovedInv, NoRecord, NoCapability, OwnerInv, Completing,
     Deleted, session, registry, owner, supervisor, workers
<1> QED
  BY <1>A, <1>B, <1>C, <1>D, <1>E, <1>F, <1>G DEF IndInv

LEMMA RemovedEvidenceHolds == ASSUME IndInv, RemovedEvidence PROVE IndInv'
<1>1. /\ TypeOK /\ OwnerLocks /\ OwnerInv /\ ProcessInv /\ WorkersInv /\ StartupInv /\ RemovedInv
  BY DEF IndInv
<1>k. Locking(Owner)
  BY <1>1, Actors DEF RemovedEvidence, Locking, TypeOK, OwnerLocks, HoldsGuard, HoldsFence, Locks, Drop
<1>t. /\ cap' \in {NoCapability} \cup [gen : 1..MaxGen, removed : BOOLEAN]
      /\ opc' \in OwnerSteps
      /\ stale' \subseteq Recovery
  BY <1>1, GenBounds DEF RemovedEvidence, Outdate, TypeOK, OwnerSteps, OwnerInv, Arming
<1>A. TypeOK'
  BY <1>1, <1>k, <1>t DEF RemovedEvidence, TypeOK, session, registry, owner, supervisor, workers,
     Locking
<1>B. OwnerLocks'
  BY <1>1, <1>k, Actors DEF RemovedEvidence, Outdate, Drop, OwnerLocks, Creating, Arming, Using,
     Completing, Deleted, HoldsGuard, HoldsFence, Retaining, Locks, OwnerInv, session, registry, owner,
     supervisor, workers, Locking
<1>C. OwnerInv'
  BY <1>1, <1>k, Actors DEF RemovedEvidence, Outdate, Drop, OwnerInv, Creating, Arming, Using,
     Completing, Deleted, HoldsGuard, HoldsFence, Retaining, validBinding, NoRecord, NoCapability,
     NoMarker, ProcessInv, RemovedInv, OwnerLocks, Locks, session, registry, owner, supervisor,
     workers, Locking
<1>D. ProcessInv'
  BY <1>1, <1>k, Actors DEF RemovedEvidence, Outdate, Drop, ProcessInv, Dead, NoMarker, NoProof,
     OwnerInv, Creating, Arming, Using, Completing, Deleted, HoldsGuard, HoldsFence, Retaining,
     session, registry, owner, supervisor, workers, Locking
<1>E. WorkersInv'
  <2>1. ASSUME NEW q \in Recovery PROVE Leaves(q)
    BY <2>1, <1>1, <1>k, Actors DEF RemovedEvidence, Outdate, Leaves, Dead, validBinding, Locks,
       Recovery, Workers, Locking, OwnerLocks, OwnerInv, ProcessInv, RemovedInv, Creating, Arming,
       Using, Completing, Deleted, HoldsGuard, HoldsFence, Retaining, session, registry, owner,
       supervisor, workers
  <2> QED
    BY <1>1, <2>1, WorkerKept DEF WorkersInv
<1>F. StartupInv'
  BY <1>1, <1>k, Actors DEF RemovedEvidence, Outdate, Drop, StartupInv, Deleted, Completing, Locks,
     OwnerInv, OwnerLocks, Using, Arming, Creating, HoldsGuard, session, registry, owner, supervisor,
     workers, Locking
<1>G. RemovedInv'
  BY <1>1, <1>k, Actors DEF RemovedEvidence, Outdate, Drop, RemovedInv, NoRecord, NoCapability,
     OwnerInv, Completing, Deleted, session, registry, owner, supervisor, workers, Locking
<1> QED
  BY <1>A, <1>B, <1>C, <1>D, <1>E, <1>F, <1>G DEF IndInv

LEMMA DeleteMarkerHolds == ASSUME IndInv, DeleteMarker PROVE IndInv'
<1>1. /\ TypeOK /\ OwnerLocks /\ OwnerInv /\ ProcessInv /\ WorkersInv /\ StartupInv /\ RemovedInv
  BY DEF IndInv
<1>k. Locking(Owner)
  BY <1>1, Actors DEF DeleteMarker, Locking, TypeOK, OwnerLocks, HoldsGuard, HoldsFence, Locks, DropAll
<1>t. /\ marker' \in {NoMarker} \cup [phase : {"prepared", "pending", "recoverable"}, chal : Gens]
      /\ opc' \in OwnerSteps
  BY <1>1, GenBounds DEF DeleteMarker, TypeOK, OwnerSteps, OwnerInv, Arming
<1>A. TypeOK'
  BY <1>1, <1>k, <1>t DEF DeleteMarker, TypeOK, session, registry, owner, supervisor, workers, Locking
<1>B. OwnerLocks'
  BY <1>1, <1>k, Actors DEF DeleteMarker, DropAll, OwnerLocks, Creating, Arming, Using, Completing,
     Deleted, HoldsGuard, HoldsFence, Retaining, Locks, OwnerInv, session, registry, owner, supervisor,
     workers, Locking
<1>C. OwnerInv'
  BY <1>1, <1>k, Actors DEF DeleteMarker, DropAll, OwnerInv, Creating, Arming, Using, Completing,
     Deleted, HoldsGuard, HoldsFence, Retaining, validBinding, NoRecord, NoCapability, NoMarker,
     ProcessInv, RemovedInv, OwnerLocks, Locks, session, registry, owner, supervisor, workers, Locking
<1>D. ProcessInv'
  BY <1>1, <1>k, Actors DEF DeleteMarker, DropAll, ProcessInv, Dead, NoMarker, NoProof, OwnerInv,
     Creating, Arming, Using, Completing, Deleted, HoldsGuard, HoldsFence, Retaining, session,
     registry, owner, supervisor, workers, Locking
<1>E. WorkersInv'
  <2>1. ASSUME NEW q \in Recovery PROVE Leaves(q)
    BY <2>1, <1>1, <1>k, Actors DEF DeleteMarker, Leaves, Dead, validBinding, Locks, Recovery, Workers,
       Locking, OwnerLocks, OwnerInv, ProcessInv, RemovedInv, Creating, Arming, Using, Completing,
       Deleted, HoldsGuard, HoldsFence, Retaining, session, registry, owner, supervisor, workers
  <2> QED
    BY <1>1, <2>1, WorkerKept DEF WorkersInv
<1>F. StartupInv'
  BY <1>1, <1>k, Actors DEF DeleteMarker, DropAll, StartupInv, Deleted, Completing, Locks, OwnerInv,
     OwnerLocks, Using, Arming, Creating, HoldsGuard, session, registry, owner, supervisor, workers,
     Locking
<1>G. RemovedInv'
  BY <1>1, <1>k, Actors DEF DeleteMarker, DropAll, RemovedInv, NoRecord, NoCapability, OwnerInv,
     Completing, Deleted, session, registry, owner, supervisor, workers, Locking
<1> QED
  BY <1>A, <1>B, <1>C, <1>D, <1>E, <1>F, <1>G DEF IndInv

LEMMA ProtectFailsHolds == ASSUME IndInv, ProtectFails PROVE IndInv'
<1>1. /\ TypeOK /\ OwnerLocks /\ OwnerInv /\ ProcessInv /\ WorkersInv /\ StartupInv /\ RemovedInv
  BY DEF IndInv
<1>k. Locking(Owner)
  BY <1>1, Actors DEF ProtectFails, Locking, TypeOK, OwnerLocks, HoldsGuard, HoldsFence, Locks, DropAll
<1>f. faults' \in 0..MaxFaults
  BY <1>1, FaultBounds DEF ProtectFails, DropAll, TypeOK
<1>t. /\ root' \in BOOLEAN
      /\ guardFile' \in BOOLEAN
      /\ prot' \in BOOLEAN
      /\ opc' \in OwnerSteps
  BY <1>1, GenBounds DEF ProtectFails, TypeOK, OwnerSteps, OwnerInv, Arming
<1>A. TypeOK'
  BY <1>1, <1>k, <1>f, <1>t DEF ProtectFails, TypeOK, session, registry, owner, supervisor, workers,
     Locking
<1>B. OwnerLocks'
  BY <1>1, <1>k, Actors DEF ProtectFails, Fault, DropAll, OwnerLocks, Creating, Arming, Using,
     Completing, Deleted, HoldsGuard, HoldsFence, Retaining, Locks, OwnerInv, session, registry, owner,
     supervisor, workers, Locking
<1>C. OwnerInv'
  BY <1>1, <1>k, Actors DEF ProtectFails, Fault, DropAll, OwnerInv, Creating, Arming, Using,
     Completing, Deleted, HoldsGuard, HoldsFence, Retaining, validBinding, NoRecord, NoCapability,
     NoMarker, ProcessInv, RemovedInv, OwnerLocks, Locks, session, registry, owner, supervisor,
     workers, Locking
<1>D. ProcessInv'
  BY <1>1, <1>k, Actors DEF ProtectFails, Fault, DropAll, ProcessInv, Dead, NoMarker, NoProof,
     OwnerInv, Creating, Arming, Using, Completing, Deleted, HoldsGuard, HoldsFence, Retaining,
     session, registry, owner, supervisor, workers, Locking
<1>E. WorkersInv'
  <2>1. ASSUME NEW q \in Recovery PROVE Leaves(q)
    BY <2>1, <1>1, <1>k, Actors DEF ProtectFails, Leaves, Dead, validBinding, Locks, Recovery, Workers,
       Locking, OwnerLocks, OwnerInv, ProcessInv, RemovedInv, Creating, Arming, Using, Completing,
       Deleted, HoldsGuard, HoldsFence, Retaining, session, registry, owner, supervisor, workers
  <2> QED
    BY <1>1, <2>1, WorkerKept DEF WorkersInv
<1>F. StartupInv'
  BY <1>1, <1>k, Actors DEF ProtectFails, Fault, DropAll, StartupInv, Deleted, Completing, Locks,
     OwnerInv, OwnerLocks, Using, Arming, Creating, HoldsGuard, session, registry, owner, supervisor,
     workers, Locking
<1>G. RemovedInv'
  BY <1>1, <1>k, Actors DEF ProtectFails, Fault, DropAll, RemovedInv, NoRecord, NoCapability, OwnerInv,
     Completing, Deleted, session, registry, owner, supervisor, workers, Locking
<1> QED
  BY <1>A, <1>B, <1>C, <1>D, <1>E, <1>F, <1>G DEF IndInv

LEMMA PublishFailsHolds == ASSUME IndInv, PublishFails PROVE IndInv'
<1>1. /\ TypeOK /\ OwnerLocks /\ OwnerInv /\ ProcessInv /\ WorkersInv /\ StartupInv /\ RemovedInv
  BY DEF IndInv
<1>k. Locking(Owner)
  BY <1>1, Actors DEF PublishFails, Locking, TypeOK, OwnerLocks, HoldsGuard, HoldsFence, Locks, DropAll
<1>f. faults' \in 0..MaxFaults
  BY <1>1, FaultBounds DEF PublishFails, DropAll, TypeOK
<1>t. /\ marker' \in {NoMarker} \cup [phase : {"prepared", "pending", "recoverable"}, chal : Gens]
      /\ opc' \in OwnerSteps
  BY <1>1, GenBounds DEF PublishFails, TypeOK, OwnerSteps, OwnerInv, Arming
<1>A. TypeOK'
  BY <1>1, <1>k, <1>f, <1>t DEF PublishFails, TypeOK, session, registry, owner, supervisor, workers,
     Locking
<1>B. OwnerLocks'
  BY <1>1, <1>k, Actors DEF PublishFails, Fault, DropAll, OwnerLocks, Creating, Arming, Using,
     Completing, Deleted, HoldsGuard, HoldsFence, Retaining, Locks, OwnerInv, session, registry, owner,
     supervisor, workers, Locking
<1>C. OwnerInv'
  BY <1>1, <1>k, Actors DEF PublishFails, Fault, DropAll, OwnerInv, Creating, Arming, Using,
     Completing, Deleted, HoldsGuard, HoldsFence, Retaining, validBinding, NoRecord, NoCapability,
     NoMarker, ProcessInv, RemovedInv, OwnerLocks, Locks, session, registry, owner, supervisor,
     workers, Locking
<1>D. ProcessInv'
  BY <1>1, <1>k, Actors DEF PublishFails, Fault, DropAll, ProcessInv, Dead, NoMarker, NoProof,
     OwnerInv, Creating, Arming, Using, Completing, Deleted, HoldsGuard, HoldsFence, Retaining,
     session, registry, owner, supervisor, workers, Locking
<1>E. WorkersInv'
  <2>1. ASSUME NEW q \in Recovery PROVE Leaves(q)
    BY <2>1, <1>1, <1>k, Actors DEF PublishFails, Leaves, Dead, validBinding, Locks, Recovery, Workers,
       Locking, OwnerLocks, OwnerInv, ProcessInv, RemovedInv, Creating, Arming, Using, Completing,
       Deleted, HoldsGuard, HoldsFence, Retaining, session, registry, owner, supervisor, workers
  <2> QED
    BY <1>1, <2>1, WorkerKept DEF WorkersInv
<1>F. StartupInv'
  BY <1>1, <1>k, Actors DEF PublishFails, Fault, DropAll, StartupInv, Deleted, Completing, Locks,
     OwnerInv, OwnerLocks, Using, Arming, Creating, HoldsGuard, session, registry, owner, supervisor,
     workers, Locking
<1>G. RemovedInv'
  BY <1>1, <1>k, Actors DEF PublishFails, Fault, DropAll, RemovedInv, NoRecord, NoCapability, OwnerInv,
     Completing, Deleted, session, registry, owner, supervisor, workers, Locking
<1> QED
  BY <1>A, <1>B, <1>C, <1>D, <1>E, <1>F, <1>G DEF IndInv

LEMMA ArmFailsHolds == ASSUME IndInv, ArmFails PROVE IndInv'
<1>1. /\ TypeOK /\ OwnerLocks /\ OwnerInv /\ ProcessInv /\ WorkersInv /\ StartupInv /\ RemovedInv
  BY DEF IndInv
<1>k. Locking(Owner)
  BY <1>1, Actors DEF ArmFails, Locking, TypeOK, OwnerLocks, HoldsGuard, HoldsFence, Locks, Drop
<1>f. faults' \in 0..MaxFaults
  BY <1>1, FaultBounds DEF ArmFails, Drop, TypeOK
<1>t. /\ opc' \in OwnerSteps
  BY <1>1, GenBounds DEF ArmFails, TypeOK, OwnerSteps, OwnerInv, Arming
<1>A. TypeOK'
  BY <1>1, <1>k, <1>f, <1>t DEF ArmFails, TypeOK, session, registry, owner, supervisor, workers, Locking
<1>B. OwnerLocks'
  BY <1>1, <1>k, Actors DEF ArmFails, Fault, Drop, OwnerLocks, Creating, Arming, Using, Completing,
     Deleted, HoldsGuard, HoldsFence, Retaining, Locks, OwnerInv, session, registry, owner, supervisor,
     workers, Locking
<1>C. OwnerInv'
  BY <1>1, <1>k, Actors DEF ArmFails, Fault, Drop, OwnerInv, Creating, Arming, Using, Completing,
     Deleted, HoldsGuard, HoldsFence, Retaining, validBinding, NoRecord, NoCapability, NoMarker,
     ProcessInv, RemovedInv, OwnerLocks, Locks, session, registry, owner, supervisor, workers, Locking
<1>D. ProcessInv'
  BY <1>1, <1>k, Actors DEF ArmFails, Fault, Drop, ProcessInv, Dead, NoMarker, NoProof, OwnerInv,
     Creating, Arming, Using, Completing, Deleted, HoldsGuard, HoldsFence, Retaining, session,
     registry, owner, supervisor, workers, Locking
<1>E. WorkersInv'
  <2>1. ASSUME NEW q \in Recovery PROVE Leaves(q)
    BY <2>1, <1>1, <1>k, Actors DEF ArmFails, Leaves, Dead, validBinding, Locks, Recovery, Workers,
       Locking, OwnerLocks, OwnerInv, ProcessInv, RemovedInv, Creating, Arming, Using, Completing,
       Deleted, HoldsGuard, HoldsFence, Retaining, session, registry, owner, supervisor, workers
  <2> QED
    BY <1>1, <2>1, WorkerKept DEF WorkersInv
<1>F. StartupInv'
  BY <1>1, <1>k, Actors DEF ArmFails, Fault, Drop, StartupInv, Deleted, Completing, Locks, OwnerInv,
     OwnerLocks, Using, Arming, Creating, HoldsGuard, session, registry, owner, supervisor, workers,
     Locking
<1>G. RemovedInv'
  BY <1>1, <1>k, Actors DEF ArmFails, Fault, Drop, RemovedInv, NoRecord, NoCapability, OwnerInv,
     Completing, Deleted, session, registry, owner, supervisor, workers, Locking
<1> QED
  BY <1>A, <1>B, <1>C, <1>D, <1>E, <1>F, <1>G DEF IndInv

LEMMA StartTimeoutHolds == ASSUME IndInv, StartTimeout PROVE IndInv'
<1>1. /\ TypeOK /\ OwnerLocks /\ OwnerInv /\ ProcessInv /\ WorkersInv /\ StartupInv /\ RemovedInv
  BY DEF IndInv
<1>f. faults' \in 0..MaxFaults
  BY <1>1, FaultBounds DEF StartTimeout, TypeOK
<1>t. /\ opc' \in OwnerSteps
      /\ spc' \in SupervisorSteps
  BY <1>1, GenBounds DEF StartTimeout, TypeOK, OwnerSteps, SupervisorSteps, OwnerInv, Arming
<1>A. TypeOK'
  BY <1>1, <1>f, <1>t DEF StartTimeout, TypeOK, session, registry, owner, supervisor, workers, Locking
<1>B. OwnerLocks'
  BY <1>1, Actors DEF StartTimeout, Fault, OwnerLocks, Creating, Arming, Using, Completing, Deleted,
     HoldsGuard, HoldsFence, Retaining, Locks, OwnerInv, session, registry, owner, supervisor, workers
<1>C. OwnerInv'
  BY <1>1, Actors DEF StartTimeout, Fault, OwnerInv, Creating, Arming, Using, Completing, Deleted,
     HoldsGuard, HoldsFence, Retaining, validBinding, NoRecord, NoCapability, NoMarker, ProcessInv,
     RemovedInv, OwnerLocks, Locks, session, registry, owner, supervisor, workers
<1>D. ProcessInv'
  BY <1>1, Actors DEF StartTimeout, Fault, ProcessInv, Dead, NoMarker, NoProof, OwnerInv, Creating,
     Arming, Using, Completing, Deleted, HoldsGuard, HoldsFence, Retaining, session, registry, owner,
     supervisor, workers
<1>E. WorkersInv'
  <2>1. ASSUME NEW q \in Recovery PROVE Leaves(q)
    BY <2>1, <1>1, Actors DEF StartTimeout, Leaves, Dead, validBinding, Locks, Recovery, Workers,
       OwnerLocks, OwnerInv, ProcessInv, RemovedInv, Creating, Arming, Using, Completing, Deleted,
       HoldsGuard, HoldsFence, Retaining, session, registry, owner, supervisor, workers
  <2> QED
    BY <1>1, <2>1, WorkerKept DEF WorkersInv
<1>F. StartupInv'
  BY <1>1, Actors DEF StartTimeout, Fault, StartupInv, Deleted, Completing, Locks, OwnerInv,
     OwnerLocks, Using, Arming, Creating, HoldsGuard, session, registry, owner, supervisor, workers
<1>G. RemovedInv'
  BY <1>1, Actors DEF StartTimeout, Fault, RemovedInv, NoRecord, NoCapability, OwnerInv, Completing,
     Deleted, session, registry, owner, supervisor, workers
<1> QED
  BY <1>A, <1>B, <1>C, <1>D, <1>E, <1>F, <1>G DEF IndInv

LEMMA RemoveFailsHolds == ASSUME IndInv, RemoveFails PROVE IndInv'
<1>1. /\ TypeOK /\ OwnerLocks /\ OwnerInv /\ ProcessInv /\ WorkersInv /\ StartupInv /\ RemovedInv
  BY DEF IndInv
<1>r. /\ \/ rec' = rec /\ stale' = stale
         \/ /\ rec' \in [st : RecordStates, gen : 1..MaxGen, comp : Gens]
            /\ rec'.st = "retryable" /\ rec'.gen = rec.gen /\ lock["fence"] = Nobody /\ stale' = Recovery
      /\ opc \in {"settling", "rmroot", "rmguard", "rmprot"}
  <2>1. /\ \/ rec' = rec /\ stale' = stale
           \/ /\ rec # NoRecord /\ rec' = [rec EXCEPT !.st = "retryable"]
              /\ lock["fence"] = Nobody /\ stale' = Recovery
        /\ opc \in {"settling", "rmroot", "rmguard", "rmprot"}
    BY DEF RemoveFails, transition, Outdate, Free
  <2> QED
    BY <1>1, <2>1, Restated DEF RecordStates
<1>k. Locking(Owner)
  BY <1>1, Actors DEF RemoveFails, Locking, TypeOK, OwnerLocks, HoldsGuard, HoldsFence, Locks, DropAll
<1>f. faults' \in 0..MaxFaults
  BY <1>1, FaultBounds DEF RemoveFails, DropAll, transition, incompleteRemoveAll, Outdate, TypeOK
<1>t. /\ proof' \in {NoProof} \cup [kind : {"notarget", "settled"}, gen : 1..MaxGen]
      /\ lbind' \in Gens
      /\ rec' \in {NoRecord} \cup [st : RecordStates, gen : 1..MaxGen, comp : Gens]
      /\ opc' \in OwnerSteps
      /\ stale' \subseteq Recovery
  BY <1>1, <1>r, GenBounds DEF RemoveFails, transition, incompleteRemoveAll, Outdate, TypeOK,
     RecordStates, OwnerSteps, OwnerInv, Arming
<1>A. TypeOK'
  BY <1>1, <1>k, <1>f, <1>t DEF RemoveFails, TypeOK, session, registry, owner, supervisor, workers,
     Locking
<1>B. OwnerLocks'
  BY <1>1, <1>r, <1>k, Actors DEF RemoveFails, Fault, DropAll, transition, incompleteRemoveAll,
     Outdate, OwnerLocks, Creating, Arming, Using, Completing, Deleted, HoldsGuard, HoldsFence,
     Retaining, Locks, OwnerInv, session, registry, owner, supervisor, workers, Locking
<1>C. OwnerInv'
  BY <1>1, <1>r, <1>k, Actors DEF RemoveFails, Fault, DropAll, transition, incompleteRemoveAll,
     Outdate, OwnerInv, Creating, Arming, Using, Completing, Deleted, HoldsGuard, HoldsFence,
     Retaining, validBinding, NoRecord, NoCapability, NoMarker, ProcessInv, RemovedInv, OwnerLocks,
     Locks, session, registry, owner, supervisor, workers, Locking
<1>D. ProcessInv'
  BY <1>1, <1>r, <1>k, Actors DEF RemoveFails, Fault, DropAll, transition, incompleteRemoveAll,
     Outdate, ProcessInv, Dead, NoMarker, NoProof, OwnerInv, Creating, Arming, Using, Completing,
     Deleted, HoldsGuard, HoldsFence, Retaining, session, registry, owner, supervisor, workers, Locking
<1>E. WorkersInv'
  <2>1. ASSUME NEW q \in Recovery PROVE Leaves(q)
    BY <2>1, <1>1, <1>r, <1>k, Actors DEF RemoveFails, transition, incompleteRemoveAll, Outdate,
       Leaves, Dead, validBinding, Locks, Recovery, Workers, Locking, OwnerLocks, OwnerInv, ProcessInv,
       RemovedInv, Creating, Arming, Using, Completing, Deleted, HoldsGuard, HoldsFence, Retaining,
       session, registry, owner, supervisor, workers
  <2> QED
    BY <1>1, <2>1, WorkerKept DEF WorkersInv
<1>F. StartupInv'
  BY <1>1, <1>r, <1>k, Actors DEF RemoveFails, Fault, DropAll, transition, incompleteRemoveAll,
     Outdate, StartupInv, Deleted, Completing, Locks, OwnerInv, OwnerLocks, Using, Arming, Creating,
     HoldsGuard, session, registry, owner, supervisor, workers, Locking
<1>G. RemovedInv'
  BY <1>1, <1>r, <1>k, Actors DEF RemoveFails, Fault, DropAll, transition, incompleteRemoveAll,
     Outdate, RemovedInv, NoRecord, NoCapability, OwnerInv, Completing, Deleted, session, registry,
     owner, supervisor, workers, Locking
<1> QED
  BY <1>A, <1>B, <1>C, <1>D, <1>E, <1>F, <1>G DEF IndInv

LEMMA OwnerDiesHolds == ASSUME IndInv, OwnerDies PROVE IndInv'
<1>1. /\ TypeOK /\ OwnerLocks /\ OwnerInv /\ ProcessInv /\ WorkersInv /\ StartupInv /\ RemovedInv
  BY DEF IndInv
<1>k. Locking(Owner)
  BY <1>1, Actors DEF OwnerDies, Locking, TypeOK, OwnerLocks, HoldsGuard, HoldsFence, Locks, DropAll
<1>f. faults' \in 0..MaxFaults
  BY <1>1, FaultBounds DEF OwnerDies, DropAll, TypeOK
<1>t. /\ opc' \in OwnerSteps
  BY <1>1, GenBounds DEF OwnerDies, TypeOK, OwnerSteps, OwnerInv, Arming
<1>A. TypeOK'
  BY <1>1, <1>k, <1>f, <1>t DEF OwnerDies, TypeOK, session, registry, owner, supervisor, workers,
     Locking
<1>B. OwnerLocks'
  BY <1>1, <1>k, Actors DEF OwnerDies, Fault, DropAll, OwnerLocks, Creating, Arming, Using, Completing,
     Deleted, HoldsGuard, HoldsFence, Retaining, Locks, OwnerInv, session, registry, owner, supervisor,
     workers, Locking
<1>C. OwnerInv'
  BY <1>1, <1>k, Actors DEF OwnerDies, Fault, DropAll, OwnerInv, Creating, Arming, Using, Completing,
     Deleted, HoldsGuard, HoldsFence, Retaining, validBinding, NoRecord, NoCapability, NoMarker,
     ProcessInv, RemovedInv, OwnerLocks, Locks, session, registry, owner, supervisor, workers, Locking
<1>D. ProcessInv'
  BY <1>1, <1>k, Actors DEF OwnerDies, Fault, DropAll, ProcessInv, Dead, NoMarker, NoProof, OwnerInv,
     Creating, Arming, Using, Completing, Deleted, HoldsGuard, HoldsFence, Retaining, session,
     registry, owner, supervisor, workers, Locking
<1>E. WorkersInv'
  <2>1. ASSUME NEW q \in Recovery PROVE Leaves(q)
    BY <2>1, <1>1, <1>k, Actors DEF OwnerDies, Leaves, Dead, validBinding, Locks, Recovery, Workers,
       Locking, OwnerLocks, OwnerInv, ProcessInv, RemovedInv, Creating, Arming, Using, Completing,
       Deleted, HoldsGuard, HoldsFence, Retaining, session, registry, owner, supervisor, workers
  <2> QED
    BY <1>1, <2>1, WorkerKept DEF WorkersInv
<1>F. StartupInv'
  BY <1>1, <1>k, Actors DEF OwnerDies, Fault, DropAll, StartupInv, Deleted, Completing, Locks,
     OwnerInv, OwnerLocks, Using, Arming, Creating, HoldsGuard, session, registry, owner, supervisor,
     workers, Locking
<1>G. RemovedInv'
  BY <1>1, <1>k, Actors DEF OwnerDies, Fault, DropAll, RemovedInv, NoRecord, NoCapability, OwnerInv,
     Completing, Deleted, session, registry, owner, supervisor, workers, Locking
<1> QED
  BY <1>A, <1>B, <1>C, <1>D, <1>E, <1>F, <1>G DEF IndInv

LEMMA AdoptHolds == ASSUME IndInv, Adopt PROVE IndInv'
<1>1. /\ TypeOK /\ OwnerLocks /\ OwnerInv /\ ProcessInv /\ WorkersInv /\ StartupInv /\ RemovedInv
  BY DEF IndInv
<1>t. /\ lbind' \in Gens
      /\ spc' \in SupervisorSteps
  BY <1>1, GenBounds DEF Adopt, TypeOK, SupervisorSteps
<1>u. OwnerLocks' /\ StartupInv' /\ RemovedInv'
  BY <1>1 DEF Adopt, OwnerLocks, StartupInv, RemovedInv, registry, owner, workers
<1>A. TypeOK'
  BY <1>1, <1>t DEF Adopt, TypeOK, session, registry, owner, supervisor, workers, Locking
<1>C. OwnerInv'
  BY <1>1, Actors DEF Adopt, OwnerInv, Creating, Arming, Using, Completing, Deleted, HoldsGuard,
     HoldsFence, Retaining, validBinding, NoRecord, NoCapability, NoMarker, ProcessInv, RemovedInv,
     OwnerLocks, Locks, session, registry, owner, supervisor, workers
<1>D. ProcessInv'
  BY <1>1, Actors DEF Adopt, ProcessInv, Dead, NoMarker, NoProof, OwnerInv, Creating, Arming, Using,
     Completing, Deleted, HoldsGuard, HoldsFence, Retaining, session, registry, owner, supervisor,
     workers
<1>E. WorkersInv'
  <2>1. ASSUME NEW q \in Recovery PROVE Leaves(q)
    BY <2>1, <1>1, Actors DEF Adopt, Leaves, Dead, validBinding, Locks, Recovery, Workers, OwnerLocks,
       OwnerInv, ProcessInv, RemovedInv, Creating, Arming, Using, Completing, Deleted, HoldsGuard,
       HoldsFence, Retaining, session, registry, owner, supervisor, workers
  <2> QED
    BY <1>1, <2>1, WorkerKept DEF WorkersInv
<1> QED
  BY <1>u, <1>A, <1>C, <1>D, <1>E DEF IndInv

LEMMA RevokeProofHolds == ASSUME IndInv, RevokeProof PROVE IndInv'
<1>1. /\ TypeOK /\ OwnerLocks /\ OwnerInv /\ ProcessInv /\ WorkersInv /\ StartupInv /\ RemovedInv
  BY DEF IndInv
<1>t. /\ proof' \in {NoProof} \cup [kind : {"notarget", "settled"}, gen : 1..MaxGen]
      /\ spc' \in SupervisorSteps
  BY <1>1, GenBounds DEF RevokeProof, TypeOK, SupervisorSteps
<1>u. OwnerLocks' /\ StartupInv' /\ RemovedInv'
  BY <1>1 DEF RevokeProof, OwnerLocks, StartupInv, RemovedInv, registry, owner, workers
<1>A. TypeOK'
  BY <1>1, <1>t DEF RevokeProof, TypeOK, session, registry, owner, supervisor, workers, Locking
<1>C. OwnerInv'
  BY <1>1, Actors DEF RevokeProof, OwnerInv, Creating, Arming, Using, Completing, Deleted, HoldsGuard,
     HoldsFence, Retaining, validBinding, NoRecord, NoCapability, NoMarker, ProcessInv, RemovedInv,
     OwnerLocks, Locks, session, registry, owner, supervisor, workers
<1>D. ProcessInv'
  BY <1>1, Actors DEF RevokeProof, ProcessInv, Dead, NoMarker, NoProof, OwnerInv, Creating, Arming,
     Using, Completing, Deleted, HoldsGuard, HoldsFence, Retaining, session, registry, owner,
     supervisor, workers
<1>E. WorkersInv'
  <2>1. ASSUME NEW q \in Recovery PROVE Leaves(q)
    BY <2>1, <1>1, Actors DEF RevokeProof, Leaves, Dead, validBinding, Locks, Recovery, Workers,
       OwnerLocks, OwnerInv, ProcessInv, RemovedInv, Creating, Arming, Using, Completing, Deleted,
       HoldsGuard, HoldsFence, Retaining, session, registry, owner, supervisor, workers
  <2> QED
    BY <1>1, <2>1, WorkerKept DEF WorkersInv
<1> QED
  BY <1>u, <1>A, <1>C, <1>D, <1>E DEF IndInv

LEMMA ReadyHolds == ASSUME IndInv, Ready PROVE IndInv'
<1>1. /\ TypeOK /\ OwnerLocks /\ OwnerInv /\ ProcessInv /\ WorkersInv /\ StartupInv /\ RemovedInv
  BY DEF IndInv
<1>t. /\ spc' \in SupervisorSteps
      /\ chan' \subseteq {"R", "S", "X"}
  BY <1>1, GenBounds DEF Ready, TypeOK, SupervisorSteps
<1>u. OwnerLocks' /\ StartupInv' /\ RemovedInv'
  BY <1>1 DEF Ready, OwnerLocks, StartupInv, RemovedInv, session, registry, owner, workers
<1>A. TypeOK'
  BY <1>1, <1>t DEF Ready, TypeOK, session, registry, owner, supervisor, workers, Locking
<1>C. OwnerInv'
  BY <1>1, Actors DEF Ready, OwnerInv, Creating, Arming, Using, Completing, Deleted, HoldsGuard,
     HoldsFence, Retaining, validBinding, NoRecord, NoCapability, NoMarker, ProcessInv, RemovedInv,
     OwnerLocks, Locks, session, registry, owner, supervisor, workers
<1>D. ProcessInv'
  BY <1>1, Actors DEF Ready, ProcessInv, Dead, NoMarker, NoProof, OwnerInv, Creating, Arming, Using,
     Completing, Deleted, HoldsGuard, HoldsFence, Retaining, session, registry, owner, supervisor,
     workers
<1>E. WorkersInv'
  <2>1. ASSUME NEW q \in Recovery PROVE Leaves(q)
    BY <2>1, <1>1, Actors DEF Ready, Leaves, Dead, validBinding, Locks, Recovery, Workers, OwnerLocks,
       OwnerInv, ProcessInv, RemovedInv, Creating, Arming, Using, Completing, Deleted, HoldsGuard,
       HoldsFence, Retaining, session, registry, owner, supervisor, workers
  <2> QED
    BY <1>1, <2>1, WorkerKept DEF WorkersInv
<1> QED
  BY <1>u, <1>A, <1>C, <1>D, <1>E DEF IndInv

LEMMA StartTargetHolds == ASSUME IndInv, StartTarget PROVE IndInv'
<1>1. /\ TypeOK /\ OwnerLocks /\ OwnerInv /\ ProcessInv /\ WorkersInv /\ StartupInv /\ RemovedInv
  BY DEF IndInv
<1>t. /\ spc' \in SupervisorSteps
      /\ target' \in BOOLEAN
  BY <1>1, GenBounds DEF StartTarget, TypeOK, SupervisorSteps
<1>u. OwnerLocks' /\ StartupInv' /\ RemovedInv'
  BY <1>1 DEF StartTarget, OwnerLocks, StartupInv, RemovedInv, session, registry, owner, workers
<1>A. TypeOK'
  BY <1>1, <1>t DEF StartTarget, TypeOK, session, registry, owner, supervisor, workers, Locking
<1>C. OwnerInv'
  BY <1>1, Actors DEF StartTarget, OwnerInv, Creating, Arming, Using, Completing, Deleted, HoldsGuard,
     HoldsFence, Retaining, validBinding, NoRecord, NoCapability, NoMarker, ProcessInv, RemovedInv,
     OwnerLocks, Locks, session, registry, owner, supervisor, workers
<1>D. ProcessInv'
  BY <1>1, Actors DEF StartTarget, ProcessInv, Dead, NoMarker, NoProof, OwnerInv, Creating, Arming,
     Using, Completing, Deleted, HoldsGuard, HoldsFence, Retaining, session, registry, owner,
     supervisor, workers
<1>E. WorkersInv'
  <2>1. ASSUME NEW q \in Recovery PROVE Leaves(q)
    BY <2>1, <1>1, Actors DEF StartTarget, Leaves, Dead, validBinding, Locks, Recovery, Workers,
       OwnerLocks, OwnerInv, ProcessInv, RemovedInv, Creating, Arming, Using, Completing, Deleted,
       HoldsGuard, HoldsFence, Retaining, session, registry, owner, supervisor, workers
  <2> QED
    BY <1>1, <2>1, WorkerKept DEF WorkersInv
<1> QED
  BY <1>u, <1>A, <1>C, <1>D, <1>E DEF IndInv

LEMMA OwnerLostHolds == ASSUME IndInv, OwnerLost PROVE IndInv'
<1>1. /\ TypeOK /\ OwnerLocks /\ OwnerInv /\ ProcessInv /\ WorkersInv /\ StartupInv /\ RemovedInv
  BY DEF IndInv
<1>f. faults' \in 0..MaxFaults
  BY <1>1, FaultBounds DEF OwnerLost, TypeOK
<1>t. /\ spc' \in SupervisorSteps
  BY <1>1, GenBounds DEF OwnerLost, TypeOK, SupervisorSteps
<1>u. OwnerLocks' /\ StartupInv' /\ RemovedInv'
  BY <1>1 DEF OwnerLost, OwnerLocks, StartupInv, RemovedInv, session, registry, owner, workers
<1>A. TypeOK'
  BY <1>1, <1>f, <1>t DEF OwnerLost, TypeOK, session, registry, owner, supervisor, workers, Locking
<1>C. OwnerInv'
  BY <1>1, Actors DEF OwnerLost, Fault, OwnerInv, Creating, Arming, Using, Completing, Deleted,
     HoldsGuard, HoldsFence, Retaining, validBinding, NoRecord, NoCapability, NoMarker, ProcessInv,
     RemovedInv, OwnerLocks, Locks, session, registry, owner, supervisor, workers
<1>D. ProcessInv'
  BY <1>1, Actors DEF OwnerLost, Fault, ProcessInv, Dead, NoMarker, NoProof, OwnerInv, Creating,
     Arming, Using, Completing, Deleted, HoldsGuard, HoldsFence, Retaining, session, registry, owner,
     supervisor, workers
<1>E. WorkersInv'
  <2>1. ASSUME NEW q \in Recovery PROVE Leaves(q)
    BY <2>1, <1>1, Actors DEF OwnerLost, Leaves, Dead, validBinding, Locks, Recovery, Workers,
       OwnerLocks, OwnerInv, ProcessInv, RemovedInv, Creating, Arming, Using, Completing, Deleted,
       HoldsGuard, HoldsFence, Retaining, session, registry, owner, supervisor, workers
  <2> QED
    BY <1>1, <2>1, WorkerKept DEF WorkersInv
<1> QED
  BY <1>u, <1>A, <1>C, <1>D, <1>E DEF IndInv

LEMMA SettleHolds == ASSUME IndInv, Settle PROVE IndInv'
<1>1. /\ TypeOK /\ OwnerLocks /\ OwnerInv /\ ProcessInv /\ WorkersInv /\ StartupInv /\ RemovedInv
  BY DEF IndInv
<1>f. faults' \in 0..MaxFaults
  BY <1>1, FaultBounds DEF Settle, TypeOK
<1>t. /\ spc' \in SupervisorSteps
      /\ target' \in BOOLEAN
  BY <1>1, GenBounds DEF Settle, TypeOK, SupervisorSteps
<1>u. OwnerLocks' /\ StartupInv' /\ RemovedInv'
  BY <1>1 DEF Settle, OwnerLocks, StartupInv, RemovedInv, session, registry, owner, workers
<1>A. TypeOK'
  BY <1>1, <1>f, <1>t DEF Settle, TypeOK, session, registry, owner, supervisor, workers, Locking
<1>C. OwnerInv'
  BY <1>1, Actors DEF Settle, Fault, OwnerInv, Creating, Arming, Using, Completing, Deleted,
     HoldsGuard, HoldsFence, Retaining, validBinding, NoRecord, NoCapability, NoMarker, ProcessInv,
     RemovedInv, OwnerLocks, Locks, session, registry, owner, supervisor, workers
<1>D. ProcessInv'
  BY <1>1, Actors DEF Settle, Fault, ProcessInv, Dead, NoMarker, NoProof, OwnerInv, Creating, Arming,
     Using, Completing, Deleted, HoldsGuard, HoldsFence, Retaining, session, registry, owner,
     supervisor, workers
<1>E. WorkersInv'
  <2>1. ASSUME NEW q \in Recovery PROVE Leaves(q)
    BY <2>1, <1>1, Actors DEF Settle, Leaves, Dead, validBinding, Locks, Recovery, Workers, OwnerLocks,
       OwnerInv, ProcessInv, RemovedInv, Creating, Arming, Using, Completing, Deleted, HoldsGuard,
       HoldsFence, Retaining, session, registry, owner, supervisor, workers
  <2> QED
    BY <1>1, <2>1, WorkerKept DEF WorkersInv
<1> QED
  BY <1>u, <1>A, <1>C, <1>D, <1>E DEF IndInv

LEMMA PublishProofHolds == ASSUME IndInv, PublishProof PROVE IndInv'
<1>1. /\ TypeOK /\ OwnerLocks /\ OwnerInv /\ ProcessInv /\ WorkersInv /\ StartupInv /\ RemovedInv
  BY DEF IndInv
<1>r. gen \in 1..MaxGen
  BY <1>1, GenBounds DEF PublishProof, ProcessInv, TypeOK
<1>t. /\ proof' \in {NoProof} \cup [kind : {"notarget", "settled"}, gen : 1..MaxGen]
      /\ spc' \in SupervisorSteps
  BY <1>1, <1>r, GenBounds DEF PublishProof, TypeOK, SupervisorSteps
<1>u. OwnerLocks' /\ StartupInv' /\ RemovedInv'
  BY <1>1 DEF PublishProof, OwnerLocks, StartupInv, RemovedInv, registry, owner, workers
<1>A. TypeOK'
  BY <1>1, <1>t DEF PublishProof, TypeOK, session, registry, owner, supervisor, workers, Locking
<1>C. OwnerInv'
  BY <1>1, <1>r, Actors DEF PublishProof, OwnerInv, Creating, Arming, Using, Completing, Deleted,
     HoldsGuard, HoldsFence, Retaining, validBinding, NoRecord, NoCapability, NoMarker, ProcessInv,
     RemovedInv, OwnerLocks, Locks, session, registry, owner, supervisor, workers
<1>D. ProcessInv'
  BY <1>1, <1>r, Actors DEF PublishProof, ProcessInv, Dead, NoMarker, NoProof, OwnerInv, Creating,
     Arming, Using, Completing, Deleted, HoldsGuard, HoldsFence, Retaining, session, registry, owner,
     supervisor, workers
<1>E. WorkersInv'
  <2>1. ASSUME NEW q \in Recovery PROVE Leaves(q)
    BY <2>1, <1>1, <1>r, Actors DEF PublishProof, Leaves, Dead, validBinding, Locks, Recovery, Workers,
       OwnerLocks, OwnerInv, ProcessInv, RemovedInv, Creating, Arming, Using, Completing, Deleted,
       HoldsGuard, HoldsFence, Retaining, session, registry, owner, supervisor, workers
  <2> QED
    BY <1>1, <2>1, WorkerKept DEF WorkersInv
<1> QED
  BY <1>u, <1>A, <1>C, <1>D, <1>E DEF IndInv

LEMMA ReportHolds == ASSUME IndInv, Report PROVE IndInv'
<1>1. /\ TypeOK /\ OwnerLocks /\ OwnerInv /\ ProcessInv /\ WorkersInv /\ StartupInv /\ RemovedInv
  BY DEF IndInv
<1>t. /\ spc' \in SupervisorSteps
      /\ chan' \subseteq {"R", "S", "X"}
  BY <1>1, GenBounds DEF Report, TypeOK, SupervisorSteps
<1>u. OwnerLocks' /\ StartupInv' /\ RemovedInv'
  BY <1>1 DEF Report, OwnerLocks, StartupInv, RemovedInv, session, registry, owner, workers
<1>A. TypeOK'
  BY <1>1, <1>t DEF Report, TypeOK, session, registry, owner, supervisor, workers, Locking
<1>C. OwnerInv'
  BY <1>1, Actors DEF Report, OwnerInv, Creating, Arming, Using, Completing, Deleted, HoldsGuard,
     HoldsFence, Retaining, validBinding, NoRecord, NoCapability, NoMarker, ProcessInv, RemovedInv,
     OwnerLocks, Locks, session, registry, owner, supervisor, workers
<1>D. ProcessInv'
  BY <1>1, Actors DEF Report, ProcessInv, Dead, NoMarker, NoProof, OwnerInv, Creating, Arming, Using,
     Completing, Deleted, HoldsGuard, HoldsFence, Retaining, session, registry, owner, supervisor,
     workers
<1>E. WorkersInv'
  <2>1. ASSUME NEW q \in Recovery PROVE Leaves(q)
    BY <2>1, <1>1, Actors DEF Report, Leaves, Dead, validBinding, Locks, Recovery, Workers, OwnerLocks,
       OwnerInv, ProcessInv, RemovedInv, Creating, Arming, Using, Completing, Deleted, HoldsGuard,
       HoldsFence, Retaining, session, registry, owner, supervisor, workers
  <2> QED
    BY <1>1, <2>1, WorkerKept DEF WorkersInv
<1> QED
  BY <1>u, <1>A, <1>C, <1>D, <1>E DEF IndInv

LEMMA TargetExitsHolds == ASSUME IndInv, TargetExits PROVE IndInv'
<1>1. /\ TypeOK /\ OwnerLocks /\ OwnerInv /\ ProcessInv /\ WorkersInv /\ StartupInv /\ RemovedInv
  BY DEF IndInv
<1>t. /\ spc' \in SupervisorSteps
      /\ target' \in BOOLEAN
  BY <1>1, GenBounds DEF TargetExits, TypeOK, SupervisorSteps
<1>u. OwnerLocks' /\ StartupInv' /\ RemovedInv'
  BY <1>1 DEF TargetExits, OwnerLocks, StartupInv, RemovedInv, session, registry, owner, workers
<1>A. TypeOK'
  BY <1>1, <1>t DEF TargetExits, TypeOK, session, registry, owner, supervisor, workers, Locking
<1>C. OwnerInv'
  BY <1>1, Actors DEF TargetExits, OwnerInv, Creating, Arming, Using, Completing, Deleted, HoldsGuard,
     HoldsFence, Retaining, validBinding, NoRecord, NoCapability, NoMarker, ProcessInv, RemovedInv,
     OwnerLocks, Locks, session, registry, owner, supervisor, workers
<1>D. ProcessInv'
  BY <1>1, Actors DEF TargetExits, ProcessInv, Dead, NoMarker, NoProof, OwnerInv, Creating, Arming,
     Using, Completing, Deleted, HoldsGuard, HoldsFence, Retaining, session, registry, owner,
     supervisor, workers
<1>E. WorkersInv'
  <2>1. ASSUME NEW q \in Recovery PROVE Leaves(q)
    BY <2>1, <1>1, Actors DEF TargetExits, Leaves, Dead, validBinding, Locks, Recovery, Workers,
       OwnerLocks, OwnerInv, ProcessInv, RemovedInv, Creating, Arming, Using, Completing, Deleted,
       HoldsGuard, HoldsFence, Retaining, session, registry, owner, supervisor, workers
  <2> QED
    BY <1>1, <2>1, WorkerKept DEF WorkersInv
<1> QED
  BY <1>u, <1>A, <1>C, <1>D, <1>E DEF IndInv

LEMMA SupervisorDiesHolds == ASSUME IndInv, SupervisorDies PROVE IndInv'
<1>1. /\ TypeOK /\ OwnerLocks /\ OwnerInv /\ ProcessInv /\ WorkersInv /\ StartupInv /\ RemovedInv
  BY DEF IndInv
<1>f. faults' \in 0..MaxFaults
  BY <1>1, FaultBounds DEF SupervisorDies, TypeOK
<1>t. /\ spc' \in SupervisorSteps
  BY <1>1, GenBounds DEF SupervisorDies, TypeOK, SupervisorSteps
<1>u. OwnerLocks' /\ StartupInv' /\ RemovedInv'
  BY <1>1 DEF SupervisorDies, OwnerLocks, StartupInv, RemovedInv, session, registry, owner, workers
<1>A. TypeOK'
  BY <1>1, <1>f, <1>t DEF SupervisorDies, TypeOK, session, registry, owner, supervisor, workers, Locking
<1>C. OwnerInv'
  BY <1>1, Actors DEF SupervisorDies, Fault, OwnerInv, Creating, Arming, Using, Completing, Deleted,
     HoldsGuard, HoldsFence, Retaining, validBinding, NoRecord, NoCapability, NoMarker, ProcessInv,
     RemovedInv, OwnerLocks, Locks, session, registry, owner, supervisor, workers
<1>D. ProcessInv'
  BY <1>1, Actors DEF SupervisorDies, Fault, ProcessInv, Dead, NoMarker, NoProof, OwnerInv, Creating,
     Arming, Using, Completing, Deleted, HoldsGuard, HoldsFence, Retaining, session, registry, owner,
     supervisor, workers
<1>E. WorkersInv'
  <2>1. ASSUME NEW q \in Recovery PROVE Leaves(q)
    BY <2>1, <1>1, Actors DEF SupervisorDies, Leaves, Dead, validBinding, Locks, Recovery, Workers,
       OwnerLocks, OwnerInv, ProcessInv, RemovedInv, Creating, Arming, Using, Completing, Deleted,
       HoldsGuard, HoldsFence, Retaining, session, registry, owner, supervisor, workers
  <2> QED
    BY <1>1, <2>1, WorkerKept DEF WorkersInv
<1> QED
  BY <1>u, <1>A, <1>C, <1>D, <1>E DEF IndInv

LEMMA PruneRemovedHolds == ASSUME IndInv, PruneRemoved PROVE IndInv'
<1>1. /\ TypeOK /\ OwnerLocks /\ OwnerInv /\ ProcessInv /\ WorkersInv /\ StartupInv /\ RemovedInv
  BY DEF IndInv
<1>t. /\ rec' \in {NoRecord} \cup [st : RecordStates, gen : 1..MaxGen, comp : Gens]
      /\ stale' \subseteq Recovery
  BY <1>1, GenBounds DEF PruneRemoved, Free, completed, Outdate, TypeOK, RecordStates
<1>u. OwnerLocks' /\ ProcessInv' /\ StartupInv'
  BY <1>1 DEF PruneRemoved, OwnerLocks, ProcessInv, Dead, StartupInv, session, owner, supervisor,
     workers
<1>A. TypeOK'
  BY <1>1, <1>t DEF PruneRemoved, TypeOK, session, registry, owner, supervisor, workers, Locking
<1>C. OwnerInv'
  BY <1>1, Actors DEF PruneRemoved, Free, completed, Outdate, OwnerInv, Creating, Arming, Using,
     Completing, Deleted, HoldsGuard, HoldsFence, Retaining, validBinding, NoRecord, NoCapability,
     NoMarker, ProcessInv, RemovedInv, OwnerLocks, Locks, session, registry, owner, supervisor, workers
<1>E. WorkersInv'
  <2>1. ASSUME NEW q \in Recovery PROVE Leaves(q)
    BY <2>1, <1>1, Actors DEF PruneRemoved, Free, completed, Outdate, Leaves, Dead, validBinding,
       Locks, Recovery, Workers, OwnerLocks, OwnerInv, ProcessInv, RemovedInv, Creating, Arming, Using,
       Completing, Deleted, HoldsGuard, HoldsFence, Retaining, session, registry, owner, supervisor,
       workers
  <2> QED
    BY <1>1, <2>1, WorkerKept DEF WorkersInv
<1>G. RemovedInv'
  BY <1>1, Actors DEF PruneRemoved, Free, completed, Outdate, RemovedInv, NoRecord, NoCapability,
     OwnerInv, Completing, Deleted, session, registry, owner, supervisor, workers
<1> QED
  BY <1>u, <1>A, <1>C, <1>E, <1>G DEF IndInv

LEMMA LeaseOpenHolds == ASSUME IndInv, NEW p \in Recovery, LeaseOpen(p) PROVE IndInv'
<1>1. /\ TypeOK /\ OwnerLocks /\ OwnerInv /\ ProcessInv /\ WorkersInv /\ StartupInv /\ RemovedInv
  BY DEF IndInv
<1>a. /\ p \in Workers /\ p # Owner /\ p # Startup /\ p # Nobody
      /\ p \in Recovery /\ WorkerInv(p)
  BY <1>1, Actors DEF WorkersInv
<1>k. Locking(p)
  BY <1>1, Actors, <1>a DEF LeaseOpen, Locking, TypeOK, OwnerLocks, HoldsGuard, HoldsFence, Locks,
     WorkerInv, Deleting, Free, Return, Take, DropAll
<1>c. /\ pc' \in [Workers -> WorkerSteps]
      /\ \A q \in Workers \ {p} : pc'[q] = pc[q]
  BY <1>1, Actors DEF LeaseOpen, Goto, Return, TypeOK, WorkerSteps
<1>o. /\ auth' = auth
      /\ \/ pc'[p] = "flock" /\ lock'["coord"] = p /\ \A l \in Locks : lock[l] = p => lock'[l] = p
         \/ pc'[p] = "idle"
  BY <1>1, <1>a, Actors DEF LeaseOpen, Free, Goto, Return, Take, DropAll, allowUnprotected, TypeOK,
     Locks
<1>u. ProcessInv' /\ RemovedInv'
  BY <1>1 DEF LeaseOpen, ProcessInv, Dead, RemovedInv, session, registry, owner, supervisor
<1>A. TypeOK'
  BY <1>1, <1>k, <1>c DEF LeaseOpen, TypeOK, session, registry, owner, supervisor, workers, Locking
<1>B. OwnerLocks'
  BY <1>1, <1>a, <1>k, Actors, OwnerLocksKept DEF LeaseOpen, owner
<1>C. OwnerInv'
  BY <1>1, <1>a, <1>c, <1>o, Actors DEF LeaseOpen, allowUnprotected, OwnerInv, Creating, Arming, Using,
     Completing, Deleted, HoldsGuard, HoldsFence, Retaining, validBinding, NoRecord, NoCapability,
     NoMarker, WorkerInv, Deleting, Bound, Finishing, Typed, Untyped, OwnerLocks, session, registry,
     owner, supervisor, workers
<1>E. WorkersInv'
  <2>1. ASSUME NEW q \in Recovery \ {p} PROVE Leaves(q)
    BY <2>1, <1>1, <1>a, <1>k, <1>c, Actors DEF LeaseOpen, allowUnprotected, Leaves, Dead,
       validBinding, Locks, Recovery, Workers, Locking, WorkerInv, Deleting, Bound, Finishing, Typed,
       Untyped, session, registry, owner, supervisor, workers
  <2>2. WorkerInv(p)'
    BY <1>1, <1>a, <1>k, <1>c, <1>o, Actors DEF LeaseOpen, allowUnprotected, WorkerInv, Dead,
       validBinding, Locks, Deleting, Bound, Finishing, Typed, Untyped, Locking, session, registry,
       owner, supervisor, workers, OwnerInv, RemovedInv
  <2> QED
    BY <1>1, <2>1, <2>2, WorkerKept DEF WorkersInv
<1>F. StartupInv'
  BY <1>1, <1>a, <1>k, <1>c, <1>o, Actors DEF LeaseOpen, allowUnprotected, StartupInv, Deleted,
     Completing, Locks, session, registry, owner, supervisor, workers, Locking
<1> QED
  BY <1>u, <1>A, <1>B, <1>C, <1>E, <1>F DEF IndInv

LEMMA LeaseMissingHolds == ASSUME IndInv, NEW p \in Recovery, LeaseMissing(p) PROVE IndInv'
<1>1. /\ TypeOK /\ OwnerLocks /\ OwnerInv /\ ProcessInv /\ WorkersInv /\ StartupInv /\ RemovedInv
  BY DEF IndInv
<1>a. /\ p \in Workers /\ p # Owner /\ p # Startup /\ p # Nobody
      /\ p \in Recovery /\ WorkerInv(p)
  BY <1>1, Actors DEF WorkersInv
<1>r. \/ rec' = rec /\ stale' = stale
      \/ /\ rec.st # "removed" /\ rec' \in [st : RecordStates, gen : 1..MaxGen, comp : Gens]
         /\ rec'.st = "unknown" /\ rec'.gen = rec.gen /\ stale' = Recovery /\ lock["fence"] = p
  <2>1. CASE p \in Recoverers
    <3>1. rec # NoRecord /\ lock["fence"] = p
      BY <1>1, <1>a, <2>1, ValidExists DEF LeaseMissing, WorkerInv, Bound, Untyped
    <3> QED
      BY <1>1, <3>1, Restated DEF LeaseMissing, restrict, Outdate, RecordStates
  <2>2. CASE p \notin Recoverers
    BY <2>2 DEF LeaseMissing
  <2> QED
    BY <2>1, <2>2
<1>x. auth[p] = "untracked" => opc = "exit"
  BY <1>1, <1>a DEF LeaseMissing, WorkerInv, OwnerLocks
<1>y. opc = "rmguard" => guardFile'
  BY <1>1, Actors DEF LeaseMissing, OwnerInv, OwnerLocks, HoldsGuard, Free
<1>k. Locking(p)
  BY <1>1, Actors, <1>a DEF LeaseMissing, Locking, TypeOK, OwnerLocks, HoldsGuard, HoldsFence, Locks,
     WorkerInv, Deleting, Free, Return, DropAll
<1>c. /\ pc' \in [Workers -> WorkerSteps]
      /\ \A q \in Workers \ {p} : pc'[q] = pc[q]
  BY <1>1, Actors DEF LeaseMissing, Goto, Return, TypeOK, WorkerSteps
<1>t. /\ guardFile' \in BOOLEAN
      /\ prot' \in BOOLEAN
      /\ rec' \in {NoRecord} \cup [st : RecordStates, gen : 1..MaxGen, comp : Gens]
      /\ stale' \subseteq Recovery
  BY <1>1, <1>r, GenBounds DEF LeaseMissing, restrict, Outdate, TypeOK, RecordStates
<1>o. /\ auth' = auth
      /\ \/ pc'[p] = "wmarker" /\ auth[p] = "untracked" /\ rec' = rec /\ lock' = lock
         \/ pc'[p] = "idle"
  BY <1>1, <1>a, Actors DEF LeaseMissing, Free, Goto, Return, DropAll, restrict, Outdate, TypeOK, Locks
<1>A. TypeOK'
  BY <1>1, <1>k, <1>c, <1>t DEF LeaseMissing, TypeOK, session, registry, owner, supervisor, workers,
     Locking
<1>B. OwnerLocks'
  BY <1>1, <1>a, <1>k, Actors, OwnerLocksKept DEF LeaseMissing, owner
<1>C. OwnerInv'
  BY <1>1, <1>a, <1>r, <1>x, <1>y, <1>c, <1>o, Actors DEF LeaseMissing, restrict, Outdate, OwnerInv,
     Creating, Arming, Using, Completing, Deleted, HoldsGuard, HoldsFence, Retaining, validBinding,
     NoRecord, NoCapability, NoMarker, WorkerInv, Deleting, Bound, Finishing, Typed, Untyped,
     OwnerLocks, session, registry, owner, supervisor, workers
<1>D. ProcessInv'
  BY <1>1, <1>a, <1>r, <1>x, <1>y, <1>c, <1>o, Actors DEF LeaseMissing, restrict, Outdate, ProcessInv,
     Dead, NoMarker, NoProof, WorkerInv, OwnerInv, Creating, Arming, Using, Completing, Deleted,
     HoldsGuard, HoldsFence, Retaining, Deleting, Bound, Finishing, Typed, Untyped, session, registry,
     owner, supervisor, workers
<1>E. WorkersInv'
  <2>1. ASSUME NEW q \in Recovery \ {p} PROVE Leaves(q)
    BY <2>1, <1>1, <1>a, <1>r, <1>x, <1>y, <1>k, <1>c, Actors DEF LeaseMissing, restrict, Outdate,
       Leaves, Dead, validBinding, Locks, Recovery, Workers, Locking, WorkerInv, Deleting, Bound,
       Finishing, Typed, Untyped, session, registry, owner, supervisor, workers
  <2>2. WorkerInv(p)'
    BY <1>1, <1>a, <1>r, <1>x, <1>y, <1>k, <1>c, <1>o, Actors DEF LeaseMissing, restrict, Outdate,
       WorkerInv, Dead, validBinding, Locks, Deleting, Bound, Finishing, Typed, Untyped, Locking,
       session, registry, owner, supervisor, workers, OwnerInv, RemovedInv
  <2> QED
    BY <1>1, <2>1, <2>2, WorkerKept DEF WorkersInv
<1>F. StartupInv'
  BY <1>1, <1>a, <1>r, <1>x, <1>y, <1>k, <1>c, <1>o, Actors DEF LeaseMissing, restrict, Outdate,
     StartupInv, Deleted, Completing, Locks, session, registry, owner, supervisor, workers, Locking
<1>G. RemovedInv'
  BY <1>1, <1>a, <1>r, <1>x, <1>y, <1>c, <1>o, Actors DEF LeaseMissing, restrict, Outdate, RemovedInv,
     NoRecord, NoCapability, WorkerInv, Deleting, Bound, Finishing, Typed, Untyped, session, registry,
     owner, supervisor, workers
<1> QED
  BY <1>A, <1>B, <1>C, <1>D, <1>E, <1>F, <1>G DEF IndInv

LEMMA LeaseLockHolds == ASSUME IndInv, NEW p \in Recovery, LeaseLock(p) PROVE IndInv'
<1>1. /\ TypeOK /\ OwnerLocks /\ OwnerInv /\ ProcessInv /\ WorkersInv /\ StartupInv /\ RemovedInv
  BY DEF IndInv
<1>a. /\ p \in Workers /\ p # Owner /\ p # Startup /\ p # Nobody
      /\ p \in Recovery /\ WorkerInv(p)
  BY <1>1, Actors DEF WorkersInv
<1>k. Locking(p)
  BY <1>1, Actors, <1>a DEF LeaseLock, Locking, TypeOK, OwnerLocks, HoldsGuard, HoldsFence, Locks,
     WorkerInv, Deleting, Free, Return, Drop, DropAll
<1>c. /\ pc' \in [Workers -> WorkerSteps]
      /\ \A q \in Workers \ {p} : pc'[q] = pc[q]
  BY <1>1, Actors DEF LeaseLock, Goto, Return, TypeOK, WorkerSteps
<1>o. /\ auth' = auth
      /\ \/ pc'[p] = "verify" /\ lock'["guard"] = p /\ lock'["id"] = lock["id"] /\ lock'["fence"] = lock["fence"]
         \/ pc'[p] = "idle"
  BY <1>1, <1>a, Actors DEF LeaseLock, Free, Goto, Return, Drop, DropAll, TypeOK, Locks
<1>u. ProcessInv' /\ RemovedInv'
  BY <1>1 DEF LeaseLock, ProcessInv, Dead, RemovedInv, session, registry, owner, supervisor
<1>A. TypeOK'
  BY <1>1, <1>k, <1>c DEF LeaseLock, TypeOK, session, registry, owner, supervisor, workers, Locking
<1>B. OwnerLocks'
  BY <1>1, <1>a, <1>k, Actors, OwnerLocksKept DEF LeaseLock, owner
<1>C. OwnerInv'
  BY <1>1, <1>a, <1>c, <1>o, Actors DEF LeaseLock, OwnerInv, Creating, Arming, Using, Completing,
     Deleted, HoldsGuard, HoldsFence, Retaining, validBinding, NoRecord, NoCapability, NoMarker,
     WorkerInv, Deleting, Bound, Finishing, Typed, Untyped, OwnerLocks, session, registry, owner,
     supervisor, workers
<1>E. WorkersInv'
  <2>1. ASSUME NEW q \in Recovery \ {p} PROVE Leaves(q)
    BY <2>1, <1>1, <1>a, <1>k, <1>c, Actors DEF LeaseLock, Leaves, Dead, validBinding, Locks, Recovery,
       Workers, Locking, WorkerInv, Deleting, Bound, Finishing, Typed, Untyped, session, registry,
       owner, supervisor, workers
  <2>2. WorkerInv(p)'
    BY <1>1, <1>a, <1>k, <1>c, <1>o, Actors DEF LeaseLock, WorkerInv, Dead, validBinding, Locks,
       Deleting, Bound, Finishing, Typed, Untyped, Locking, session, registry, owner, supervisor,
       workers, OwnerInv, RemovedInv
  <2> QED
    BY <1>1, <2>1, <2>2, WorkerKept DEF WorkersInv
<1>F. StartupInv'
  BY <1>1, <1>a, <1>k, <1>c, <1>o, Actors DEF LeaseLock, StartupInv, Deleted, Completing, Locks,
     session, registry, owner, supervisor, workers, Locking
<1> QED
  BY <1>u, <1>A, <1>B, <1>C, <1>E, <1>F DEF IndInv

LEMMA RecoveredRootHolds == ASSUME IndInv, NEW p \in Recovery, RecoveredRoot(p) PROVE IndInv'
<1>1. /\ TypeOK /\ OwnerLocks /\ OwnerInv /\ ProcessInv /\ WorkersInv /\ StartupInv /\ RemovedInv
  BY DEF IndInv
<1>a. /\ p \in Workers /\ p # Owner /\ p # Startup /\ p # Nobody
      /\ p \in Recovery /\ WorkerInv(p)
  BY <1>1, Actors DEF WorkersInv
<1>k. Locking(p)
  BY <1>1, Actors, <1>a DEF RecoveredRoot, Locking, TypeOK, OwnerLocks, HoldsGuard, HoldsFence, Locks,
     WorkerInv, Deleting, Free, Take
<1>c. /\ pc' \in [Workers -> WorkerSteps]
      /\ \A q \in Workers \ {p} : pc'[q] = pc[q]
  BY <1>1, Actors DEF RecoveredRoot, Goto, TypeOK, WorkerSteps
<1>t. /\ root' \in BOOLEAN
      /\ proof' \in {NoProof} \cup [kind : {"notarget", "settled"}, gen : 1..MaxGen]
      /\ lbind' \in Gens
  BY <1>1, GenBounds DEF RecoveredRoot, TypeOK
<1>o. /\ auth' = auth
      /\ \/ pc'[p] = "rmguard" /\ lock'["coord"] = p /\ \A l \in Locks : lock[l] = p => lock'[l] = p
  BY <1>1, <1>a, Actors DEF RecoveredRoot, Free, Take, Goto, TypeOK, Locks
<1>A. TypeOK'
  BY <1>1, <1>k, <1>c, <1>t DEF RecoveredRoot, TypeOK, session, registry, owner, supervisor, workers,
     Locking
<1>B. OwnerLocks'
  BY <1>1, <1>a, <1>k, Actors, OwnerLocksKept DEF RecoveredRoot, owner
<1>C. OwnerInv'
  BY <1>1, <1>a, <1>c, <1>o, Actors DEF RecoveredRoot, OwnerInv, Creating, Arming, Using, Completing,
     Deleted, HoldsGuard, HoldsFence, Retaining, validBinding, NoRecord, NoCapability, NoMarker,
     WorkerInv, Deleting, Bound, Finishing, Typed, Untyped, OwnerLocks, session, registry, owner,
     supervisor, workers
<1>D. ProcessInv'
  BY <1>1, <1>a, <1>c, <1>o, Actors DEF RecoveredRoot, ProcessInv, Dead, NoMarker, NoProof, WorkerInv,
     OwnerInv, Creating, Arming, Using, Completing, Deleted, HoldsGuard, HoldsFence, Retaining,
     Deleting, Bound, Finishing, Typed, Untyped, session, registry, owner, supervisor, workers
<1>E. WorkersInv'
  <2>1. ASSUME NEW q \in Recovery \ {p} PROVE Leaves(q)
    BY <2>1, <1>1, <1>a, <1>k, <1>c, Actors DEF RecoveredRoot, Leaves, Dead, validBinding, Locks,
       Recovery, Workers, Locking, WorkerInv, Deleting, Bound, Finishing, Typed, Untyped, session,
       registry, owner, supervisor, workers
  <2>2. WorkerInv(p)'
    BY <1>1, <1>a, <1>k, <1>c, <1>o, Actors DEF RecoveredRoot, WorkerInv, Dead, validBinding, Locks,
       Deleting, Bound, Finishing, Typed, Untyped, Locking, session, registry, owner, supervisor,
       workers, OwnerInv, RemovedInv
  <2> QED
    BY <1>1, <2>1, <2>2, WorkerKept DEF WorkersInv
<1>F. StartupInv'
  BY <1>1, <1>a, <1>k, <1>c, <1>o, Actors DEF RecoveredRoot, StartupInv, Deleted, Completing, Locks,
     session, registry, owner, supervisor, workers, Locking
<1>G. RemovedInv'
  BY <1>1, <1>a, <1>c, <1>o, Actors DEF RecoveredRoot, RemovedInv, NoRecord, NoCapability, WorkerInv,
     Deleting, Bound, Finishing, Typed, Untyped, session, registry, owner, supervisor, workers
<1> QED
  BY <1>A, <1>B, <1>C, <1>D, <1>E, <1>F, <1>G DEF IndInv

LEMMA RecoveredRootFailsHolds == ASSUME IndInv, NEW p \in Recovery, RecoveredRootFails(p) PROVE IndInv'
<1>1. /\ TypeOK /\ OwnerLocks /\ OwnerInv /\ ProcessInv /\ WorkersInv /\ StartupInv /\ RemovedInv
  BY DEF IndInv
<1>a. /\ p \in Workers /\ p # Owner /\ p # Startup /\ p # Nobody
      /\ p \in Recovery /\ WorkerInv(p)
  BY <1>1, Actors DEF WorkersInv
<1>k. Locking(p)
  BY <1>1, Actors, <1>a DEF RecoveredRootFails, Locking, TypeOK, OwnerLocks, HoldsGuard, HoldsFence,
     Locks, WorkerInv, Deleting, Free, Return, DropAll
<1>f. faults' \in 0..MaxFaults
  BY <1>1, FaultBounds DEF RecoveredRootFails, Free, incompleteRemoveAll, Return, Goto, DropAll, TypeOK
<1>c. /\ pc' \in [Workers -> WorkerSteps]
      /\ \A q \in Workers \ {p} : pc'[q] = pc[q]
  BY <1>1, Actors DEF RecoveredRootFails, Goto, Return, TypeOK, WorkerSteps
<1>t. /\ proof' \in {NoProof} \cup [kind : {"notarget", "settled"}, gen : 1..MaxGen]
      /\ lbind' \in Gens
  BY <1>1, GenBounds DEF RecoveredRootFails, incompleteRemoveAll, TypeOK
<1>o. /\ auth' = auth
      /\ \/ pc'[p] = "idle"
  BY <1>1, <1>a, Actors DEF RecoveredRootFails, Free, Fault, incompleteRemoveAll, Return, Goto,
     DropAll, TypeOK, Locks
<1>u. RemovedInv'
  BY <1>1 DEF RecoveredRootFails, RemovedInv, registry, owner, supervisor
<1>A. TypeOK'
  BY <1>1, <1>k, <1>f, <1>c, <1>t DEF RecoveredRootFails, TypeOK, session, registry, owner, supervisor,
     workers, Locking
<1>B. OwnerLocks'
  BY <1>1, <1>a, <1>k, Actors, OwnerLocksKept DEF RecoveredRootFails, owner
<1>C. OwnerInv'
  BY <1>1, <1>a, <1>c, <1>o, Actors DEF RecoveredRootFails, incompleteRemoveAll, OwnerInv, Creating,
     Arming, Using, Completing, Deleted, HoldsGuard, HoldsFence, Retaining, validBinding, NoRecord,
     NoCapability, NoMarker, WorkerInv, Deleting, Bound, Finishing, Typed, Untyped, OwnerLocks,
     session, registry, owner, supervisor, workers
<1>D. ProcessInv'
  BY <1>1, <1>a, <1>c, <1>o, Actors DEF RecoveredRootFails, incompleteRemoveAll, ProcessInv, Dead,
     NoMarker, NoProof, WorkerInv, OwnerInv, Creating, Arming, Using, Completing, Deleted, HoldsGuard,
     HoldsFence, Retaining, Deleting, Bound, Finishing, Typed, Untyped, session, registry, owner,
     supervisor, workers
<1>E. WorkersInv'
  <2>1. ASSUME NEW q \in Recovery \ {p} PROVE Leaves(q)
    BY <2>1, <1>1, <1>a, <1>k, <1>c, Actors DEF RecoveredRootFails, incompleteRemoveAll, Leaves, Dead,
       validBinding, Locks, Recovery, Workers, Locking, WorkerInv, Deleting, Bound, Finishing, Typed,
       Untyped, session, registry, owner, supervisor, workers
  <2>2. WorkerInv(p)'
    BY <1>1, <1>a, <1>k, <1>c, <1>o, Actors DEF RecoveredRootFails, incompleteRemoveAll, WorkerInv,
       Dead, validBinding, Locks, Deleting, Bound, Finishing, Typed, Untyped, Locking, session,
       registry, owner, supervisor, workers, OwnerInv, RemovedInv
  <2> QED
    BY <1>1, <2>1, <2>2, WorkerKept DEF WorkersInv
<1>F. StartupInv'
  BY <1>1, <1>a, <1>k, <1>c, <1>o, Actors DEF RecoveredRootFails, incompleteRemoveAll, StartupInv,
     Deleted, Completing, Locks, session, registry, owner, supervisor, workers, Locking
<1> QED
  BY <1>u, <1>A, <1>B, <1>C, <1>D, <1>E, <1>F DEF IndInv

LEMMA RecoveredGuardHolds == ASSUME IndInv, NEW p \in Recovery, RecoveredGuard(p) PROVE IndInv'
<1>1. /\ TypeOK /\ OwnerLocks /\ OwnerInv /\ ProcessInv /\ WorkersInv /\ StartupInv /\ RemovedInv
  BY DEF IndInv
<1>a. /\ p \in Workers /\ p # Owner /\ p # Startup /\ p # Nobody
      /\ p \in Recovery /\ WorkerInv(p)
  BY <1>1, Actors DEF WorkersInv
<1>c. /\ pc' \in [Workers -> WorkerSteps]
      /\ \A q \in Workers \ {p} : pc'[q] = pc[q]
  BY <1>1, Actors DEF RecoveredGuard, Goto, TypeOK, WorkerSteps
<1>t. /\ guardFile' \in BOOLEAN
  BY <1>1, GenBounds DEF RecoveredGuard, TypeOK
<1>o. /\ auth' = auth
      /\ \/ pc'[p] = "rmprot"
  BY <1>1, <1>a, Actors DEF RecoveredGuard, Goto, TypeOK, Locks
<1>u. OwnerLocks' /\ ProcessInv' /\ RemovedInv'
  BY <1>1 DEF RecoveredGuard, OwnerLocks, ProcessInv, Dead, RemovedInv, registry, owner, supervisor
<1>A. TypeOK'
  BY <1>1, <1>c, <1>t DEF RecoveredGuard, TypeOK, session, registry, owner, supervisor, workers, Locking
<1>C. OwnerInv'
  BY <1>1, <1>a, <1>c, <1>o, Actors DEF RecoveredGuard, OwnerInv, Creating, Arming, Using, Completing,
     Deleted, HoldsGuard, HoldsFence, Retaining, validBinding, NoRecord, NoCapability, NoMarker,
     WorkerInv, Deleting, Bound, Finishing, Typed, Untyped, OwnerLocks, session, registry, owner,
     supervisor, workers
<1>E. WorkersInv'
  <2>1. ASSUME NEW q \in Recovery \ {p} PROVE Leaves(q)
    BY <2>1, <1>1, <1>a, <1>c, Actors DEF RecoveredGuard, Leaves, Dead, validBinding, Locks, Recovery,
       Workers, WorkerInv, Deleting, Bound, Finishing, Typed, Untyped, session, registry, owner,
       supervisor, workers
  <2>2. WorkerInv(p)'
    BY <1>1, <1>a, <1>c, <1>o, Actors DEF RecoveredGuard, WorkerInv, Dead, validBinding, Locks,
       Deleting, Bound, Finishing, Typed, Untyped, session, registry, owner, supervisor, workers,
       OwnerInv, RemovedInv
  <2> QED
    BY <1>1, <2>1, <2>2, WorkerKept DEF WorkersInv
<1>F. StartupInv'
  BY <1>1, <1>a, <1>c, <1>o, Actors DEF RecoveredGuard, StartupInv, Deleted, Completing, Locks,
     session, registry, owner, supervisor, workers
<1> QED
  BY <1>u, <1>A, <1>C, <1>E, <1>F DEF IndInv

LEMMA RecoveredProtectionHolds == ASSUME IndInv, NEW p \in Recovery, RecoveredProtection(p) PROVE IndInv'
<1>1. /\ TypeOK /\ OwnerLocks /\ OwnerInv /\ ProcessInv /\ WorkersInv /\ StartupInv /\ RemovedInv
  BY DEF IndInv
<1>a. /\ p \in Workers /\ p # Owner /\ p # Startup /\ p # Nobody
      /\ p \in Recovery /\ WorkerInv(p)
  BY <1>1, Actors DEF WorkersInv
<1>k. Locking(p)
  BY <1>1, Actors, <1>a DEF RecoveredProtection, Locking, TypeOK, OwnerLocks, HoldsGuard, HoldsFence,
     Locks, WorkerInv, Deleting, Drop
<1>c. /\ pc' \in [Workers -> WorkerSteps]
      /\ \A q \in Workers \ {p} : pc'[q] = pc[q]
  BY <1>1, Actors DEF RecoveredProtection, Goto, TypeOK, WorkerSteps
<1>t. /\ prot' \in BOOLEAN
  BY <1>1, GenBounds DEF RecoveredProtection, TypeOK
<1>o. /\ auth' = auth
      /\ \/ pc'[p] = (IF auth[p] = "untracked" THEN "wmarker" ELSE "wcap") /\ lock'["id"] = lock["id"] /\ lock'["fence"] = lock["fence"]
  BY <1>1, <1>a, Actors DEF RecoveredProtection, Drop, Goto, TypeOK, Locks
<1>u. RemovedInv'
  BY <1>1 DEF RecoveredProtection, RemovedInv, registry, owner, supervisor
<1>A. TypeOK'
  BY <1>1, <1>k, <1>c, <1>t DEF RecoveredProtection, TypeOK, session, registry, owner, supervisor,
     workers, Locking
<1>B. OwnerLocks'
  BY <1>1, <1>a, <1>k, Actors, OwnerLocksKept DEF RecoveredProtection, owner
<1>C. OwnerInv'
  BY <1>1, <1>a, <1>c, <1>o, Actors DEF RecoveredProtection, OwnerInv, Creating, Arming, Using,
     Completing, Deleted, HoldsGuard, HoldsFence, Retaining, validBinding, NoRecord, NoCapability,
     NoMarker, WorkerInv, Deleting, Bound, Finishing, Typed, Untyped, OwnerLocks, session, registry,
     owner, supervisor, workers
<1>D. ProcessInv'
  BY <1>1, <1>a, <1>c, <1>o, Actors DEF RecoveredProtection, ProcessInv, Dead, NoMarker, NoProof,
     WorkerInv, OwnerInv, Creating, Arming, Using, Completing, Deleted, HoldsGuard, HoldsFence,
     Retaining, Deleting, Bound, Finishing, Typed, Untyped, session, registry, owner, supervisor,
     workers
<1>E. WorkersInv'
  <2>1. ASSUME NEW q \in Recovery \ {p} PROVE Leaves(q)
    BY <2>1, <1>1, <1>a, <1>k, <1>c, Actors DEF RecoveredProtection, Leaves, Dead, validBinding, Locks,
       Recovery, Workers, Locking, WorkerInv, Deleting, Bound, Finishing, Typed, Untyped, session,
       registry, owner, supervisor, workers
  <2>2. WorkerInv(p)'
    BY <1>1, <1>a, <1>k, <1>c, <1>o, Actors DEF RecoveredProtection, WorkerInv, Dead, validBinding,
       Locks, Deleting, Bound, Finishing, Typed, Untyped, Locking, session, registry, owner,
       supervisor, workers, OwnerInv, RemovedInv
  <2> QED
    BY <1>1, <2>1, <2>2, WorkerKept DEF WorkersInv
<1>F. StartupInv'
  BY <1>1, <1>a, <1>k, <1>c, <1>o, Actors DEF RecoveredProtection, StartupInv, Deleted, Completing,
     Locks, session, registry, owner, supervisor, workers, Locking
<1> QED
  BY <1>u, <1>A, <1>B, <1>C, <1>D, <1>E, <1>F DEF IndInv

LEMMA CompleteCapabilityHolds == ASSUME IndInv, NEW p \in Recovery, CompleteCapability(p) PROVE IndInv'
<1>1. /\ TypeOK /\ OwnerLocks /\ OwnerInv /\ ProcessInv /\ WorkersInv /\ StartupInv /\ RemovedInv
  BY DEF IndInv
<1>a. /\ p \in Workers /\ p # Owner /\ p # Startup /\ p # Nobody
      /\ p \in Recovery /\ WorkerInv(p)
  BY <1>1, Actors DEF WorkersInv
<1>r. cap' \in [gen : 1..MaxGen, removed : BOOLEAN] /\ cap'.removed /\ cap'.gen = cap.gen
  <2>1. cap # NoCapability
    BY <1>1, <1>a, ValidExists DEF CompleteCapability, WorkerInv, Bound, Deleting, Typed, Untyped,
       TypeOK, RemovedInv, Finishing
  <2> QED
    BY <1>1, <2>1, CapabilityRemoved DEF CompleteCapability
<1>c. /\ pc' \in [Workers -> WorkerSteps]
      /\ \A q \in Workers \ {p} : pc'[q] = pc[q]
  BY <1>1, Actors DEF CompleteCapability, Goto, TypeOK, WorkerSteps
<1>t. /\ cap' \in {NoCapability} \cup [gen : 1..MaxGen, removed : BOOLEAN]
      /\ stale' \subseteq Recovery
  BY <1>1, <1>r, GenBounds DEF CompleteCapability, Outdate, TypeOK
<1>o. /\ auth' = auth
      /\ \/ pc'[p] = "wrec"
  BY <1>1, <1>a, Actors DEF CompleteCapability, Outdate, Goto, TypeOK, Locks
<1>u. OwnerLocks' /\ ProcessInv'
  BY <1>1 DEF CompleteCapability, OwnerLocks, ProcessInv, Dead, session, owner, supervisor
<1>A. TypeOK'
  BY <1>1, <1>c, <1>t DEF CompleteCapability, TypeOK, session, registry, owner, supervisor, workers,
     Locking
<1>C. OwnerInv'
  BY <1>1, <1>a, <1>r, <1>c, <1>o, Actors DEF CompleteCapability, Outdate, OwnerInv, Creating, Arming,
     Using, Completing, Deleted, HoldsGuard, HoldsFence, Retaining, validBinding, NoRecord,
     NoCapability, NoMarker, WorkerInv, Deleting, Bound, Finishing, Typed, Untyped, OwnerLocks,
     session, registry, owner, supervisor, workers
<1>E. WorkersInv'
  <2>1. ASSUME NEW q \in Recovery \ {p} PROVE Leaves(q)
    BY <2>1, <1>1, <1>a, <1>r, <1>c, Actors DEF CompleteCapability, Outdate, Leaves, Dead,
       validBinding, Locks, Recovery, Workers, WorkerInv, Deleting, Bound, Finishing, Typed, Untyped,
       session, registry, owner, supervisor, workers
  <2>2. WorkerInv(p)'
    BY <1>1, <1>a, <1>r, <1>c, <1>o, Actors DEF CompleteCapability, Outdate, WorkerInv, Dead,
       validBinding, Locks, Deleting, Bound, Finishing, Typed, Untyped, session, registry, owner,
       supervisor, workers, OwnerInv, RemovedInv
  <2> QED
    BY <1>1, <2>1, <2>2, WorkerKept DEF WorkersInv
<1>F. StartupInv'
  BY <1>1, <1>a, <1>r, <1>c, <1>o, Actors DEF CompleteCapability, Outdate, StartupInv, Deleted,
     Completing, Locks, session, registry, owner, supervisor, workers
<1>G. RemovedInv'
  BY <1>1, <1>a, <1>r, <1>c, <1>o, Actors DEF CompleteCapability, Outdate, RemovedInv, NoRecord,
     NoCapability, WorkerInv, Deleting, Bound, Finishing, Typed, Untyped, session, registry, owner,
     supervisor, workers
<1> QED
  BY <1>u, <1>A, <1>C, <1>E, <1>F, <1>G DEF IndInv

LEMMA CompleteRecordHolds == ASSUME IndInv, NEW p \in Recovery, CompleteRecord(p) PROVE IndInv'
<1>1. /\ TypeOK /\ OwnerLocks /\ OwnerInv /\ ProcessInv /\ WorkersInv /\ StartupInv /\ RemovedInv
  BY DEF IndInv
<1>a. /\ p \in Workers /\ p # Owner /\ p # Startup /\ p # Nobody
      /\ p \in Recovery /\ WorkerInv(p)
  BY <1>1, Actors DEF WorkersInv
<1>r. rec' \in [st : RecordStates, gen : 1..MaxGen, comp : Gens] /\ rec'.st = "removed" /\ rec'.gen = rec.gen
  <2>1. rec # NoRecord
    BY <1>1, <1>a, ValidExists DEF CompleteRecord, WorkerInv, Bound, Finishing
  <2> QED
    BY <1>1, <2>1, RecordRemoved DEF CompleteRecord
<1>c. /\ pc' \in [Workers -> WorkerSteps]
      /\ \A q \in Workers \ {p} : pc'[q] = pc[q]
  BY <1>1, Actors DEF CompleteRecord, Goto, TypeOK, WorkerSteps
<1>t. /\ rec' \in {NoRecord} \cup [st : RecordStates, gen : 1..MaxGen, comp : Gens]
      /\ stale' \subseteq Recovery
  BY <1>1, <1>r, GenBounds DEF CompleteRecord, Outdate, TypeOK, RecordStates
<1>o. /\ auth' = auth
      /\ \/ pc'[p] = "wmarker"
  BY <1>1, <1>a, Actors DEF CompleteRecord, Outdate, Goto, TypeOK, Locks
<1>u. OwnerLocks' /\ ProcessInv'
  BY <1>1 DEF CompleteRecord, OwnerLocks, ProcessInv, Dead, session, owner, supervisor
<1>A. TypeOK'
  BY <1>1, <1>c, <1>t DEF CompleteRecord, TypeOK, session, registry, owner, supervisor, workers, Locking
<1>C. OwnerInv'
  BY <1>1, <1>a, <1>r, <1>c, <1>o, Actors DEF CompleteRecord, Outdate, OwnerInv, Creating, Arming,
     Using, Completing, Deleted, HoldsGuard, HoldsFence, Retaining, validBinding, NoRecord,
     NoCapability, NoMarker, WorkerInv, Deleting, Bound, Finishing, Typed, Untyped, OwnerLocks,
     session, registry, owner, supervisor, workers
<1>E. WorkersInv'
  <2>1. ASSUME NEW q \in Recovery \ {p} PROVE Leaves(q)
    BY <2>1, <1>1, <1>a, <1>r, <1>c, Actors DEF CompleteRecord, Outdate, Leaves, Dead, validBinding,
       Locks, Recovery, Workers, WorkerInv, Deleting, Bound, Finishing, Typed, Untyped, session,
       registry, owner, supervisor, workers
  <2>2. WorkerInv(p)'
    BY <1>1, <1>a, <1>r, <1>c, <1>o, Actors DEF CompleteRecord, Outdate, WorkerInv, Dead, validBinding,
       Locks, Deleting, Bound, Finishing, Typed, Untyped, session, registry, owner, supervisor,
       workers, OwnerInv, RemovedInv
  <2> QED
    BY <1>1, <2>1, <2>2, WorkerKept DEF WorkersInv
<1>F. StartupInv'
  BY <1>1, <1>a, <1>r, <1>c, <1>o, Actors DEF CompleteRecord, Outdate, StartupInv, Deleted, Completing,
     Locks, session, registry, owner, supervisor, workers
<1>G. RemovedInv'
  BY <1>1, <1>a, <1>r, <1>c, <1>o, Actors DEF CompleteRecord, Outdate, RemovedInv, NoRecord,
     NoCapability, WorkerInv, Deleting, Bound, Finishing, Typed, Untyped, session, registry, owner,
     supervisor, workers
<1> QED
  BY <1>u, <1>A, <1>C, <1>E, <1>F, <1>G DEF IndInv

LEMMA CompleteMarkerHolds == ASSUME IndInv, NEW p \in Recovery, CompleteMarker(p) PROVE IndInv'
<1>1. /\ TypeOK /\ OwnerLocks /\ OwnerInv /\ ProcessInv /\ WorkersInv /\ StartupInv /\ RemovedInv
  BY DEF IndInv
<1>a. /\ p \in Workers /\ p # Owner /\ p # Startup /\ p # Nobody
      /\ p \in Recovery /\ WorkerInv(p)
  BY <1>1, Actors DEF WorkersInv
<1>k. Locking(p)
  BY <1>1, Actors, <1>a DEF CompleteMarker, Locking, TypeOK, OwnerLocks, HoldsGuard, HoldsFence, Locks,
     WorkerInv, Deleting, Return, DropAll
<1>c. /\ pc' \in [Workers -> WorkerSteps]
      /\ \A q \in Workers \ {p} : pc'[q] = pc[q]
  BY <1>1, Actors DEF CompleteMarker, Goto, Return, TypeOK, WorkerSteps
<1>t. /\ marker' \in {NoMarker} \cup [phase : {"prepared", "pending", "recoverable"}, chal : Gens]
  BY <1>1, GenBounds DEF CompleteMarker, TypeOK
<1>o. /\ auth' = auth
      /\ \/ pc'[p] = "idle"
         \/ pc'[p] = "wbind" /\ auth[p] # "untracked" /\ lock' = lock
  BY <1>1, <1>a, Actors DEF CompleteMarker, Goto, Return, DropAll, TypeOK, Locks
<1>u. RemovedInv'
  BY <1>1 DEF CompleteMarker, RemovedInv, session, registry, owner, supervisor
<1>A. TypeOK'
  BY <1>1, <1>k, <1>c, <1>t DEF CompleteMarker, TypeOK, session, registry, owner, supervisor, workers,
     Locking
<1>B. OwnerLocks'
  BY <1>1, <1>a, <1>k, Actors, OwnerLocksKept DEF CompleteMarker, owner
<1>C. OwnerInv'
  BY <1>1, <1>a, <1>c, <1>o, Actors DEF CompleteMarker, OwnerInv, Creating, Arming, Using, Completing,
     Deleted, HoldsGuard, HoldsFence, Retaining, validBinding, NoRecord, NoCapability, NoMarker,
     WorkerInv, Deleting, Bound, Finishing, Typed, Untyped, OwnerLocks, session, registry, owner,
     supervisor, workers
<1>D. ProcessInv'
  BY <1>1, <1>a, <1>c, <1>o, Actors DEF CompleteMarker, ProcessInv, Dead, NoMarker, NoProof, WorkerInv,
     OwnerInv, Creating, Arming, Using, Completing, Deleted, HoldsGuard, HoldsFence, Retaining,
     Deleting, Bound, Finishing, Typed, Untyped, session, registry, owner, supervisor, workers
<1>E. WorkersInv'
  <2>1. ASSUME NEW q \in Recovery \ {p} PROVE Leaves(q)
    BY <2>1, <1>1, <1>a, <1>k, <1>c, Actors DEF CompleteMarker, Leaves, Dead, validBinding, Locks,
       Recovery, Workers, Locking, WorkerInv, Deleting, Bound, Finishing, Typed, Untyped, session,
       registry, owner, supervisor, workers
  <2>2. WorkerInv(p)'
    BY <1>1, <1>a, <1>k, <1>c, <1>o, Actors DEF CompleteMarker, WorkerInv, Dead, validBinding, Locks,
       Deleting, Bound, Finishing, Typed, Untyped, Locking, session, registry, owner, supervisor,
       workers, OwnerInv, RemovedInv
  <2> QED
    BY <1>1, <2>1, <2>2, WorkerKept DEF WorkersInv
<1>F. StartupInv'
  BY <1>1, <1>a, <1>k, <1>c, <1>o, Actors DEF CompleteMarker, StartupInv, Deleted, Completing, Locks,
     session, registry, owner, supervisor, workers, Locking
<1> QED
  BY <1>u, <1>A, <1>B, <1>C, <1>D, <1>E, <1>F DEF IndInv

LEMMA CompleteBindingHolds == ASSUME IndInv, NEW p \in Recovery, CompleteBinding(p) PROVE IndInv'
<1>1. /\ TypeOK /\ OwnerLocks /\ OwnerInv /\ ProcessInv /\ WorkersInv /\ StartupInv /\ RemovedInv
  BY DEF IndInv
<1>a. /\ p \in Workers /\ p # Owner /\ p # Startup /\ p # Nobody
      /\ p \in Recovery /\ WorkerInv(p)
  BY <1>1, Actors DEF WorkersInv
<1>c. /\ pc' \in [Workers -> WorkerSteps]
      /\ \A q \in Workers \ {p} : pc'[q] = pc[q]
  BY <1>1, Actors DEF CompleteBinding, Goto, TypeOK, WorkerSteps
<1>t. /\ bound' \in BOOLEAN
  BY <1>1, GenBounds DEF CompleteBinding, TypeOK
<1>o. /\ auth' = auth
      /\ \/ pc'[p] = "wcapfile"
  BY <1>1, <1>a, Actors DEF CompleteBinding, Goto, TypeOK, Locks
<1>u. OwnerLocks' /\ ProcessInv' /\ RemovedInv'
  BY <1>1 DEF CompleteBinding, OwnerLocks, ProcessInv, Dead, RemovedInv, session, owner, supervisor
<1>A. TypeOK'
  BY <1>1, <1>c, <1>t DEF CompleteBinding, TypeOK, session, registry, owner, supervisor, workers,
     Locking
<1>C. OwnerInv'
  BY <1>1, <1>a, <1>c, <1>o, Actors DEF CompleteBinding, OwnerInv, Creating, Arming, Using, Completing,
     Deleted, HoldsGuard, HoldsFence, Retaining, validBinding, NoRecord, NoCapability, NoMarker,
     WorkerInv, Deleting, Bound, Finishing, Typed, Untyped, OwnerLocks, session, registry, owner,
     supervisor, workers
<1>E. WorkersInv'
  <2>1. ASSUME NEW q \in Recovery \ {p} PROVE Leaves(q)
    BY <2>1, <1>1, <1>a, <1>c, Actors DEF CompleteBinding, Leaves, Dead, validBinding, Locks, Recovery,
       Workers, WorkerInv, Deleting, Bound, Finishing, Typed, Untyped, session, registry, owner,
       supervisor, workers
  <2>2. WorkerInv(p)'
    BY <1>1, <1>a, <1>c, <1>o, Actors DEF CompleteBinding, WorkerInv, Dead, validBinding, Locks,
       Deleting, Bound, Finishing, Typed, Untyped, session, registry, owner, supervisor, workers,
       OwnerInv, RemovedInv
  <2> QED
    BY <1>1, <2>1, <2>2, WorkerKept DEF WorkersInv
<1>F. StartupInv'
  BY <1>1, <1>a, <1>c, <1>o, Actors DEF CompleteBinding, StartupInv, Deleted, Completing, Locks,
     session, registry, owner, supervisor, workers
<1> QED
  BY <1>u, <1>A, <1>C, <1>E, <1>F DEF IndInv

LEMMA CompleteEvidenceHolds == ASSUME IndInv, NEW p \in Recovery, CompleteEvidence(p) PROVE IndInv'
<1>1. /\ TypeOK /\ OwnerLocks /\ OwnerInv /\ ProcessInv /\ WorkersInv /\ StartupInv /\ RemovedInv
  BY DEF IndInv
<1>a. /\ p \in Workers /\ p # Owner /\ p # Startup /\ p # Nobody
      /\ p \in Recovery /\ WorkerInv(p)
  BY <1>1, Actors DEF WorkersInv
<1>k. Locking(p)
  BY <1>1, Actors, <1>a DEF CompleteEvidence, Locking, TypeOK, OwnerLocks, HoldsGuard, HoldsFence,
     Locks, WorkerInv, Deleting, Return, DropAll
<1>c. /\ pc' \in [Workers -> WorkerSteps]
      /\ \A q \in Workers \ {p} : pc'[q] = pc[q]
  BY <1>1, Actors DEF CompleteEvidence, Goto, Return, TypeOK, WorkerSteps
<1>t. /\ cap' \in {NoCapability} \cup [gen : 1..MaxGen, removed : BOOLEAN]
      /\ stale' \subseteq Recovery
  BY <1>1, GenBounds DEF CompleteEvidence, Outdate, TypeOK
<1>o. /\ auth' = auth
      /\ \/ pc'[p] = "idle"
  BY <1>1, <1>a, Actors DEF CompleteEvidence, Outdate, Goto, Return, DropAll, TypeOK, Locks
<1>u. ProcessInv'
  BY <1>1 DEF CompleteEvidence, ProcessInv, Dead, session, owner, supervisor
<1>A. TypeOK'
  BY <1>1, <1>k, <1>c, <1>t DEF CompleteEvidence, TypeOK, session, registry, owner, supervisor,
     workers, Locking
<1>B. OwnerLocks'
  BY <1>1, <1>a, <1>k, Actors, OwnerLocksKept DEF CompleteEvidence, owner
<1>C. OwnerInv'
  BY <1>1, <1>a, <1>c, <1>o, Actors DEF CompleteEvidence, Outdate, OwnerInv, Creating, Arming, Using,
     Completing, Deleted, HoldsGuard, HoldsFence, Retaining, validBinding, NoRecord, NoCapability,
     NoMarker, WorkerInv, Deleting, Bound, Finishing, Typed, Untyped, OwnerLocks, session, registry,
     owner, supervisor, workers
<1>E. WorkersInv'
  <2>1. ASSUME NEW q \in Recovery \ {p} PROVE Leaves(q)
    BY <2>1, <1>1, <1>a, <1>k, <1>c, Actors DEF CompleteEvidence, Outdate, Leaves, Dead, validBinding,
       Locks, Recovery, Workers, Locking, WorkerInv, Deleting, Bound, Finishing, Typed, Untyped,
       session, registry, owner, supervisor, workers
  <2>2. WorkerInv(p)'
    BY <1>1, <1>a, <1>k, <1>c, <1>o, Actors DEF CompleteEvidence, Outdate, WorkerInv, Dead,
       validBinding, Locks, Deleting, Bound, Finishing, Typed, Untyped, Locking, session, registry,
       owner, supervisor, workers, OwnerInv, RemovedInv
  <2> QED
    BY <1>1, <2>1, <2>2, WorkerKept DEF WorkersInv
<1>F. StartupInv'
  BY <1>1, <1>a, <1>k, <1>c, <1>o, Actors DEF CompleteEvidence, Outdate, StartupInv, Deleted,
     Completing, Locks, session, registry, owner, supervisor, workers, Locking
<1>G. RemovedInv'
  BY <1>1, <1>a, <1>c, <1>o, Actors DEF CompleteEvidence, Outdate, RemovedInv, NoRecord, NoCapability,
     WorkerInv, Deleting, Bound, Finishing, Typed, Untyped, session, registry, owner, supervisor,
     workers
<1> QED
  BY <1>u, <1>A, <1>B, <1>C, <1>E, <1>F, <1>G DEF IndInv

LEMMA SnapshotHolds == ASSUME IndInv, NEW r \in Recoverers, Snapshot(r) PROVE IndInv'
<1>1. /\ TypeOK /\ OwnerLocks /\ OwnerInv /\ ProcessInv /\ WorkersInv /\ StartupInv /\ RemovedInv
  BY DEF IndInv
<1>a. /\ r \in Workers /\ r # Owner /\ r # Startup /\ r # Nobody
      /\ r \in Recovery /\ WorkerInv(r)
  BY <1>1, Actors DEF WorkersInv
<1>c. /\ pc' \in [Workers -> WorkerSteps]
      /\ \A q \in Workers \ {r} : pc'[q] = pc[q]
  BY <1>1, Actors DEF Snapshot, Goto, TypeOK, WorkerSteps
<1>t. /\ auth' \in [Workers -> {"none", "gone", "held", "untracked"}]
      /\ stale' \subseteq Recovery
  BY <1>1, GenBounds DEF Snapshot, validBinding, TypeOK
<1>o. /\ auth'[r] = "none" /\ \A q \in Workers \ {r} : auth'[q] = auth[q]
      /\ \/ pc'[r] = "fence"
         \/ pc'[r] = "lookup" /\ typed
  BY <1>1, <1>a, Actors DEF Snapshot, Goto, validBinding, TypeOK, Locks
<1>u. OwnerLocks' /\ ProcessInv' /\ RemovedInv'
  BY <1>1 DEF Snapshot, OwnerLocks, ProcessInv, Dead, RemovedInv, session, registry, owner, supervisor
<1>A. TypeOK'
  BY <1>1, <1>c, <1>t DEF Snapshot, TypeOK, session, registry, owner, supervisor, workers, Locking
<1>C. OwnerInv'
  BY <1>1, <1>a, <1>c, <1>o, Actors DEF Snapshot, validBinding, OwnerInv, Creating, Arming, Using,
     Completing, Deleted, HoldsGuard, HoldsFence, Retaining, NoRecord, NoCapability, NoMarker,
     WorkerInv, Deleting, Bound, Finishing, Typed, Untyped, OwnerLocks, session, registry, owner,
     supervisor, workers
<1>E. WorkersInv'
  <2>1. ASSUME NEW q \in Recovery \ {r} PROVE Leaves(q)
    BY <2>1, <1>1, <1>a, <1>c, <1>o, Actors DEF Snapshot, validBinding, Leaves, Dead, Locks, Recovery,
       Workers, WorkerInv, Deleting, Bound, Finishing, Typed, Untyped, session, registry, owner,
       supervisor, workers
  <2>2. WorkerInv(r)'
    BY <1>1, <1>a, <1>c, <1>o, Actors DEF Snapshot, validBinding, WorkerInv, Dead, Locks, Deleting,
       Bound, Finishing, Typed, Untyped, session, registry, owner, supervisor, workers, OwnerInv,
       RemovedInv
  <2> QED
    BY <1>1, <2>1, <2>2, WorkerKept DEF WorkersInv
<1>F. StartupInv'
  BY <1>1, <1>a, <1>c, <1>o, Actors DEF Snapshot, validBinding, StartupInv, Deleted, Completing, Locks,
     session, registry, owner, supervisor, workers
<1> QED
  BY <1>u, <1>A, <1>C, <1>E, <1>F DEF IndInv

LEMMA LookupHolds == ASSUME IndInv, NEW r \in Recoverers, Lookup(r) PROVE IndInv'
<1>1. /\ TypeOK /\ OwnerLocks /\ OwnerInv /\ ProcessInv /\ WorkersInv /\ StartupInv /\ RemovedInv
  BY DEF IndInv
<1>a. /\ r \in Workers /\ r # Owner /\ r # Startup /\ r # Nobody
      /\ r \in Recovery /\ WorkerInv(r)
  BY <1>1, Actors DEF WorkersInv
<1>k. Locking(r)
  BY <1>1, Actors, <1>a DEF Lookup, Locking, TypeOK, OwnerLocks, HoldsGuard, HoldsFence, Locks,
     WorkerInv, Deleting, Free, Take, Return, DropAll
<1>c. /\ pc' \in [Workers -> WorkerSteps]
      /\ \A q \in Workers \ {r} : pc'[q] = pc[q]
  BY <1>1, Actors DEF Lookup, Goto, Return, TypeOK, WorkerSteps
<1>t. /\ auth' \in [Workers -> {"none", "gone", "held", "untracked"}]
  BY <1>1, GenBounds DEF Lookup, TypeOK
<1>o. /\ \A q \in Workers \ {r} : auth'[q] = auth[q]
      /\ \/ auth'[r] = "gone" /\ pc'[r] = "fence" /\ lock' = lock
         \/ auth'[r] = "held" /\ pc'[r] = "fence" /\ lock'["id"] = r
         \/ auth' = auth /\ pc'[r] = "idle"
  BY <1>1, <1>a, Actors DEF Lookup, Free, Take, Goto, Return, DropAll, TypeOK, Locks
<1>u. ProcessInv' /\ RemovedInv'
  BY <1>1 DEF Lookup, ProcessInv, Dead, RemovedInv, session, registry, owner, supervisor
<1>A. TypeOK'
  BY <1>1, <1>k, <1>c, <1>t DEF Lookup, TypeOK, session, registry, owner, supervisor, workers, Locking
<1>B. OwnerLocks'
  BY <1>1, <1>a, <1>k, Actors, OwnerLocksKept DEF Lookup, owner
<1>C. OwnerInv'
  BY <1>1, <1>a, <1>c, <1>o, Actors DEF Lookup, OwnerInv, Creating, Arming, Using, Completing, Deleted,
     HoldsGuard, HoldsFence, Retaining, validBinding, NoRecord, NoCapability, NoMarker, WorkerInv,
     Deleting, Bound, Finishing, Typed, Untyped, OwnerLocks, session, registry, owner, supervisor,
     workers
<1>E. WorkersInv'
  <2>1. ASSUME NEW q \in Recovery \ {r} PROVE Leaves(q)
    BY <2>1, <1>1, <1>a, <1>k, <1>c, <1>o, Actors DEF Lookup, Leaves, Dead, validBinding, Locks,
       Recovery, Workers, Locking, WorkerInv, Deleting, Bound, Finishing, Typed, Untyped, session,
       registry, owner, supervisor, workers
  <2>2. WorkerInv(r)'
    BY <1>1, <1>a, <1>k, <1>c, <1>o, Actors DEF Lookup, WorkerInv, Dead, validBinding, Locks, Deleting,
       Bound, Finishing, Typed, Untyped, Locking, session, registry, owner, supervisor, workers,
       OwnerInv, RemovedInv
  <2> QED
    BY <1>1, <2>1, <2>2, WorkerKept DEF WorkersInv
<1>F. StartupInv'
  BY <1>1, <1>a, <1>k, <1>c, <1>o, Actors DEF Lookup, StartupInv, Deleted, Completing, Locks, session,
     registry, owner, supervisor, workers, Locking
<1> QED
  BY <1>u, <1>A, <1>B, <1>C, <1>E, <1>F DEF IndInv

LEMMA RecoverBusyHolds == ASSUME IndInv, NEW r \in Recoverers, RecoverBusy(r) PROVE IndInv'
<1>1. /\ TypeOK /\ OwnerLocks /\ OwnerInv /\ ProcessInv /\ WorkersInv /\ StartupInv /\ RemovedInv
  BY DEF IndInv
<1>a. /\ r \in Workers /\ r # Owner /\ r # Startup /\ r # Nobody
      /\ r \in Recovery /\ WorkerInv(r)
  BY <1>1, Actors DEF WorkersInv
<1>k. Locking(r)
  BY <1>1, Actors, <1>a DEF RecoverBusy, Locking, TypeOK, OwnerLocks, HoldsGuard, HoldsFence, Locks,
     WorkerInv, Deleting, fenced, Free, Return, DropAll
<1>c. /\ pc' \in [Workers -> WorkerSteps]
      /\ \A q \in Workers \ {r} : pc'[q] = pc[q]
  BY <1>1, Actors DEF RecoverBusy, Goto, Return, TypeOK, WorkerSteps
<1>o. /\ auth' = auth
      /\ \/ pc'[r] = "idle"
  BY <1>1, <1>a, Actors DEF RecoverBusy, fenced, Free, Goto, Return, DropAll, TypeOK, Locks
<1>u. ProcessInv' /\ RemovedInv'
  BY <1>1 DEF RecoverBusy, ProcessInv, Dead, RemovedInv, session, registry, owner, supervisor
<1>A. TypeOK'
  BY <1>1, <1>k, <1>c DEF RecoverBusy, TypeOK, session, registry, owner, supervisor, workers, Locking
<1>B. OwnerLocks'
  BY <1>1, <1>a, <1>k, Actors, OwnerLocksKept DEF RecoverBusy, owner
<1>C. OwnerInv'
  BY <1>1, <1>a, <1>c, <1>o, Actors DEF RecoverBusy, OwnerInv, Creating, Arming, Using, Completing,
     Deleted, HoldsGuard, HoldsFence, Retaining, validBinding, NoRecord, NoCapability, NoMarker,
     WorkerInv, Deleting, Bound, Finishing, Typed, Untyped, OwnerLocks, session, registry, owner,
     supervisor, workers
<1>E. WorkersInv'
  <2>1. ASSUME NEW q \in Recovery \ {r} PROVE Leaves(q)
    BY <2>1, <1>1, <1>a, <1>k, <1>c, Actors DEF RecoverBusy, Leaves, Dead, validBinding, Locks,
       Recovery, Workers, Locking, WorkerInv, Deleting, Bound, Finishing, Typed, Untyped, session,
       registry, owner, supervisor, workers
  <2>2. WorkerInv(r)'
    BY <1>1, <1>a, <1>k, <1>c, <1>o, Actors DEF RecoverBusy, WorkerInv, Dead, validBinding, Locks,
       Deleting, Bound, Finishing, Typed, Untyped, Locking, session, registry, owner, supervisor,
       workers, OwnerInv, RemovedInv
  <2> QED
    BY <1>1, <2>1, <2>2, WorkerKept DEF WorkersInv
<1>F. StartupInv'
  BY <1>1, <1>a, <1>k, <1>c, <1>o, Actors DEF RecoverBusy, StartupInv, Deleted, Completing, Locks,
     session, registry, owner, supervisor, workers, Locking
<1> QED
  BY <1>u, <1>A, <1>B, <1>C, <1>E, <1>F DEF IndInv

LEMMA RecoverReportsHolds == ASSUME IndInv, NEW r \in Recoverers, RecoverReports(r) PROVE IndInv'
<1>1. /\ TypeOK /\ OwnerLocks /\ OwnerInv /\ ProcessInv /\ WorkersInv /\ StartupInv /\ RemovedInv
  BY DEF IndInv
<1>a. /\ r \in Workers /\ r # Owner /\ r # Startup /\ r # Nobody
      /\ r \in Recovery /\ WorkerInv(r)
  BY <1>1, Actors DEF WorkersInv
<1>k. Locking(r)
  BY <1>1, Actors, <1>a DEF RecoverReports, Locking, TypeOK, OwnerLocks, HoldsGuard, HoldsFence, Locks,
     WorkerInv, Deleting, fenced, Free, Return, DropAll
<1>c. /\ pc' \in [Workers -> WorkerSteps]
      /\ \A q \in Workers \ {r} : pc'[q] = pc[q]
  BY <1>1, Actors DEF RecoverReports, Goto, Return, TypeOK, WorkerSteps
<1>o. /\ auth' = auth
      /\ \/ pc'[r] = "idle"
  BY <1>1, <1>a, Actors DEF RecoverReports, fenced, Free, Goto, Return, DropAll, completed, TypeOK,
     Locks
<1>u. ProcessInv' /\ RemovedInv'
  BY <1>1 DEF RecoverReports, ProcessInv, Dead, RemovedInv, session, registry, owner, supervisor
<1>A. TypeOK'
  BY <1>1, <1>k, <1>c DEF RecoverReports, TypeOK, session, registry, owner, supervisor, workers, Locking
<1>B. OwnerLocks'
  BY <1>1, <1>a, <1>k, Actors, OwnerLocksKept DEF RecoverReports, owner
<1>C. OwnerInv'
  BY <1>1, <1>a, <1>c, <1>o, Actors DEF RecoverReports, completed, OwnerInv, Creating, Arming, Using,
     Completing, Deleted, HoldsGuard, HoldsFence, Retaining, validBinding, NoRecord, NoCapability,
     NoMarker, WorkerInv, Deleting, Bound, Finishing, Typed, Untyped, OwnerLocks, session, registry,
     owner, supervisor, workers
<1>E. WorkersInv'
  <2>1. ASSUME NEW q \in Recovery \ {r} PROVE Leaves(q)
    BY <2>1, <1>1, <1>a, <1>k, <1>c, Actors DEF RecoverReports, completed, Leaves, Dead, validBinding,
       Locks, Recovery, Workers, Locking, WorkerInv, Deleting, Bound, Finishing, Typed, Untyped,
       session, registry, owner, supervisor, workers
  <2>2. WorkerInv(r)'
    BY <1>1, <1>a, <1>k, <1>c, <1>o, Actors DEF RecoverReports, completed, WorkerInv, Dead,
       validBinding, Locks, Deleting, Bound, Finishing, Typed, Untyped, Locking, session, registry,
       owner, supervisor, workers, OwnerInv, RemovedInv
  <2> QED
    BY <1>1, <2>1, <2>2, WorkerKept DEF WorkersInv
<1>F. StartupInv'
  BY <1>1, <1>a, <1>k, <1>c, <1>o, Actors DEF RecoverReports, completed, StartupInv, Deleted,
     Completing, Locks, session, registry, owner, supervisor, workers, Locking
<1> QED
  BY <1>u, <1>A, <1>B, <1>C, <1>E, <1>F DEF IndInv

LEMMA RecoverRestrictsHolds == ASSUME IndInv, NEW r \in Recoverers, RecoverRestricts(r) PROVE IndInv'
<1>1. /\ TypeOK /\ OwnerLocks /\ OwnerInv /\ ProcessInv /\ WorkersInv /\ StartupInv /\ RemovedInv
  BY DEF IndInv
<1>a. /\ r \in Workers /\ r # Owner /\ r # Startup /\ r # Nobody
      /\ r \in Recovery /\ WorkerInv(r)
  BY <1>1, Actors DEF WorkersInv
<1>r. \/ rec' = rec /\ stale' = stale
      \/ /\ rec.st # "removed" /\ rec' \in [st : RecordStates, gen : 1..MaxGen, comp : Gens]
         /\ rec'.st = "unproven" /\ rec'.gen = rec.gen /\ stale' = Recovery /\ lock["fence"] = Nobody
  <2>1. rec # NoRecord /\ lock["fence"] = Nobody
    BY DEF RecoverRestricts, fenced, Free
  <2> QED
    BY <1>1, <2>1, Restated DEF RecoverRestricts, restrict, Outdate, RecordStates
<1>k. Locking(r)
  BY <1>1, Actors, <1>a DEF RecoverRestricts, Locking, TypeOK, OwnerLocks, HoldsGuard, HoldsFence,
     Locks, WorkerInv, Deleting, fenced, Free, Return, DropAll
<1>c. /\ pc' \in [Workers -> WorkerSteps]
      /\ \A q \in Workers \ {r} : pc'[q] = pc[q]
  BY <1>1, Actors DEF RecoverRestricts, Goto, Return, TypeOK, WorkerSteps
<1>t. /\ rec' \in {NoRecord} \cup [st : RecordStates, gen : 1..MaxGen, comp : Gens]
      /\ stale' \subseteq Recovery
  BY <1>1, <1>r, GenBounds DEF RecoverRestricts, restrict, Outdate, TypeOK, RecordStates
<1>o. /\ auth' = auth
      /\ \/ pc'[r] = "idle"
  BY <1>1, <1>a, Actors DEF RecoverRestricts, fenced, Free, Goto, Return, DropAll, restrict, Outdate,
     TypeOK, Locks
<1>u. ProcessInv'
  BY <1>1 DEF RecoverRestricts, ProcessInv, Dead, session, owner, supervisor
<1>A. TypeOK'
  BY <1>1, <1>k, <1>c, <1>t DEF RecoverRestricts, TypeOK, session, registry, owner, supervisor,
     workers, Locking
<1>B. OwnerLocks'
  BY <1>1, <1>a, <1>k, Actors, OwnerLocksKept DEF RecoverRestricts, owner
<1>C. OwnerInv'
  BY <1>1, <1>a, <1>r, <1>c, <1>o, Actors DEF RecoverRestricts, restrict, Outdate, OwnerInv, Creating,
     Arming, Using, Completing, Deleted, HoldsGuard, HoldsFence, Retaining, validBinding, NoRecord,
     NoCapability, NoMarker, WorkerInv, Deleting, Bound, Finishing, Typed, Untyped, OwnerLocks,
     session, registry, owner, supervisor, workers
<1>E. WorkersInv'
  <2>1. ASSUME NEW q \in Recovery \ {r} PROVE Leaves(q)
    BY <2>1, <1>1, <1>a, <1>r, <1>k, <1>c, Actors DEF RecoverRestricts, restrict, Outdate, Leaves,
       Dead, validBinding, Locks, Recovery, Workers, Locking, WorkerInv, Deleting, Bound, Finishing,
       Typed, Untyped, session, registry, owner, supervisor, workers
  <2>2. WorkerInv(r)'
    BY <1>1, <1>a, <1>r, <1>k, <1>c, <1>o, Actors DEF RecoverRestricts, restrict, Outdate, WorkerInv,
       Dead, validBinding, Locks, Deleting, Bound, Finishing, Typed, Untyped, Locking, session,
       registry, owner, supervisor, workers, OwnerInv, RemovedInv
  <2> QED
    BY <1>1, <2>1, <2>2, WorkerKept DEF WorkersInv
<1>F. StartupInv'
  BY <1>1, <1>a, <1>r, <1>k, <1>c, <1>o, Actors DEF RecoverRestricts, restrict, Outdate, StartupInv,
     Deleted, Completing, Locks, session, registry, owner, supervisor, workers, Locking
<1>G. RemovedInv'
  BY <1>1, <1>a, <1>r, <1>c, <1>o, Actors DEF RecoverRestricts, restrict, Outdate, RemovedInv,
     NoRecord, NoCapability, WorkerInv, Deleting, Bound, Finishing, Typed, Untyped, session, registry,
     owner, supervisor, workers
<1> QED
  BY <1>u, <1>A, <1>B, <1>C, <1>E, <1>F, <1>G DEF IndInv

LEMMA RecoverContinuesHolds == ASSUME IndInv, NEW r \in Recoverers, RecoverContinues(r) PROVE IndInv'
<1>1. /\ TypeOK /\ OwnerLocks /\ OwnerInv /\ ProcessInv /\ WorkersInv /\ StartupInv /\ RemovedInv
  BY DEF IndInv
<1>a. /\ r \in Workers /\ r # Owner /\ r # Startup /\ r # Nobody
      /\ r \in Recovery /\ WorkerInv(r)
  BY <1>1, Actors DEF WorkersInv
<1>x. lock["fence"] = Nobody /\ (cap.removed => opc = "exit" /\ ~root)
  <2>1. lock["fence"] = Nobody
    BY DEF RecoverContinues, fenced, Free
  <2> QED
    BY <1>1, <2>1, Actors DEF RemovedInv, OwnerLocks, HoldsFence
<1>z. /\ validBinding /\ pc[r] = "fence" /\ registry' = registry /\ UNCHANGED <<typed, root, opc, marker>>
      /\ validBinding' /\ auth[r] # "untracked" /\ r \notin TypedRecoverers
  BY <1>a, Actors DEF RecoverContinues, fenced, inconsistent, validBinding, registry, session, owner,
     WorkerInv
<1>k. Locking(r)
  BY <1>1, Actors, <1>a DEF RecoverContinues, Locking, TypeOK, OwnerLocks, HoldsGuard, HoldsFence,
     Locks, WorkerInv, Deleting, fenced, Free, Take
<1>c. /\ pc' \in [Workers -> WorkerSteps]
      /\ \A q \in Workers \ {r} : pc'[q] = pc[q]
  BY <1>1, Actors DEF RecoverContinues, Goto, TypeOK, WorkerSteps
<1>o. /\ auth' = auth
      /\ \/ /\ pc'[r] = "wrec" /\ cap.removed /\ lock'["fence"] = r /\ lock'["id"] = lock["id"]
         \/ /\ pc'[r] = "lease" /\ lock'["fence"] = r /\ lock'["id"] = lock["id"]
  BY <1>1, <1>a, Actors DEF RecoverContinues, fenced, Free, Goto, Take, inconsistent, validBinding,
     TypeOK, Locks
<1>u. ProcessInv' /\ RemovedInv'
  BY <1>1 DEF RecoverContinues, ProcessInv, Dead, RemovedInv, session, registry, owner, supervisor
<1>A. TypeOK'
  BY <1>1, <1>k, <1>c DEF RecoverContinues, TypeOK, session, registry, owner, supervisor, workers,
     Locking
<1>B. OwnerLocks'
  BY <1>1, <1>a, <1>k, Actors, OwnerLocksKept DEF RecoverContinues, owner
<1>C. OwnerInv'
  BY <1>1, <1>a, <1>x, <1>z, <1>c, <1>o, Actors DEF RecoverContinues, inconsistent, validBinding,
     OwnerInv, Creating, Arming, Using, Completing, Deleted, HoldsGuard, HoldsFence, Retaining,
     NoRecord, NoCapability, NoMarker, WorkerInv, Deleting, Bound, Finishing, Typed, Untyped,
     OwnerLocks, session, registry, owner, supervisor, workers
<1>E. WorkersInv'
  <2>1. ASSUME NEW q \in Recovery \ {r} PROVE Leaves(q)
    BY <2>1, <1>1, <1>a, <1>x, <1>z, <1>k, <1>c, Actors DEF RecoverContinues, inconsistent,
       validBinding, Leaves, Dead, Locks, Recovery, Workers, Locking, WorkerInv, Deleting, Bound,
       Finishing, Typed, Untyped, session, registry, owner, supervisor, workers
  <2>2. WorkerInv(r)'
    BY <1>a, <1>x, <1>z, <1>o, Actors DEF WorkerInv, registry, Deleting, Bound, Finishing, Untyped,
       Locks
  <2> QED
    BY <1>1, <2>1, <2>2, WorkerKept DEF WorkersInv
<1>F. StartupInv'
  BY <1>1, <1>a, <1>x, <1>z, <1>k, <1>c, <1>o, Actors DEF RecoverContinues, inconsistent, validBinding,
     StartupInv, Deleted, Completing, Locks, session, registry, owner, supervisor, workers, Locking
<1> QED
  BY <1>u, <1>A, <1>B, <1>C, <1>E, <1>F DEF IndInv

LEMMA RecoverVerifiesHolds == ASSUME IndInv, NEW r \in Recoverers, RecoverVerifies(r) PROVE IndInv'
<1>1. /\ TypeOK /\ OwnerLocks /\ OwnerInv /\ ProcessInv /\ WorkersInv /\ StartupInv /\ RemovedInv
  BY DEF IndInv
<1>a. /\ r \in Workers /\ r # Owner /\ r # Startup /\ r # Nobody
      /\ r \in Recovery /\ WorkerInv(r)
  BY <1>1, Actors DEF WorkersInv
<1>v. rec # NoRecord /\ lock["fence"] = r /\ validBinding /\ lock["guard"] = r
  BY <1>1, <1>a, Actors, ValidExists DEF RecoverVerifies, WorkerInv, Bound
<1>r. \/ rec' = rec /\ stale' = stale
      \/ /\ rec' \in [st : RecordStates, gen : 1..MaxGen, comp : Gens] /\ rec'.gen = rec.gen /\ stale' = Recovery
         /\ \/ rec'.st = "removable" /\ VerifySessionCleanupProof(cap.gen)
            \/ rec'.st = "unproven" /\ rec.st # "removed"
  BY <1>1, <1>v, Restated DEF RecoverVerifies, restrict, Outdate, RecordStates
<1>x. VerifySessionCleanupProof(cap.gen) => opc = "exit" /\ Dead
  <2>1. VerifySessionCleanupProof(cap.gen) => root /\ proof.kind \in {"notarget", "settled"}
    BY DEF VerifySessionCleanupProof
  <2>2. pc[r] # "idle" /\ opc \in OwnerSteps
    BY <1>1 DEF RecoverVerifies, TypeOK
  <2>3. root => opc = "exit"
    BY <1>1, <1>a, <1>v, <2>2 DEF OwnerInv, OwnerLocks, OwnerSteps, Creating, Deleted, Completing,
       HoldsGuard, Using, Arming
  <2> QED
    BY <1>1, <2>1, <2>3 DEF ProcessInv, Dead
<1>k. Locking(r)
  BY <1>1, Actors, <1>a DEF RecoverVerifies, Locking, TypeOK, OwnerLocks, HoldsGuard, HoldsFence,
     Locks, WorkerInv, Deleting, Return, DropAll
<1>c. /\ pc' \in [Workers -> WorkerSteps]
      /\ \A q \in Workers \ {r} : pc'[q] = pc[q]
  BY <1>1, Actors DEF RecoverVerifies, Goto, Return, TypeOK, WorkerSteps
<1>t. /\ rec' \in {NoRecord} \cup [st : RecordStates, gen : 1..MaxGen, comp : Gens]
      /\ stale' \subseteq Recovery
  BY <1>1, <1>r, GenBounds DEF RecoverVerifies, restrict, Outdate, VerifySessionCleanupProof, TypeOK,
     RecordStates
<1>o. /\ auth' = auth
      /\ \/ /\ pc'[r] = "rmroot" /\ lock' = lock /\ VerifySessionCleanupProof(cap.gen)

         \/ pc'[r] = "idle"
  BY <1>1, <1>a, Actors DEF RecoverVerifies, Goto, Return, DropAll, restrict, Outdate,
     VerifySessionCleanupProof, TypeOK, Locks
<1>u. ProcessInv'
  BY <1>1 DEF RecoverVerifies, ProcessInv, Dead, session, owner, supervisor
<1>A. TypeOK'
  BY <1>1, <1>k, <1>c, <1>t DEF RecoverVerifies, TypeOK, session, registry, owner, supervisor, workers,
     Locking
<1>B. OwnerLocks'
  BY <1>1, <1>a, <1>k, Actors, OwnerLocksKept DEF RecoverVerifies, owner
<1>C. OwnerInv'
  BY <1>1, <1>a, <1>v, <1>r, <1>x, <1>c, <1>o, Actors DEF RecoverVerifies, restrict, Outdate,
     VerifySessionCleanupProof, OwnerInv, Creating, Arming, Using, Completing, Deleted, HoldsGuard,
     HoldsFence, Retaining, validBinding, NoRecord, NoCapability, NoMarker, WorkerInv, Deleting, Bound,
     Finishing, Typed, Untyped, OwnerLocks, session, registry, owner, supervisor, workers
<1>E. WorkersInv'
  <2>1. ASSUME NEW q \in Recovery \ {r} PROVE Leaves(q)
    BY <2>1, <1>1, <1>a, <1>v, <1>r, <1>x, <1>k, <1>c, Actors DEF RecoverVerifies, restrict, Outdate,
       VerifySessionCleanupProof, Leaves, Dead, validBinding, Locks, Recovery, Workers, Locking,
       WorkerInv, Deleting, Bound, Finishing, Typed, Untyped, session, registry, owner, supervisor,
       workers
  <2>2. WorkerInv(r)'
    BY <1>1, <1>a, <1>v, <1>r, <1>x, <1>k, <1>c, <1>o, Actors DEF RecoverVerifies, restrict, Outdate,
       VerifySessionCleanupProof, WorkerInv, Dead, validBinding, Locks, Deleting, Bound, Finishing,
       Typed, Untyped, Locking, session, registry, owner, supervisor, workers, OwnerInv, RemovedInv
  <2> QED
    BY <1>1, <2>1, <2>2, WorkerKept DEF WorkersInv
<1>F. StartupInv'
  BY <1>1, <1>a, <1>v, <1>r, <1>x, <1>k, <1>c, <1>o, Actors DEF RecoverVerifies, restrict, Outdate,
     VerifySessionCleanupProof, StartupInv, Deleted, Completing, Locks, session, registry, owner,
     supervisor, workers, Locking
<1>G. RemovedInv'
  BY <1>1, <1>a, <1>v, <1>r, <1>x, <1>c, <1>o, Actors DEF RecoverVerifies, restrict, Outdate,
     VerifySessionCleanupProof, RemovedInv, NoRecord, NoCapability, WorkerInv, Deleting, Bound,
     Finishing, Typed, Untyped, session, registry, owner, supervisor, workers
<1> QED
  BY <1>u, <1>A, <1>B, <1>C, <1>E, <1>F, <1>G DEF IndInv

LEMMA AcquireRecoveryHolds == ASSUME IndInv, NEW t \in TypedRecoverers, AcquireRecovery(t) PROVE IndInv'
<1>1. /\ TypeOK /\ OwnerLocks /\ OwnerInv /\ ProcessInv /\ WorkersInv /\ StartupInv /\ RemovedInv
  BY DEF IndInv
<1>a. /\ t \in Workers /\ t # Owner /\ t # Startup /\ t # Nobody
      /\ t \in Recovery /\ WorkerInv(t)
  BY <1>1, Actors DEF WorkersInv
<1>x. typed
  BY <1>1 DEF AcquireRecovery, ProcessInv
<1>k. Locking(t)
  BY <1>1, Actors, <1>a DEF AcquireRecovery, Locking, TypeOK, OwnerLocks, HoldsGuard, HoldsFence,
     Locks, WorkerInv, Deleting, Free, Take
<1>c. /\ pc' \in [Workers -> WorkerSteps]
      /\ \A q \in Workers \ {t} : pc'[q] = pc[q]
  BY <1>1, Actors DEF AcquireRecovery, Goto, TypeOK, WorkerSteps
<1>t. /\ auth' \in [Workers -> {"none", "gone", "held", "untracked"}]
  BY <1>1, GenBounds DEF AcquireRecovery, TypeOK
<1>o. /\ \A q \in Workers \ {t} : auth'[q] = auth[q]
      /\ \/ auth'[t] = "held" /\ pc'[t] = "match" /\ lock'["id"] = t
  BY <1>1, <1>a, Actors DEF AcquireRecovery, Free, Take, Goto, TypeOK, Locks
<1>u. ProcessInv' /\ RemovedInv'
  BY <1>1 DEF AcquireRecovery, ProcessInv, Dead, RemovedInv, session, registry, owner, supervisor
<1>A. TypeOK'
  BY <1>1, <1>k, <1>c, <1>t DEF AcquireRecovery, TypeOK, session, registry, owner, supervisor, workers,
     Locking
<1>B. OwnerLocks'
  BY <1>1, <1>a, <1>k, Actors, OwnerLocksKept DEF AcquireRecovery, owner
<1>C. OwnerInv'
  BY <1>1, <1>a, <1>x, <1>c, <1>o, Actors DEF AcquireRecovery, OwnerInv, Creating, Arming, Using,
     Completing, Deleted, HoldsGuard, HoldsFence, Retaining, validBinding, NoRecord, NoCapability,
     NoMarker, WorkerInv, Deleting, Bound, Finishing, Typed, Untyped, OwnerLocks, session, registry,
     owner, supervisor, workers
<1>E. WorkersInv'
  <2>1. ASSUME NEW q \in Recovery \ {t} PROVE Leaves(q)
    BY <2>1, <1>1, <1>a, <1>x, <1>k, <1>c, <1>o, Actors DEF AcquireRecovery, Leaves, Dead,
       validBinding, Locks, Recovery, Workers, Locking, WorkerInv, Deleting, Bound, Finishing, Typed,
       Untyped, session, registry, owner, supervisor, workers
  <2>2. WorkerInv(t)'
    BY <1>1, <1>a, <1>x, <1>k, <1>c, <1>o, Actors DEF AcquireRecovery, WorkerInv, Dead, validBinding,
       Locks, Deleting, Bound, Finishing, Typed, Untyped, Locking, session, registry, owner,
       supervisor, workers, OwnerInv, RemovedInv
  <2> QED
    BY <1>1, <2>1, <2>2, WorkerKept DEF WorkersInv
<1>F. StartupInv'
  BY <1>1, <1>a, <1>x, <1>k, <1>c, <1>o, Actors DEF AcquireRecovery, StartupInv, Deleted, Completing,
     Locks, session, registry, owner, supervisor, workers, Locking
<1> QED
  BY <1>u, <1>A, <1>B, <1>C, <1>E, <1>F DEF IndInv

LEMMA MatchCapabilityHolds == ASSUME IndInv, NEW t \in TypedRecoverers, MatchCapability(t) PROVE IndInv'
<1>1. /\ TypeOK /\ OwnerLocks /\ OwnerInv /\ ProcessInv /\ WorkersInv /\ StartupInv /\ RemovedInv
  BY DEF IndInv
<1>a. /\ t \in Workers /\ t # Owner /\ t # Startup /\ t # Nobody
      /\ t \in Recovery /\ WorkerInv(t)
  BY <1>1, Actors DEF WorkersInv
<1>k. Locking(t)
  BY <1>1, Actors, <1>a DEF MatchCapability, Locking, TypeOK, OwnerLocks, HoldsGuard, HoldsFence,
     Locks, WorkerInv, Deleting, Return, DropAll
<1>c. /\ pc' \in [Workers -> WorkerSteps]
      /\ \A q \in Workers \ {t} : pc'[q] = pc[q]
  BY <1>1, Actors DEF MatchCapability, Goto, Return, TypeOK, WorkerSteps
<1>t. /\ auth' \in [Workers -> {"none", "gone", "held", "untracked"}]
  BY <1>1, GenBounds DEF MatchCapability, completed, TypeOK
<1>o. /\ \A q \in Workers \ {t} : auth'[q] = auth[q]
      /\ \/ auth'[t] = auth[t] /\ pc'[t] \in {"tfence", "tdone"} /\ lock' = lock
         \/ auth'[t] = "untracked" /\ pc'[t] = "lease" /\ lock' = lock
         \/ auth'[t] = auth[t] /\ pc'[t] = "idle"
  BY <1>1, <1>a, Actors DEF MatchCapability, Goto, Return, DropAll, completed, TypeOK, Locks
<1>u. ProcessInv' /\ RemovedInv'
  BY <1>1 DEF MatchCapability, ProcessInv, Dead, RemovedInv, session, registry, owner, supervisor
<1>A. TypeOK'
  BY <1>1, <1>k, <1>c, <1>t DEF MatchCapability, TypeOK, session, registry, owner, supervisor, workers,
     Locking
<1>B. OwnerLocks'
  BY <1>1, <1>a, <1>k, Actors, OwnerLocksKept DEF MatchCapability, owner
<1>C. OwnerInv'
  BY <1>1, <1>a, <1>c, <1>o, Actors DEF MatchCapability, completed, OwnerInv, Creating, Arming, Using,
     Completing, Deleted, HoldsGuard, HoldsFence, Retaining, validBinding, NoRecord, NoCapability,
     NoMarker, WorkerInv, Deleting, Bound, Finishing, Typed, Untyped, OwnerLocks, session, registry,
     owner, supervisor, workers
<1>E. WorkersInv'
  <2>1. ASSUME NEW q \in Recovery \ {t} PROVE Leaves(q)
    BY <2>1, <1>1, <1>a, <1>k, <1>c, <1>o, Actors DEF MatchCapability, completed, Leaves, Dead,
       validBinding, Locks, Recovery, Workers, Locking, WorkerInv, Deleting, Bound, Finishing, Typed,
       Untyped, session, registry, owner, supervisor, workers
  <2>2. WorkerInv(t)'
    BY <1>1, <1>a, <1>k, <1>c, <1>o, Actors DEF MatchCapability, completed, WorkerInv, Dead,
       validBinding, Locks, Deleting, Bound, Finishing, Typed, Untyped, Locking, session, registry,
       owner, supervisor, workers, OwnerInv, RemovedInv
  <2> QED
    BY <1>1, <2>1, <2>2, WorkerKept DEF WorkersInv
<1>F. StartupInv'
  BY <1>1, <1>a, <1>k, <1>c, <1>o, Actors DEF MatchCapability, completed, StartupInv, Deleted,
     Completing, Locks, session, registry, owner, supervisor, workers, Locking
<1> QED
  BY <1>u, <1>A, <1>B, <1>C, <1>E, <1>F DEF IndInv

LEMMA FinalizeRemovalHolds == ASSUME IndInv, NEW t \in TypedRecoverers, FinalizeRemoval(t) PROVE IndInv'
<1>1. /\ TypeOK /\ OwnerLocks /\ OwnerInv /\ ProcessInv /\ WorkersInv /\ StartupInv /\ RemovedInv
  BY DEF IndInv
<1>a. /\ t \in Workers /\ t # Owner /\ t # Startup /\ t # Nobody
      /\ t \in Recovery /\ WorkerInv(t)
  BY <1>1, Actors DEF WorkersInv
<1>x. lock["fence"] = Nobody /\ cap.removed => opc = "exit" /\ ~root
  BY <1>1, Actors DEF RemovedInv, OwnerLocks, HoldsFence
<1>z. /\ pc[t] = "tfence" /\ registry' = registry /\ UNCHANGED <<typed, root, opc, marker>>
      /\ (validBinding => validBinding') /\ t \notin Recoverers
  BY <1>a, Actors DEF FinalizeRemoval, validBinding, registry, session, owner
<1>k. Locking(t)
  BY <1>1, Actors, <1>a DEF FinalizeRemoval, Locking, TypeOK, OwnerLocks, HoldsGuard, HoldsFence,
     Locks, WorkerInv, Deleting, Free, Take, Return, DropAll
<1>c. /\ pc' \in [Workers -> WorkerSteps]
      /\ \A q \in Workers \ {t} : pc'[q] = pc[q]
  BY <1>1, Actors DEF FinalizeRemoval, Goto, Return, TypeOK, WorkerSteps
<1>o. /\ auth' = auth
      /\ \/ /\ pc'[t] \in (IF cap.removed THEN {"wrec"} ELSE {"lease"}) /\ validBinding /\ lock["fence"] = Nobody
            /\ lock'["fence"] = t /\ lock'["id"] = lock["id"]
         \/ pc'[t] = "idle"
  BY <1>1, <1>a, Actors DEF FinalizeRemoval, Free, Take, Goto, Return, DropAll, inconsistent,
     validBinding, TypeOK, Locks
<1>u. ProcessInv' /\ RemovedInv'
  BY <1>1 DEF FinalizeRemoval, ProcessInv, Dead, RemovedInv, session, registry, owner, supervisor
<1>A. TypeOK'
  BY <1>1, <1>k, <1>c DEF FinalizeRemoval, TypeOK, session, registry, owner, supervisor, workers,
     Locking
<1>B. OwnerLocks'
  BY <1>1, <1>a, <1>k, Actors, OwnerLocksKept DEF FinalizeRemoval, owner
<1>C. OwnerInv'
  BY <1>1, <1>a, <1>x, <1>z, <1>c, <1>o, Actors DEF FinalizeRemoval, inconsistent, validBinding,
     OwnerInv, Creating, Arming, Using, Completing, Deleted, HoldsGuard, HoldsFence, Retaining,
     NoRecord, NoCapability, NoMarker, WorkerInv, Deleting, Bound, Finishing, Typed, Untyped,
     OwnerLocks, session, registry, owner, supervisor, workers
<1>E. WorkersInv'
  <2>1. ASSUME NEW q \in Recovery \ {t} PROVE Leaves(q)
    BY <2>1, <1>1, <1>a, <1>x, <1>z, <1>k, <1>c, Actors DEF FinalizeRemoval, inconsistent,
       validBinding, Leaves, Dead, Locks, Recovery, Workers, Locking, WorkerInv, Deleting, Bound,
       Finishing, Typed, Untyped, session, registry, owner, supervisor, workers
  <2>2. WorkerInv(t)'
    BY <1>a, <1>x, <1>z, <1>o, Actors DEF WorkerInv, registry, Deleting, Bound, Finishing, Typed, Locks
  <2> QED
    BY <1>1, <2>1, <2>2, WorkerKept DEF WorkersInv
<1>F. StartupInv'
  BY <1>1, <1>a, <1>x, <1>z, <1>k, <1>c, <1>o, Actors DEF FinalizeRemoval, inconsistent, validBinding,
     StartupInv, Deleted, Completing, Locks, session, registry, owner, supervisor, workers, Locking
<1> QED
  BY <1>u, <1>A, <1>B, <1>C, <1>E, <1>F DEF IndInv

LEMMA FinalizeCompletedHolds == ASSUME IndInv, NEW t \in TypedRecoverers, FinalizeCompleted(t) PROVE IndInv'
<1>1. /\ TypeOK /\ OwnerLocks /\ OwnerInv /\ ProcessInv /\ WorkersInv /\ StartupInv /\ RemovedInv
  BY DEF IndInv
<1>a. /\ t \in Workers /\ t # Owner /\ t # Startup /\ t # Nobody
      /\ t \in Recovery /\ WorkerInv(t)
  BY <1>1, Actors DEF WorkersInv
<1>x. lock["fence"] = Nobody /\ rec.st = "removed" => opc = "exit" /\ ~root
  <2>1. typed /\ lock["id"] # Owner
    BY <1>1, <1>a DEF FinalizeCompleted, WorkerInv
  <2> QED
    BY <1>1, <2>1, Actors DEF RemovedInv, OwnerLocks, HoldsFence
<1>k. Locking(t)
  BY <1>1, Actors, <1>a DEF FinalizeCompleted, Locking, TypeOK, OwnerLocks, HoldsGuard, HoldsFence,
     Locks, WorkerInv, Deleting, Free, Take, Return, DropAll
<1>c. /\ pc' \in [Workers -> WorkerSteps]
      /\ \A q \in Workers \ {t} : pc'[q] = pc[q]
  BY <1>1, Actors DEF FinalizeCompleted, Goto, Return, TypeOK, WorkerSteps
<1>o. /\ auth' = auth
      /\ \/ pc'[t] = "wmarker" /\ rec.st = "removed" /\ lock["fence"] = Nobody /\ lock'["fence"] = t /\ lock'["id"] = lock["id"]
         \/ pc'[t] = "idle"
  BY <1>1, <1>a, Actors DEF FinalizeCompleted, Free, Take, Goto, Return, DropAll, completed, TypeOK,
     Locks
<1>u. ProcessInv' /\ RemovedInv'
  BY <1>1 DEF FinalizeCompleted, ProcessInv, Dead, RemovedInv, session, registry, owner, supervisor
<1>A. TypeOK'
  BY <1>1, <1>k, <1>c DEF FinalizeCompleted, TypeOK, session, registry, owner, supervisor, workers,
     Locking
<1>B. OwnerLocks'
  BY <1>1, <1>a, <1>k, Actors, OwnerLocksKept DEF FinalizeCompleted, owner
<1>C. OwnerInv'
  BY <1>1, <1>a, <1>x, <1>c, <1>o, Actors DEF FinalizeCompleted, completed, OwnerInv, Creating, Arming,
     Using, Completing, Deleted, HoldsGuard, HoldsFence, Retaining, validBinding, NoRecord,
     NoCapability, NoMarker, WorkerInv, Deleting, Bound, Finishing, Typed, Untyped, OwnerLocks,
     session, registry, owner, supervisor, workers
<1>E. WorkersInv'
  <2>1. ASSUME NEW q \in Recovery \ {t} PROVE Leaves(q)
    BY <2>1, <1>1, <1>a, <1>x, <1>k, <1>c, Actors DEF FinalizeCompleted, completed, Leaves, Dead,
       validBinding, Locks, Recovery, Workers, Locking, WorkerInv, Deleting, Bound, Finishing, Typed,
       Untyped, session, registry, owner, supervisor, workers
  <2>2. WorkerInv(t)'
    BY <1>1, <1>a, <1>x, <1>k, <1>c, <1>o, Actors DEF FinalizeCompleted, completed, WorkerInv, Dead,
       validBinding, Locks, Deleting, Bound, Finishing, Typed, Untyped, Locking, session, registry,
       owner, supervisor, workers, OwnerInv, RemovedInv
  <2> QED
    BY <1>1, <2>1, <2>2, WorkerKept DEF WorkersInv
<1>F. StartupInv'
  BY <1>1, <1>a, <1>x, <1>k, <1>c, <1>o, Actors DEF FinalizeCompleted, completed, StartupInv, Deleted,
     Completing, Locks, session, registry, owner, supervisor, workers, Locking
<1> QED
  BY <1>u, <1>A, <1>B, <1>C, <1>E, <1>F DEF IndInv

LEMMA TypedVerifiesHolds == ASSUME IndInv, NEW t \in TypedRecoverers, TypedVerifies(t) PROVE IndInv'
<1>1. /\ TypeOK /\ OwnerLocks /\ OwnerInv /\ ProcessInv /\ WorkersInv /\ StartupInv /\ RemovedInv
  BY DEF IndInv
<1>a. /\ t \in Workers /\ t # Owner /\ t # Startup /\ t # Nobody
      /\ t \in Recovery /\ WorkerInv(t)
  BY <1>1, Actors DEF WorkersInv
<1>x. /\ opc = "exit" /\ marker.phase \in {"prepared", "pending", "recoverable"}
      /\ typed /\ lock["id"] = t
  BY <1>1, <1>a DEF TypedVerifies, WorkerInv, OwnerLocks, TypeOK
<1>y. pc'[t] = "rmroot" => Dead
  <2>1. pc'[t] = "rmroot" /\ marker.phase = "pending" => proof.kind \in {"notarget", "settled"}
    BY <1>1, <1>a, Actors DEF TypedVerifies, VerifySessionCleanupProof, Return, Goto, TypeOK
  <2> QED
    BY <1>1, <1>x, <2>1 DEF ProcessInv, Dead
<1>k. Locking(t)
  BY <1>1, Actors, <1>a DEF TypedVerifies, Locking, TypeOK, OwnerLocks, HoldsGuard, HoldsFence, Locks,
     WorkerInv, Deleting, Return, DropAll
<1>c. /\ pc' \in [Workers -> WorkerSteps]
      /\ \A q \in Workers \ {t} : pc'[q] = pc[q]
  BY <1>1, Actors DEF TypedVerifies, Goto, Return, TypeOK, WorkerSteps
<1>o. /\ auth' = auth
      /\ \/ /\ pc'[t] = "rmroot" /\ lock' = lock
            /\ (marker.phase = "pending" => VerifySessionCleanupProof(marker.chal))
         \/ pc'[t] = "idle"
  BY <1>1, <1>a, Actors DEF TypedVerifies, Goto, Return, DropAll, VerifySessionCleanupProof, TypeOK,
     Locks
<1>u. ProcessInv' /\ RemovedInv'
  BY <1>1 DEF TypedVerifies, ProcessInv, Dead, RemovedInv, session, registry, owner, supervisor
<1>A. TypeOK'
  BY <1>1, <1>k, <1>c DEF TypedVerifies, TypeOK, session, registry, owner, supervisor, workers, Locking
<1>B. OwnerLocks'
  BY <1>1, <1>a, <1>k, Actors, OwnerLocksKept DEF TypedVerifies, owner
<1>C. OwnerInv'
  BY <1>1, <1>a, <1>x, <1>y, <1>c, <1>o, Actors DEF TypedVerifies, VerifySessionCleanupProof, OwnerInv,
     Creating, Arming, Using, Completing, Deleted, HoldsGuard, HoldsFence, Retaining, validBinding,
     NoRecord, NoCapability, NoMarker, WorkerInv, Deleting, Bound, Finishing, Typed, Untyped,
     OwnerLocks, session, registry, owner, supervisor, workers
<1>E. WorkersInv'
  <2>1. ASSUME NEW q \in Recovery \ {t} PROVE Leaves(q)
    BY <2>1, <1>1, <1>a, <1>x, <1>y, <1>k, <1>c, Actors DEF TypedVerifies, VerifySessionCleanupProof,
       Leaves, Dead, validBinding, Locks, Recovery, Workers, Locking, WorkerInv, Deleting, Bound,
       Finishing, Typed, Untyped, session, registry, owner, supervisor, workers
  <2>2. WorkerInv(t)'
    BY <1>1, <1>a, <1>x, <1>y, <1>k, <1>c, <1>o, Actors DEF TypedVerifies, VerifySessionCleanupProof,
       WorkerInv, Dead, validBinding, Locks, Deleting, Bound, Finishing, Typed, Untyped, Locking,
       session, registry, owner, supervisor, workers, OwnerInv, RemovedInv
  <2> QED
    BY <1>1, <2>1, <2>2, WorkerKept DEF WorkersInv
<1>F. StartupInv'
  BY <1>1, <1>a, <1>x, <1>y, <1>k, <1>c, <1>o, Actors DEF TypedVerifies, VerifySessionCleanupProof,
     StartupInv, Deleted, Completing, Locks, session, registry, owner, supervisor, workers, Locking
<1> QED
  BY <1>u, <1>A, <1>B, <1>C, <1>E, <1>F DEF IndInv

LEMMA ReclaimBeginHolds == ASSUME IndInv, ReclaimBegin PROVE IndInv'
<1>1. /\ TypeOK /\ OwnerLocks /\ OwnerInv /\ ProcessInv /\ WorkersInv /\ StartupInv /\ RemovedInv
  BY DEF IndInv
<1>k. Locking(Startup)
  BY <1>1, Actors DEF ReclaimBegin, Locking, TypeOK, OwnerLocks, HoldsGuard, HoldsFence, Locks, Free,
     Take
<1>c. /\ pc' \in [Workers -> WorkerSteps]
      /\ \A q \in Workers \ {Startup} : pc'[q] = pc[q]
  BY <1>1, Actors DEF ReclaimBegin, Goto, TypeOK, WorkerSteps
<1>u. ProcessInv' /\ RemovedInv'
  BY <1>1 DEF ReclaimBegin, ProcessInv, Dead, RemovedInv, session, registry, owner, supervisor
<1>A. TypeOK'
  BY <1>1, <1>k, <1>c DEF ReclaimBegin, TypeOK, session, registry, owner, supervisor, workers, Locking
<1>B. OwnerLocks'
  BY <1>1, <1>k, Actors, OwnerLocksKept DEF ReclaimBegin, owner
<1>C. OwnerInv'
  BY <1>1, <1>k, <1>c, Actors DEF ReclaimBegin, Free, Take, Goto, OwnerInv, Creating, Arming, Using,
     Completing, Deleted, HoldsGuard, HoldsFence, Retaining, validBinding, NoRecord, NoCapability,
     NoMarker, ProcessInv, RemovedInv, OwnerLocks, Locks, session, registry, owner, supervisor,
     workers, Locking
<1>E. WorkersInv'
  <2>1. ASSUME NEW q \in Recovery PROVE Leaves(q)
    BY <2>1, <1>1, <1>k, <1>c, Actors DEF ReclaimBegin, Free, Leaves, Dead, validBinding, Locks,
       Recovery, Workers, Locking, OwnerLocks, OwnerInv, ProcessInv, RemovedInv, Creating, Arming,
       Using, Completing, Deleted, HoldsGuard, HoldsFence, Retaining, session, registry, owner,
       supervisor, workers
  <2> QED
    BY <1>1, <2>1, WorkerKept DEF WorkersInv
<1>F. StartupInv'
  BY <1>1, <1>k, <1>c, Actors DEF ReclaimBegin, Free, Take, Goto, StartupInv, Deleted, Completing,
     Locks, OwnerInv, OwnerLocks, Using, Arming, Creating, HoldsGuard, session, registry, owner,
     supervisor, workers, Locking
<1> QED
  BY <1>u, <1>A, <1>B, <1>C, <1>E, <1>F DEF IndInv

LEMMA ReclaimInspectHolds == ASSUME IndInv, ReclaimInspect PROVE IndInv'
<1>1. /\ TypeOK /\ OwnerLocks /\ OwnerInv /\ ProcessInv /\ WorkersInv /\ StartupInv /\ RemovedInv
  BY DEF IndInv
<1>x. opc = "exit" \/ guardFile \/ opc \in Deleted \ {"rmguard"}
  BY <1>1, Actors DEF ReclaimInspect, OwnerInv, OwnerSteps, TypeOK, Creating, Using, Arming, Deleted,
     Completing
<1>o. \/ pc'[Startup] = "idle"
      \/ /\ pc'[Startup] = "reclaim" /\ ~prot
         /\ ~guardFile \/ lock'["guard"] = Startup
  BY <1>1, Actors DEF ReclaimInspect, Goto, Return, Take, TypeOK, Locks
<1>k. Locking(Startup)
  BY <1>1, Actors DEF ReclaimInspect, Locking, TypeOK, OwnerLocks, HoldsGuard, HoldsFence, Locks, Free,
     Take, Return, DropAll
<1>c. /\ pc' \in [Workers -> WorkerSteps]
      /\ \A q \in Workers \ {Startup} : pc'[q] = pc[q]
  BY <1>1, Actors DEF ReclaimInspect, Goto, Return, TypeOK, WorkerSteps
<1>t. /\ guardFile' \in BOOLEAN
  BY <1>1, GenBounds DEF ReclaimInspect, Free, TypeOK
<1>u. ProcessInv' /\ RemovedInv'
  BY <1>1 DEF ReclaimInspect, ProcessInv, Dead, RemovedInv, registry, owner, supervisor
<1>A. TypeOK'
  BY <1>1, <1>k, <1>c, <1>t DEF ReclaimInspect, TypeOK, session, registry, owner, supervisor, workers,
     Locking
<1>B. OwnerLocks'
  BY <1>1, <1>k, Actors, OwnerLocksKept DEF ReclaimInspect, owner
<1>C. OwnerInv'
  BY <1>1, <1>x, <1>o, <1>k, <1>c, Actors DEF ReclaimInspect, Free, Take, Goto, Return, DropAll,
     OwnerInv, Creating, Arming, Using, Completing, Deleted, HoldsGuard, HoldsFence, Retaining,
     validBinding, NoRecord, NoCapability, NoMarker, ProcessInv, RemovedInv, OwnerLocks, Locks,
     session, registry, owner, supervisor, workers, Locking
<1>E. WorkersInv'
  <2>1. ASSUME NEW q \in Recovery PROVE Leaves(q)
    BY <2>1, <1>1, <1>x, <1>k, <1>c, Actors DEF ReclaimInspect, Free, Leaves, Dead, validBinding,
       Locks, Recovery, Workers, Locking, OwnerLocks, OwnerInv, ProcessInv, RemovedInv, Creating,
       Arming, Using, Completing, Deleted, HoldsGuard, HoldsFence, Retaining, session, registry, owner,
       supervisor, workers
  <2> QED
    BY <1>1, <2>1, WorkerKept DEF WorkersInv
<1>F. StartupInv'
  BY <1>1, <1>x, <1>o, <1>k, <1>c, Actors DEF ReclaimInspect, Free, Take, Goto, Return, DropAll,
     StartupInv, Deleted, Completing, Locks, OwnerInv, OwnerLocks, Using, Arming, Creating, HoldsGuard,
     session, registry, owner, supervisor, workers, Locking
<1> QED
  BY <1>u, <1>A, <1>B, <1>C, <1>E, <1>F DEF IndInv

LEMMA ReclaimHolds == ASSUME IndInv, Reclaim PROVE IndInv'
<1>1. /\ TypeOK /\ OwnerLocks /\ OwnerInv /\ ProcessInv /\ WorkersInv /\ StartupInv /\ RemovedInv
  BY DEF IndInv
<1>x. pc[Startup] = "reclaim" /\ ~prot
  BY <1>1 DEF Reclaim, StartupInv
<1>y. opc \in {"close", "rmprot", "exit"} \cup Completing \/ (opc = "rmguard" /\ lock["guard"] = Startup)
  BY <1>1, <1>x, Actors DEF OwnerInv, OwnerSteps, TypeOK, Creating, Using, Arming, Deleted, Completing,
     StartupInv, OwnerLocks, HoldsGuard
<1>k. Locking(Startup)
  BY <1>1, Actors DEF Reclaim, Locking, TypeOK, OwnerLocks, HoldsGuard, HoldsFence, Locks, Return,
     DropAll
<1>c. /\ pc' \in [Workers -> WorkerSteps]
      /\ \A q \in Workers \ {Startup} : pc'[q] = pc[q]
  BY <1>1, Actors DEF Reclaim, Goto, Return, TypeOK, WorkerSteps
<1>t. /\ root' \in BOOLEAN
      /\ guardFile' \in BOOLEAN
      /\ proof' \in {NoProof} \cup [kind : {"notarget", "settled"}, gen : 1..MaxGen]
      /\ lbind' \in Gens
  BY <1>1, GenBounds DEF Reclaim, TypeOK
<1>A. TypeOK'
  BY <1>1, <1>k, <1>c, <1>t DEF Reclaim, TypeOK, session, registry, owner, supervisor, workers, Locking
<1>B. OwnerLocks'
  BY <1>1, <1>k, Actors, OwnerLocksKept DEF Reclaim, owner
<1>C. OwnerInv'
  <2>1. opc \in {"close", "rmprot", "exit"} \cup Completing
    BY <1>1, <1>y, Actors DEF OwnerLocks, HoldsGuard
  <2> QED
    BY <1>1, <2>1 DEF Reclaim, OwnerInv, Creating, Using, Arming, Deleted, Completing, Retaining,
       validBinding, NoProof, registry, owner, supervisor
<1>D. ProcessInv'
  <2>1. Dead
    BY <1>1, <1>x, <1>y DEF ProcessInv, Dead, Completing
  <2> QED
    BY <1>1, <1>x, <2>1 DEF Reclaim, ProcessInv, Dead, NoProof, NoMarker, registry, owner, supervisor
<1>E. WorkersInv'
  <2>1. ASSUME NEW q \in Recovery PROVE Leaves(q)
    BY <2>1, <1>1, <1>x, <1>y, <1>k, <1>c, Actors DEF Reclaim, Leaves, Dead, validBinding, Locks,
       Recovery, Workers, Locking, OwnerLocks, OwnerInv, ProcessInv, RemovedInv, Creating, Arming,
       Using, Completing, Deleted, HoldsGuard, HoldsFence, Retaining, session, registry, owner,
       supervisor, workers
  <2> QED
    BY <1>1, <2>1, WorkerKept DEF WorkersInv
<1>F. StartupInv'
  BY <1>1, <1>x, <1>y, <1>k, <1>c, Actors DEF Reclaim, Goto, Return, DropAll, StartupInv, Deleted,
     Completing, Locks, OwnerInv, OwnerLocks, Using, Arming, Creating, HoldsGuard, session, registry,
     owner, supervisor, workers, Locking
<1>G. RemovedInv'
  BY <1>1, <1>x, <1>y, <1>k, <1>c, Actors DEF Reclaim, Goto, Return, DropAll, RemovedInv, NoRecord,
     NoCapability, OwnerInv, Completing, Deleted, session, registry, owner, supervisor, workers,
     Locking
<1> QED
  BY <1>A, <1>B, <1>C, <1>D, <1>E, <1>F, <1>G DEF IndInv

LEMMA AbandonHolds == ASSUME IndInv, NEW p \in Workers, Abandon(p) PROVE IndInv'
<1>1. /\ TypeOK /\ OwnerLocks /\ OwnerInv /\ ProcessInv /\ WorkersInv /\ StartupInv /\ RemovedInv
  BY DEF IndInv
<1>a. p # Owner /\ p # Nobody
  BY Actors
<1>k. Locking(p)
  BY <1>1, Actors, <1>a DEF Abandon, Locking, TypeOK, OwnerLocks, HoldsGuard, HoldsFence, Locks,
     Return, DropAll
<1>f. faults' \in 0..MaxFaults
  BY <1>1, FaultBounds DEF Abandon, Return, DropAll, Goto, TypeOK
<1>c. /\ pc' \in [Workers -> WorkerSteps]
      /\ \A q \in Workers \ {p} : pc'[q] = pc[q]
  BY <1>1, Actors DEF Abandon, Goto, Return, TypeOK, WorkerSteps
<1>u. ProcessInv' /\ RemovedInv'
  BY <1>1 DEF Abandon, ProcessInv, Dead, RemovedInv, session, registry, owner, supervisor
<1>A. TypeOK'
  BY <1>1, <1>k, <1>f, <1>c DEF Abandon, TypeOK, session, registry, owner, supervisor, workers, Locking
<1>B. OwnerLocks'
  BY <1>1, <1>a, <1>k, Actors, OwnerLocksKept DEF Abandon, owner
<1>C. OwnerInv'
  BY <1>1, <1>a, <1>k, <1>c, Actors DEF Abandon, Fault, Return, DropAll, Goto, OwnerInv, Creating,
     Arming, Using, Completing, Deleted, HoldsGuard, HoldsFence, Retaining, validBinding, NoRecord,
     NoCapability, NoMarker, ProcessInv, RemovedInv, OwnerLocks, Locks, session, registry, owner,
     supervisor, workers, Locking
<1>E. WorkersInv'
  <2>1. ASSUME NEW q \in Recovery \ {p} PROVE Leaves(q)
    BY <2>1, <1>1, <1>a, <1>k, <1>c, Actors DEF Abandon, Leaves, Dead, validBinding, Locks,
       Locking, session, registry, owner, supervisor
  <2>2. ASSUME p \in Recovery PROVE WorkerInv(p)'
    <3>1. pc'[p] = "idle" /\ auth' = auth
      BY <1>1 DEF Abandon, Return, Goto, TypeOK
    <3> QED
      BY <1>1, <2>2, <3>1 DEF WorkersInv, WorkerInv, Deleting, Bound, Finishing, Typed, Untyped
  <2> QED
    BY <1>1, <2>1, <2>2, WorkerKept DEF WorkersInv
<1>F. StartupInv'
  BY <1>1, <1>a, <1>k, <1>c, Actors DEF Abandon, Fault, Return, DropAll, Goto, StartupInv, Deleted,
     Completing, Locks, OwnerInv, OwnerLocks, Using, Arming, Creating, HoldsGuard, session, registry,
     owner, supervisor, workers, Locking
<1> QED
  BY <1>u, <1>A, <1>B, <1>C, <1>E, <1>F DEF IndInv

-----------------------------------------------------------------------------
LEMMA InitHolds == ASSUME Init PROVE IndInv
<1>1. TypeOK
  <2>1. 0 \in Gens /\ faults \in 0..MaxFaults
    BY SessionAssumption DEF Init, Gens
  <2>2. lock \in [Locks -> Workers \cup {Owner, Nobody}]
    BY DEF Init
  <2> QED
    BY <2>1, <2>2 DEF Init, TypeOK, OwnerSteps, SupervisorSteps, WorkerSteps
<1>2. OwnerLocks
  BY DEF Init, OwnerLocks, HoldsGuard, HoldsFence, Using, Arming, Locks
<1>3. OwnerInv
  BY DEF Init, OwnerInv, Creating, Using, Arming, Deleted, Completing, NoProof, Retaining
<1>4. ProcessInv
  BY DEF Init, ProcessInv, Dead, NoProof, NoMarker
<1>5. WorkersInv
  BY Actors DEF Init, WorkersInv, WorkerInv, Deleting, Bound, Finishing, Typed, Untyped
<1>6. StartupInv /\ RemovedInv
  BY Actors DEF Init, StartupInv, RemovedInv, NoRecord, NoCapability
<1> QED
  BY <1>1, <1>2, <1>3, <1>4, <1>5, <1>6 DEF IndInv

LEMMA StutterHolds == ASSUME IndInv, UNCHANGED vars PROVE IndInv'
<1>1. TypeOK' /\ OwnerLocks'
  BY DEF IndInv, vars, session, registry, owner, supervisor, workers, TypeOK, OwnerLocks
<1>2. OwnerInv'
  BY DEF IndInv, vars, session, registry, owner, supervisor, workers, OwnerInv, validBinding
<1>3. ProcessInv' /\ StartupInv' /\ RemovedInv'
  BY DEF IndInv, vars, session, registry, owner, supervisor, workers, ProcessInv, Dead, StartupInv,
     RemovedInv
<1>4. WorkersInv'
  BY DEF IndInv, vars, session, registry, owner, supervisor, workers, WorkersInv, WorkerInv, Dead,
     validBinding
<1> QED
  BY <1>1, <1>2, <1>3, <1>4 DEF IndInv

LEMMA SharedHolds == ASSUME IndInv, NEW p \in Recovery, SharedStep(p) PROVE IndInv'
  BY LeaseOpenHolds, LeaseMissingHolds, LeaseLockHolds, RecoveredRootHolds, RecoveredGuardHolds,
     RecoveredProtectionHolds, CompleteCapabilityHolds, CompleteRecordHolds, CompleteMarkerHolds,
     CompleteBindingHolds, CompleteEvidenceHolds
     DEF SharedStep

\* Every step of every process preserves the invariant.
LEMMA StepHolds == ASSUME IndInv, [Next]_vars PROVE IndInv'
<1>1. CASE OwnerStep
  BY <1>1, MakeRootHolds, MakeGuardHolds, ProtectHolds, PublishPreparedHolds, AdvanceChallengeHolds,
     ArmBeginHolds, ArmBindingHolds, ArmCapabilityHolds, ArmProofHolds, ArmRecordHolds,
     MarkCleanupPendingHolds, SpawnHolds, SendStartHolds, AwaitCleanupHolds, SupervisorLostHolds,
     GiveUpUnprovenHolds, FinishHolds, RemoveHolds, RemoveRootHolds, RemoveGuardHolds,
     RemoveProtectionHolds, CloseGuardHolds, RemovedBeginHolds, RemovedCapabilityHolds,
     RemovedRecordHolds, RemovedBindingHolds, RemovedEvidenceHolds, DeleteMarkerHolds
     DEF OwnerStep
<1>2. CASE OwnerFails
  BY <1>2, ProtectFailsHolds, PublishFailsHolds, ArmFailsHolds, StartTimeoutHolds, RemoveFailsHolds,
     OwnerDiesHolds
     DEF OwnerFails
<1>3. CASE SupervisorStep \/ TargetExits \/ SupervisorDies
  BY <1>3, AdoptHolds, RevokeProofHolds, ReadyHolds, StartTargetHolds, OwnerLostHolds, SettleHolds,
     PublishProofHolds, ReportHolds, TargetExitsHolds, SupervisorDiesHolds
     DEF SupervisorStep
<1>4. ASSUME NEW r \in Recoverers, RecoverStep(r) PROVE IndInv'
  BY <1>4, SharedHolds, Actors, SnapshotHolds, LookupHolds, RecoverBusyHolds, RecoverReportsHolds,
     RecoverRestrictsHolds, RecoverContinuesHolds, RecoverVerifiesHolds
     DEF RecoverStep
<1>5. ASSUME NEW t \in TypedRecoverers, TypedStep(t) PROVE IndInv'
  BY <1>5, SharedHolds, Actors, AcquireRecoveryHolds, MatchCapabilityHolds, FinalizeRemovalHolds,
     FinalizeCompletedHolds, TypedVerifiesHolds
     DEF TypedStep
<1>6. CASE StartupStep \/ PruneRemoved
  BY <1>6, ReclaimBeginHolds, ReclaimInspectHolds, ReclaimHolds, PruneRemovedHolds DEF StartupStep
<1>7. ASSUME NEW p \in Workers, Abandon(p) PROVE IndInv'
  BY <1>7, AbandonHolds
<1>8. ASSUME NEW p \in Recovery, RecoveredRootFails(p) PROVE IndInv'
  BY <1>8, RecoveredRootFailsHolds
<1> QED
  BY <1>1, <1>2, <1>3, <1>4, <1>5, <1>6, <1>7, <1>8, StutterHolds DEF Next

LEMMA Invariance == Spec => []IndInv
<1>1. Init => IndInv
  BY InitHolds
<1>2. IndInv /\ [Next]_vars => IndInv'
  BY StepHolds
<1> QED
  BY <1>1, <1>2, PTL DEF Spec

-----------------------------------------------------------------------------
\* A root that is gone was deleted when no process could be alive any more, and
\* whoever holds the guard keeps everybody else from deleting.
LEMMA InUse == ASSUME IndInv PROVE InUseIsKept
<1>1. TypeOK /\ OwnerLocks /\ OwnerInv /\ ProcessInv /\ WorkersInv /\ StartupInv
  BY DEF IndInv
<1>2. TargetKeepsRoot
  BY <1>1 DEF ProcessInv, Dead, TargetKeepsRoot
<1>3. ASSUME NEW p \in Workers, pc[p] # "idle", lock["guard"] = p
      PROVE  opc = "exit" \/ opc \in Completing
  BY <1>1, <1>3, Actors DEF OwnerInv, OwnerLocks, TypeOK, OwnerSteps, Creating, HoldsGuard, Using,
     Arming,
     Completing
<1>4. ASSUME NEW p \in Workers, pc[p] \in {"verify", "rmroot", "rmguard", "rmprot", "reclaim"}
      PROVE  opc \in {"exit", "rmprot", "close"} \cup Completing
  <2>1. CASE p = Startup
    BY <1>1, <1>3, <1>4, <2>1 DEF StartupInv, Deleted
  <2>2. CASE p \in Recovery
    <3>1. WorkerInv(p)
      BY <1>1, <2>2 DEF WorkersInv
    <3>2. pc[p] # "reclaim"
      BY <2>2, <3>1 DEF WorkerInv, Recovery, Typed, Untyped, Bound, Deleting
    <3> QED
      BY <1>3, <1>4, <3>1, <3>2 DEF WorkerInv, Deleting
  <2> QED
    BY <2>1, <2>2 DEF Workers
<1>5. opc \in {"rmprot", "close"} \cup Completing => ~root
  BY <1>1 DEF OwnerInv, Deleted
<1>6. ActiveNeverTakenOver
  BY <1>4, <1>5 DEF ActiveNeverTakenOver, Completing
<1> QED
  BY <1>1, <1>2, <1>6 DEF InUseIsKept

\* A Session in use is left alone: while a contained process may be alive its
\* root stays, and nobody works under the guard of a live owner (removeLocked,
\* recoverSession, removeAbandonedSessions).
THEOREM SessionsInUseAreKept == Spec => []InUseIsKept
<1>1. IndInv => InUseIsKept
  BY InUse
<1> QED
  BY <1>1, Invariance, PTL

\* A record or capability that says removed comes after the deletion
\* (Tracker.Removed, Store.Recover, FinalizeRemoval).
THEOREM RemovalIsNeverAhead == Spec => []RemovedMeansGone
<1>1. IndInv => RemovedMeansGone
  BY DEF IndInv, RemovedInv, ProcessInv, Dead, RemovedMeansGone
<1> QED
  BY <1>1, Invariance, PTL

-----------------------------------------------------------------------------
\* What a step does to the evidence of a removal.
Advances == completionStays /\ markerOutlivesProjection

LEMMA NothingWritten == ASSUME UNCHANGED <<registry, marker>> PROVE Advances
  BY DEF registry, Advances, completionStays, markerOutlivesProjection

LEMMA OwnerAdvances == ASSUME IndInv, OwnerStep \/ OwnerFails PROVE Advances
<1>1. OwnerInv /\ ProcessInv /\ RemovedInv /\ TypeOK
  BY DEF IndInv
<1>2. CASE MakeRoot \/ MakeGuard \/ Protect \/ ArmBegin \/ ArmProof \/ Spawn \/ SendStart \/
      AwaitCleanup \/ SupervisorLost \/ GiveUpUnproven \/ RemoveRoot \/ RemoveGuard \/
      RemoveProtection \/ CloseGuard \/ RemovedBegin \/ ProtectFails \/ ArmFails \/
      StartTimeout \/ OwnerDies
  BY <1>2, NothingWritten DEF MakeRoot, MakeGuard, Protect, ArmBegin, ArmProof, Spawn, SendStart,
     AwaitCleanup, SupervisorLost, GiveUpUnproven, RemoveRoot, RemoveGuard, RemoveProtection,
     CloseGuard, RemovedBegin, ProtectFails, ArmFails, StartTimeout, OwnerDies
<1>3. CASE ArmBinding \/ RemovedBinding
  BY <1>3 DEF ArmBinding, RemovedBinding, Advances, completionStays, markerOutlivesProjection
<1>4. CASE ArmCapability \/ ArmRecord
  BY <1>1, <1>4 DEF ArmCapability, ArmRecord, OwnerInv, RemovedInv, Using, Arming, Advances,
     completionStays, markerOutlivesProjection
<1>5. CASE Remove \/ RemoveFails
  <2>1. rec.st # "removed" /\ cap' = cap /\ marker' = marker
    BY <1>1, <1>5 DEF Remove, RemoveFails, RemovedInv
  <2> QED
    BY <1>1, <2>1 DEF RemovedInv, Advances, completionStays, markerOutlivesProjection
<1>6. CASE RemovedCapability
  <2>1. cap # NoCapability
    BY <1>1, <1>6, ValidExists DEF RemovedCapability, OwnerInv
  <2>2. cap'.removed /\ rec' = rec /\ marker' = marker
    BY <1>1, <1>6, <2>1, CapabilityRemoved DEF RemovedCapability
  <2> QED
    BY <2>2 DEF Advances, completionStays, markerOutlivesProjection
<1>7. CASE RemovedRecord
  <2>1. rec # NoRecord
    BY <1>1, <1>7, ValidExists DEF RemovedRecord, OwnerInv
  <2>2. rec'.st = "removed" /\ cap' = cap /\ marker' = marker
    BY <1>1, <1>7, <2>1, RecordRemoved DEF RemovedRecord
  <2> QED
    BY <2>2 DEF Advances, completionStays, markerOutlivesProjection
<1>8. CASE RemovedEvidence
  BY <1>1, <1>8 DEF RemovedEvidence, OwnerInv, Advances, completionStays, markerOutlivesProjection
<1>9. CASE DeleteMarker
  BY <1>1, <1>9 DEF DeleteMarker, OwnerInv, Deleted, Completing, ProcessInv, Dead, registry, Advances,
     completionStays, markerOutlivesProjection
<1>p. CASE PublishPrepared \/ PublishFails \/ AdvanceChallenge
  BY <1>p DEF PublishPrepared, PublishFails, AdvanceChallenge, NoMarker, registry, Advances,
     completionStays, markerOutlivesProjection
<1>m. CASE MarkCleanupPending \/ Finish
  <2>1. registry' = registry /\ (marker # NoMarker => marker' # NoMarker)
    BY <1>1, <1>m, Rephased DEF MarkCleanupPending, Finish
  <2> QED
    BY <2>1 DEF registry, Advances, completionStays, markerOutlivesProjection
<1> QED
  BY <1>2, <1>3, <1>4, <1>5, <1>6, <1>7, <1>8, <1>9, <1>p, <1>m DEF OwnerStep, OwnerFails

LEMMA SharedAdvances == ASSUME IndInv, NEW p \in Recovery, SharedStep(p) PROVE Advances
<1>1. OwnerInv /\ ProcessInv /\ RemovedInv /\ TypeOK /\ WorkerInv(p)
  BY DEF IndInv, WorkersInv
<1>2. CASE LeaseOpen(p) \/ LeaseLock(p) \/ RecoveredRoot(p) \/ RecoveredGuard(p) \/
      RecoveredProtection(p)
  BY <1>2, NothingWritten DEF LeaseOpen, LeaseLock, RecoveredRoot, RecoveredGuard,
     RecoveredProtection
<1>3. CASE LeaseMissing(p)
  BY <1>3 DEF LeaseMissing, restrict, Advances, completionStays, markerOutlivesProjection
<1>4. CASE CompleteCapability(p)
  <2>1. cap # NoCapability
    BY <1>1, <1>4, ValidExists DEF CompleteCapability, WorkerInv, Bound, Finishing
  <2>2. cap'.removed /\ rec' = rec /\ marker' = marker
    BY <1>1, <1>4, <2>1, CapabilityRemoved DEF CompleteCapability
  <2> QED
    BY <2>2 DEF Advances, completionStays, markerOutlivesProjection
<1>5. CASE CompleteRecord(p)
  <2>1. rec # NoRecord
    BY <1>1, <1>5, ValidExists DEF CompleteRecord, WorkerInv, Bound, Finishing
  <2>2. rec'.st = "removed" /\ cap' = cap /\ marker' = marker
    BY <1>1, <1>5, <2>1, RecordRemoved DEF CompleteRecord
  <2> QED
    BY <2>2 DEF Advances, completionStays, markerOutlivesProjection
<1>6. CASE CompleteMarker(p)
  <2>1. ~root /\ ~target /\ registry' = registry
    BY <1>1, <1>6 DEF CompleteMarker, WorkerInv, Finishing, ProcessInv, Dead
  <2> QED
    BY <2>1 DEF registry, Advances, completionStays, markerOutlivesProjection
<1>7. CASE CompleteBinding(p)
  BY <1>7 DEF CompleteBinding, Advances, completionStays, markerOutlivesProjection
<1>8. CASE CompleteEvidence(p)
  <2>1. rec.st = "removed" /\ ~bound
    BY <1>1, <1>8 DEF CompleteEvidence, WorkerInv, Finishing
  <2> QED
    BY <1>8, <2>1 DEF CompleteEvidence, Advances, completionStays, markerOutlivesProjection
<1> QED
  BY <1>2, <1>3, <1>4, <1>5, <1>6, <1>7, <1>8 DEF SharedStep

LEMMA StepAdvances == ASSUME IndInv, [Next]_vars PROVE Advances
<1>1. CASE OwnerStep \/ OwnerFails
  BY <1>1, OwnerAdvances
<1>2. CASE SupervisorStep \/ TargetExits \/ SupervisorDies
  BY <1>2, NothingWritten
     DEF SupervisorStep, TargetExits, SupervisorDies, Adopt, RevokeProof, Ready, StartTarget, OwnerLost, Settle, PublishProof, Report
<1>3. ASSUME NEW r \in Recoverers, RecoverStep(r) PROVE Advances
  <2>1. CASE SharedStep(r)
    BY <1>3, <2>1, SharedAdvances, Actors
  <2>2. CASE Snapshot(r) \/ Lookup(r) \/ RecoverBusy(r) \/ RecoverReports(r) \/ RecoverContinues(r)
    BY <2>2, NothingWritten DEF Snapshot, Lookup, RecoverBusy, RecoverReports, RecoverContinues
  <2>3. CASE RecoverRestricts(r)
    BY <2>3 DEF RecoverRestricts, restrict, Advances, completionStays, markerOutlivesProjection
  <2>4. CASE RecoverVerifies(r)
    <3>1. rec.st = "removed" => ~root
      BY DEF IndInv, RemovedInv
    <3>2. rec.st = "removed" => rec' = rec
      BY <2>4, <3>1 DEF RecoverVerifies, restrict, VerifySessionCleanupProof
    <3> QED
      BY <2>4, <3>2 DEF RecoverVerifies, Advances, completionStays, markerOutlivesProjection
  <2> QED
    BY <1>3, <2>1, <2>2, <2>3, <2>4 DEF RecoverStep
<1>4. ASSUME NEW t \in TypedRecoverers, TypedStep(t) PROVE Advances
  <2>1. CASE SharedStep(t)
    BY <1>4, <2>1, SharedAdvances, Actors
  <2>2. CASE ~SharedStep(t)
    BY <1>4, <2>2, NothingWritten DEF TypedStep, AcquireRecovery, MatchCapability, FinalizeRemoval,
       FinalizeCompleted, TypedVerifies
  <2> QED
    BY <2>1, <2>2
<1>5. CASE StartupStep
  BY <1>5, NothingWritten DEF StartupStep, ReclaimBegin, ReclaimInspect, Reclaim
<1>6. CASE PruneRemoved
  BY <1>6 DEF PruneRemoved, completed, NoCapability, Advances, completionStays, markerOutlivesProjection
<1>7. ASSUME NEW p \in Workers, Abandon(p) PROVE Advances
  BY <1>7, NothingWritten DEF Abandon
<1>8. ASSUME NEW p \in Recovery, RecoveredRootFails(p) PROVE Advances
  BY <1>8, NothingWritten DEF RecoveredRootFails
<1>9. CASE UNCHANGED vars
  BY <1>9, NothingWritten DEF vars
<1> QED
  BY <1>1, <1>2, <1>3, <1>4, <1>5, <1>6, <1>7, <1>8, <1>9 DEF Next

\* Completion is never taken back, and the marker of an identity goes last
\* (restrict, pruneRemovedLocked, DeleteMarkerAfterProjectionRemoval).
THEOREM EvidenceGoesInOrder == Spec => CompletionOnlyAdvances
<1>1. IndInv /\ [Next]_vars => [completionStays /\ markerOutlivesProjection]_vars
  BY StepAdvances DEF Advances
<1> QED
  BY <1>1, Invariance, PTL DEF Spec, CompletionOnlyAdvances


=============================================================================
