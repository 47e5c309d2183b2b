-------------------------- MODULE SessionRecovery --------------------------
(***************************************************************************)
(* One tracked ACS Session from its creation to its removal: the process   *)
(* that owns it (internal/session, launch/session.go, sessionops.Tracker), *)
(* the Linux supervisor of its contained processes (recovery_proof_linux,  *)
(* supervisor_linux_amd64), `acs session recover` (sessionops.Recover),    *)
(* `acs codex auth recover` (CodexAuthService.Recover, FinalizeRemoval),   *)
(* and the reclamation another ACS performs when it starts.                *)
(*                                                                         *)
(* Any of them can die or fail between two durable steps.  Every write is  *)
(* an atomic rename followed by a directory sync, so a step either         *)
(* happened or did not.                                                    *)
(*                                                                         *)
(* Abstractions.  The random challenge of a process generation is the      *)
(* generation number; 0 is the one a Codex marker is first published with. *)
(* The revision of a record only tells a reader that it changed: `stale`   *)
(* holds the readers whose snapshot was overtaken.  The contents of the    *)
(* root are its cleanup proof and Linux binding; the projected credential  *)
(* and its refresh are left out.  A recovery that dies, or whose next call *)
(* fails, releases its locks and may be run again.                         *)
(***************************************************************************)
EXTENDS Naturals

CONSTANTS
    Owner,              \* the ACS process that created the Session
    Startup,            \* another ACS process creating a Session of its own
    Recoverers,         \* runs of acs session recover
    TypedRecoverers,    \* runs of acs codex auth recover
    Nobody,             \* the holder of a free lock
    MaxGen,             \* bound: contained processes of the Session
    MaxFaults           \* bound: deaths, failed calls and expired timers

Recovery == Recoverers \cup TypedRecoverers
Workers == Recovery \cup {Startup}
Locks == {"coord", "guard", "fence", "id"}

ASSUME SessionAssumption ==
    /\ Recoverers \cap TypedRecoverers = {}
    /\ {Owner, Startup, Nobody} \cap Recovery = {}
    /\ Owner # Startup /\ Owner # Nobody /\ Startup # Nobody
    /\ MaxGen \in Nat /\ MaxFaults \in Nat

VARIABLES
    typed,      \* a Codex Session, owned by an identity marker
    root,       \* the Session directory exists
    guardFile,  \* <root>.lock exists
    prot,       \* <root>.recovery exists
    proof,      \* the cleanup proof: its kind and generation
    lbind,      \* generation of the Linux cleanup binding, 0 for none
    rec,        \* the public record
    cap,        \* the private capability; generation 0 for none
    bound,      \* the root binding exists
    marker,     \* the Codex identity marker
    lock,       \* holder of each lock
    opc,        \* the owner's next step
    gen,        \* Tracker.generation
    retained,   \* a started process still holds a lease reference
    spc,        \* the supervisor's next step
    chan,       \* protocol bytes exchanged with the current supervisor
    target,     \* some contained process is alive
    pc,         \* next step of every other process
    auth,       \* what it knows of the identity marker
    stale,      \* those whose snapshot of record and capability is outdated
    faults      \* faults so far

session == <<root, guardFile, prot, proof, lbind>>
registry == <<rec, cap, bound>>
owner == <<opc, gen, retained>>
supervisor == <<spc, chan, target>>
workers == <<pc, auth>>
vars == <<typed, session, registry, marker, lock, owner, supervisor, workers, stale, faults>>

Gens == 0..MaxGen
NoProof == [kind |-> "none", gen |-> 0]
NoRecord == [st |-> "none", gen |-> 0, comp |-> 0]
NoCapability == [gen |-> 0, removed |-> FALSE]
NoMarker == [phase |-> "none", chal |-> 0]

RecordStates == {"active", "settling", "retryable", "unproven", "removable",
                 "removed", "unknown"}

OwnerSteps == {"create", "guard", "protect", "publish", "work", "failed", "arm",
               "armBind", "armCap", "armProof", "armRecord", "pending", "spawn",
               "awaitR", "awaitX", "unproven", "settling", "rmroot", "rmguard",
               "rmprot", "close", "removed", "wcap", "wrec", "wbind", "wcapfile",
               "wmarker", "exit"}
SupervisorSteps == {"none", "adopt", "revoke", "revoked", "ready", "running",
                    "lost", "exited", "settled", "settledX", "report", "ended"}
WorkerSteps == {"idle", "lookup", "fence", "match", "tfence", "tdone", "lease",
                "flock", "verify", "rmroot", "rmguard", "rmprot", "wcap", "wrec",
                "wmarker", "wbind", "wcapfile", "inspect", "reclaim"}

-----------------------------------------------------------------------------
(* Locks, faults, and what the evidence says. *)

Free(l) == lock[l] = Nobody
Take(l, p) == [lock EXCEPT ![l] = p]
Drop(l) == [lock EXCEPT ![l] = Nobody]
DropAll(p) == [l \in Locks |-> IF lock[l] = p THEN Nobody ELSE lock[l]]

\* A fault of the environment: at most MaxFaults of them.
Fault == faults < MaxFaults /\ faults' = faults + 1

validBinding == cap.gen # 0 /\ rec.gen = cap.gen

\* Mutant: the binding may not be missing even after completion.
bindingLostAlways == ~bound

\* A capability without its root binding is complete only at the very end.
bindingLost == ~bound /\ ~(rec.st = "removed" /\ cap.removed)

\* VerifySessionCleanupProof: before the first Linux binding the prepared
\* no-target proof counts; afterwards only a settlement of that binding.
VerifySessionCleanupProof(challenge) ==
    /\ root
    /\ IF lbind = 0 THEN proof = [kind |-> "notarget", gen |-> challenge]
       ELSE lbind = challenge /\ proof = [kind |-> "settled", gen |-> challenge]

\* A write of the record or the capability outdates every snapshot.
Outdate == stale' = Recovery

-----------------------------------------------------------------------------
(* The owner creates the Session and, for Codex, publishes its marker. *)

\* createSession: the root, under the startup coordinator.
MakeRoot ==
    /\ opc = "create" /\ Free("coord")
    /\ root' = TRUE /\ lock' = Take("coord", Owner) /\ opc' = "guard"
    /\ UNCHANGED <<typed, guardFile, prot, proof, lbind, registry, marker, gen, retained,
                   supervisor, workers, stale, faults>>

MakeGuard ==
    /\ opc = "guard"
    /\ guardFile' = TRUE /\ lock' = Take("guard", Owner) /\ opc' = "protect"
    /\ UNCHANGED <<typed, root, prot, proof, lbind, registry, marker, gen, retained,
                   supervisor, workers, stale, faults>>

\* createRecoveryProtection, before the coordinator is released.
Protect ==
    /\ opc = "protect"
    /\ prot' = TRUE /\ lock' = Drop("coord")
    /\ opc' = IF typed THEN "publish" ELSE "work"
    /\ UNCHANGED <<typed, root, guardFile, proof, lbind, registry, marker, gen, retained,
                   supervisor, workers, stale, faults>>

ProtectFails ==
    /\ opc = "protect" /\ Fault
    /\ root' = FALSE /\ guardFile' = FALSE /\ prot' \in BOOLEAN
    /\ lock' = DropAll(Owner) /\ opc' = "exit"
    /\ UNCHANGED <<typed, proof, lbind, registry, marker, gen, retained,
                   supervisor, workers, stale>>

PublishPrepared ==
    /\ opc = "publish"
    /\ marker' = [phase |-> "prepared", chal |-> 0] /\ opc' = "work"
    /\ UNCHANGED <<typed, session, registry, lock, gen, retained, supervisor, workers,
                   stale, faults>>

\* The error paths of createResourceBindingForTarget: the marker is certainly
\* absent and the Session is removed, or it may exist and both are preserved.
PublishFails ==
    /\ opc = "publish" /\ Fault
    /\ \/ /\ opc' = "settling"
          /\ UNCHANGED <<marker, lock>>
       \/ /\ marker' \in {[phase |-> ph, chal |-> 0] : ph \in {"prepared", "recoverable"}}
          /\ opc' = "exit" /\ lock' = DropAll(Owner)
    /\ UNCHANGED <<typed, session, registry, gen, retained, supervisor, workers, stale>>

-----------------------------------------------------------------------------
(* The owner runs contained processes, one generation after the other. *)

\* advanceProcessChallenge.
AdvanceChallenge ==
    /\ opc = "work" /\ gen < MaxGen /\ opc' = "arm"
    /\ marker' = IF typed THEN [phase |-> "prepared", chal |-> gen + 1] ELSE marker
    /\ UNCHANGED <<typed, session, registry, lock, gen, retained, supervisor, workers,
                   stale, faults>>

armAdmitted ==
    /\ IF rec = NoRecord THEN gen = 0
       ELSE gen # 0 /\ rec.gen = gen /\ rec.st = "active"
    /\ bound \/ gen = 0

\* Arm takes the fence without waiting and checks that nothing changed.
ArmBegin ==
    /\ opc = "arm"
    /\ IF Free("fence") /\ armAdmitted
       THEN opc' = "armBind" /\ lock' = Take("fence", Owner)
       ELSE opc' = "failed" /\ UNCHANGED lock
    /\ UNCHANGED <<typed, session, registry, marker, gen, retained, supervisor, workers,
                   stale, faults>>

ArmBinding ==
    /\ opc = "armBind" /\ bound' = TRUE /\ opc' = "armCap"
    /\ UNCHANGED <<typed, session, rec, cap, marker, lock, gen, retained, supervisor,
                   workers, stale, faults>>

ArmCapability ==
    /\ opc = "armCap" /\ cap' = [gen |-> gen + 1, removed |-> FALSE] /\ opc' = "armProof" /\ Outdate
    /\ UNCHANGED <<typed, session, rec, bound, marker, lock, gen, retained, supervisor,
                   workers, faults>>

\* PrepareSessionCleanupProof: evidence that no subprocess has started.
ArmProof ==
    /\ opc = "armProof" /\ proof' = [kind |-> "notarget", gen |-> gen + 1] /\ opc' = "armRecord"
    /\ UNCHANGED <<typed, root, guardFile, prot, lbind, registry, marker, lock, gen, retained,
                   supervisor, workers, stale, faults>>

ArmRecord ==
    /\ opc = "armRecord"
    /\ rec' = [st |-> "active", gen |-> gen + 1, comp |-> 0] /\ Outdate
    /\ gen' = gen + 1 /\ lock' = Drop("fence")
    /\ opc' = IF typed THEN "pending" ELSE "spawn"
    /\ UNCHANGED <<typed, session, cap, bound, marker, retained, supervisor, workers, faults>>

\* A failed write of Arm: no process is started, the Session is given up.
ArmFails ==
    /\ opc \in {"armBind", "armCap", "armProof", "armRecord"} /\ Fault
    /\ lock' = Drop("fence") /\ opc' = "failed"
    /\ UNCHANGED <<typed, session, registry, marker, gen, retained, supervisor, workers, stale>>

MarkCleanupPending ==
    /\ opc = "pending" /\ marker' = [marker EXCEPT !.phase = "pending"] /\ opc' = "spawn"
    /\ UNCHANGED <<typed, session, registry, lock, gen, retained, supervisor, workers,
                   stale, faults>>

\* prepareRetainedProcess and Start.  Preparation may be refused, give no
\* process that can be retained, or give one that cannot be started.
Spawn ==
    /\ opc = "spawn"
    /\ \/ /\ spc' = "adopt" /\ chan' = {} /\ retained' = TRUE /\ opc' = "awaitR"
          /\ UNCHANGED faults
       \/ /\ Fault /\ opc' = "failed"
          /\ UNCHANGED <<spc, chan, retained>>
       \/ /\ Fault /\ opc' = "unproven" /\ retained' \in BOOLEAN
          /\ UNCHANGED <<spc, chan>>
    /\ UNCHANGED <<typed, session, registry, marker, lock, gen, target, workers, stale>>

\* Start: ready was received, authorise the target.
SendStart ==
    /\ opc = "awaitR" /\ "R" \in chan
    /\ chan' = chan \cup {"S"} /\ opc' = "awaitX"
    /\ UNCHANGED <<typed, session, registry, marker, lock, gen, retained, spc, target,
                   workers, stale, faults>>

\* Start gives up on a slow supervisor and kills it: cleanup is unproven.
StartTimeout ==
    /\ opc \in {"awaitR", "awaitX"} /\ Fault
    /\ spc' = "ended" /\ opc' = "unproven"
    /\ UNCHANGED <<typed, session, registry, marker, lock, gen, retained, chan, target,
                   workers, stale>>

\* Wait: the settlement report releases the lease reference.
AwaitCleanup ==
    /\ opc = "awaitX" /\ "X" \in chan
    /\ retained' = FALSE /\ opc' = "work"
    /\ UNCHANGED <<typed, session, registry, marker, lock, gen, supervisor, workers, stale, faults>>

SupervisorLost ==
    /\ opc \in {"awaitR", "awaitX"} /\ spc = "ended" /\ "X" \notin chan
    /\ opc' = "unproven"
    /\ UNCHANGED <<typed, session, registry, marker, lock, gen, retained, supervisor,
                   workers, stale, faults>>

\* Codex leaves the pending marker to recovery; other targets call Remove.
GiveUpUnproven ==
    /\ opc = "unproven"
    /\ IF typed THEN opc' = "exit" /\ lock' = DropAll(Owner)
       ELSE opc' = "settling" /\ UNCHANGED lock
    /\ UNCHANGED <<typed, session, registry, marker, gen, retained, supervisor, workers,
                   stale, faults>>

-----------------------------------------------------------------------------
(* The owner removes the Session. *)

\* The run is over, with or without success: MarkRecoverable, then Remove.
Finish ==
    /\ opc \in {"work", "failed"} /\ opc' = "settling"
    /\ marker' = IF typed THEN [marker EXCEPT !.phase = "recoverable"] ELSE marker
    /\ UNCHANGED <<typed, session, registry, lock, gen, retained, supervisor, workers,
                   stale, faults>>

\* Tracker.transition: skipped when the fence is held by somebody else.
transition(state) ==
    IF gen # 0 /\ Free("fence") /\ rec # NoRecord /\ rec.gen = gen
    THEN rec' = [rec EXCEPT !.st = state] /\ Outdate
    ELSE UNCHANGED <<rec, stale>>

\* Session.Remove: best-effort settling, then give back the reference.  While
\* a process is retained the root stays and only this process's exit follows.
Remove ==
    /\ opc = "settling" /\ transition("settling")
    /\ IF retained THEN opc' = "exit" /\ lock' = DropAll(Owner)
       ELSE opc' = "rmroot" /\ UNCHANGED lock
    /\ UNCHANGED <<typed, session, cap, bound, marker, gen, retained, supervisor, workers, faults>>

\* removeLocked deletes the root, the guard and the protection, in this order.
RemoveRoot ==
    /\ opc = "rmroot"
    /\ root' = FALSE /\ proof' = NoProof /\ lbind' = 0 /\ opc' = "rmguard"
    /\ UNCHANGED <<typed, guardFile, prot, registry, marker, lock, gen, retained,
                   supervisor, workers, stale, faults>>

RemoveGuard ==
    /\ opc = "rmguard" /\ guardFile' = FALSE /\ opc' = "rmprot"
    /\ UNCHANGED <<typed, root, prot, proof, lbind, registry, marker, lock, gen,
                   retained, supervisor, workers, stale, faults>>

RemoveProtection ==
    /\ opc = "rmprot" /\ prot' = FALSE /\ opc' = "close"
    /\ UNCHANGED <<typed, root, guardFile, proof, lbind, registry, marker, lock, gen,
                   retained, supervisor, workers, stale, faults>>

CloseGuard ==
    /\ opc = "close" /\ lock' = Drop("guard") /\ opc' = "removed"
    /\ UNCHANGED <<typed, session, registry, marker, gen, retained, supervisor, workers,
                   stale, faults>>

\* os.RemoveAll stopped by an error has deleted some of the contents.
incompleteRemoveAll ==
    \/ proof' = NoProof /\ lbind' \in {0, lbind}
    \/ proof' = proof /\ lbind' = 0

\* A deletion fails: the observer records retryable, the guard is given up
\* (PreserveForRecovery, or the end of the process).  An incomplete RemoveAll
\* may have taken the proof or the Linux binding already.
RemoveFails ==
    /\ opc \in {"rmroot", "rmguard", "rmprot"} /\ Fault
    /\ transition("retryable")
    /\ \/ UNCHANGED <<proof, lbind>>
       \/ opc = "rmroot" /\ incompleteRemoveAll
    /\ opc' = "exit" /\ lock' = DropAll(Owner)
    /\ UNCHANGED <<typed, root, guardFile, prot, cap, bound, marker, gen, retained,
                   supervisor, workers>>

\* Tracker.Removed: one attempt to take the fence and check the evidence.
RemovedBegin ==
    /\ opc = "removed"
    /\ \/ gen = 0 /\ opc' = "wmarker" /\ UNCHANGED lock
       \/ /\ gen # 0 /\ Free("fence") /\ rec.gen = gen /\ validBinding
          /\ opc' = "wcap" /\ lock' = Take("fence", Owner)
       \/ /\ gen # 0 /\ ~(Free("fence") /\ rec.gen = gen /\ validBinding)
          /\ opc' = "exit" /\ lock' = DropAll(Owner)
    /\ UNCHANGED <<typed, session, registry, marker, gen, retained, supervisor, workers,
                   stale, faults>>

RemovedCapability ==
    /\ opc = "wcap" /\ cap' = [cap EXCEPT !.removed = TRUE] /\ Outdate /\ opc' = "wrec"
    /\ UNCHANGED <<typed, session, rec, bound, marker, lock, gen, retained, supervisor,
                   workers, faults>>

RemovedRecord ==
    /\ opc = "wrec" /\ rec' = [rec EXCEPT !.st = "removed", !.comp = cap.gen] /\ Outdate /\ opc' = "wbind"
    /\ UNCHANGED <<typed, session, cap, bound, marker, lock, gen, retained, supervisor,
                   workers, faults>>

RemovedBinding ==
    /\ opc = "wbind" /\ bound' = FALSE /\ opc' = "wcapfile"
    /\ UNCHANGED <<typed, session, rec, cap, marker, lock, gen, retained, supervisor,
                   workers, stale, faults>>

RemovedEvidence ==
    /\ opc = "wcapfile" /\ cap' = NoCapability /\ Outdate /\ lock' = Drop("fence") /\ opc' = "wmarker"
    /\ UNCHANGED <<typed, session, rec, bound, marker, gen, retained, supervisor, workers, faults>>

\* DeleteMarkerAfterProjectionRemoval and the end of the process.
DeleteMarker ==
    /\ opc = "wmarker" /\ marker' = NoMarker /\ opc' = "exit" /\ lock' = DropAll(Owner)
    /\ UNCHANGED <<typed, session, registry, gen, retained, supervisor, workers, stale, faults>>

\* The kernel releases the locks of a dead process.
OwnerDies ==
    /\ opc # "exit" /\ Fault
    /\ opc' = "exit" /\ lock' = DropAll(Owner)
    /\ UNCHANGED <<typed, session, registry, marker, gen, retained, supervisor, workers, stale>>

-----------------------------------------------------------------------------
(* The Linux supervisor and the contained processes. *)

\* linuxAdoptPreparedSession and linuxPrepareCleanup: bind this generation ...
Adopt ==
    /\ spc = "adopt"
    /\ IF guardFile /\ root /\ proof = [kind |-> "notarget", gen |-> gen]
       THEN lbind' = gen /\ spc' = "revoke"
       ELSE spc' = "ended" /\ UNCHANGED lbind
    /\ UNCHANGED <<typed, root, guardFile, prot, proof, registry, marker, lock, owner,
                   chan, target, workers, stale, faults>>

\* ... then revoke the no-target proof, before any child exists.
RevokeProof ==
    /\ spc = "revoke"
    /\ IF proof # NoProof THEN proof' = NoProof /\ spc' = "revoked"
       ELSE spc' = "ended" /\ UNCHANGED proof
    /\ UNCHANGED <<typed, root, guardFile, prot, lbind, registry, marker, lock, owner,
                   chan, target, workers, stale, faults>>

Ready ==
    /\ spc = "revoked" /\ chan' = chan \cup {"R"} /\ spc' = "ready"
    /\ UNCHANGED <<typed, session, registry, marker, lock, owner, target, workers, stale, faults>>

\* The target only executes on the owner's start byte.
StartTarget ==
    /\ spc = "ready" /\ "S" \in chan
    /\ target' = TRUE /\ spc' = "running"
    /\ UNCHANGED <<typed, session, registry, marker, lock, owner, chan, workers, stale, faults>>

\* The owner's end of the channel closed, or a protocol timer expired.
OwnerLost ==
    /\ spc \in {"revoked", "ready", "running"} /\ spc' = "lost"
    /\ \/ opc = "exit" /\ UNCHANGED faults
       \/ spc \in {"revoked", "ready"} /\ Fault
    /\ UNCHANGED <<typed, session, registry, marker, lock, owner, chan, target, workers, stale>>

\* External: the contained command ends, under a supervisor or without one.
TargetExits ==
    /\ target /\ target' = FALSE
    /\ spc' = IF spc = "running" THEN "exited" ELSE spc
    /\ UNCHANGED <<typed, session, registry, marker, lock, owner, chan, workers, stale, faults>>

\* linuxSettleSession: kill the cgroup and prove it empty, or fail to.
Settle ==
    /\ spc \in {"lost", "exited"}
    /\ \/ /\ target' = FALSE /\ UNCHANGED faults
          /\ spc' = IF spc = "exited" THEN "settledX" ELSE "settled"
       \/ Fault /\ spc' = "ended" /\ UNCHANGED target
    /\ UNCHANGED <<typed, session, registry, marker, lock, owner, chan, workers, stale>>

\* linuxSessionCleanup.finish: publish the proof in the root it is bound to.
PublishProof ==
    /\ spc \in {"settled", "settledX"}
    /\ IF root /\ lbind = gen
       THEN /\ proof' = [kind |-> "settled", gen |-> gen]
            /\ spc' = IF spc = "settledX" THEN "report" ELSE "ended"
       ELSE spc' = "ended" /\ UNCHANGED proof
    /\ UNCHANGED <<typed, root, guardFile, prot, lbind, registry, marker, lock, owner,
                   chan, target, workers, stale, faults>>

Report ==
    /\ spc = "report" /\ chan' = chan \cup {"X"} /\ spc' = "ended"
    /\ UNCHANGED <<typed, session, registry, marker, lock, owner, target, workers, stale, faults>>

SupervisorDies ==
    /\ spc \notin {"none", "ended"} /\ Fault /\ spc' = "ended"
    /\ UNCHANGED <<typed, session, registry, marker, lock, owner, chan, target, workers, stale>>

-----------------------------------------------------------------------------
(* Steps shared by both recovery commands. *)

Goto(p, step) == pc' = [pc EXCEPT ![p] = step]

\* Return to the caller: the deferred releases run.
Return(p) == Goto(p, "idle") /\ lock' = DropAll(p)

\* A recovery or a startup dies, or its next call fails.
Abandon(p) ==
    /\ pc[p] # "idle" /\ Fault /\ Return(p)
    /\ UNCHANGED <<typed, session, registry, marker, owner, supervisor, auth, stale>>

restrict(state) ==
    IF rec.st # "removed" THEN rec' = [rec EXCEPT !.st = state] /\ Outdate
    ELSE UNCHANGED <<rec, stale>>

\* RecoverPreparedSession accepts a root without protection.
allowUnprotected(p) == p \in TypedRecoverers /\ marker.phase = "prepared"

\* recoverSession under the coordinator: open the guard of a protected root ...
LeaseOpen(p) ==
    /\ pc[p] = "lease" /\ Free("coord") /\ root
    /\ IF guardFile /\ (prot \/ allowUnprotected(p))
       THEN Goto(p, "flock") /\ lock' = Take("coord", p)
       ELSE Return(p)
    /\ UNCHANGED <<typed, session, registry, marker, owner, supervisor, auth, stale, faults>>

\* ... or clear what is left of a root that no longer exists.
LeaseMissing(p) ==
    /\ pc[p] = "lease" /\ Free("coord") /\ ~root
    /\ IF prot /\ guardFile /\ ~Free("guard")
       THEN Return(p) /\ UNCHANGED <<guardFile, prot, rec, stale>>
       ELSE /\ guardFile' = (guardFile /\ ~prot) /\ prot' = FALSE
            /\ CASE p \in Recoverers -> restrict("unknown") /\ Return(p)
                 [] auth[p] = "untracked" -> Goto(p, "wmarker") /\ UNCHANGED <<rec, stale, lock>>
                 [] OTHER -> Return(p) /\ UNCHANGED <<rec, stale>>
    /\ UNCHANGED <<typed, root, proof, lbind, cap, bound, marker, owner, supervisor, auth, faults>>

\* Mutant: a held guard is not respected.
LeaseLockForced(p) ==
    /\ pc[p] = "flock"
    /\ Goto(p, "verify") /\ lock' = [Drop("coord") EXCEPT !["guard"] = p]
    /\ UNCHANGED <<typed, session, registry, marker, owner, supervisor, auth, stale, faults>>

\* The non-blocking flock of the guard that was opened: an active Session is
\* never taken over.
LeaseLock(p) ==
    /\ pc[p] = "flock"
    /\ IF Free("guard")
       THEN Goto(p, "verify") /\ lock' = [Drop("coord") EXCEPT !["guard"] = p]
       ELSE Return(p)
    /\ UNCHANGED <<typed, session, registry, marker, owner, supervisor, auth, stale, faults>>

\* RecoveredSessionLease.Remove, under the coordinator.
RecoveredRoot(p) ==
    /\ pc[p] = "rmroot" /\ Free("coord") /\ lock' = Take("coord", p)
    /\ root' = FALSE /\ proof' = NoProof /\ lbind' = 0 /\ Goto(p, "rmguard")
    /\ UNCHANGED <<typed, guardFile, prot, registry, marker, owner, supervisor, auth,
                   stale, faults>>

RecoveredRootFails(p) ==
    /\ pc[p] = "rmroot" /\ Free("coord") /\ Fault /\ incompleteRemoveAll /\ Return(p)
    /\ UNCHANGED <<typed, root, guardFile, prot, registry, marker, owner, supervisor, auth, stale>>

RecoveredGuard(p) ==
    /\ pc[p] = "rmguard" /\ guardFile' = FALSE /\ Goto(p, "rmprot")
    /\ UNCHANGED <<typed, root, prot, proof, lbind, registry, marker, lock, owner,
                   supervisor, auth, stale, faults>>

RecoveredProtection(p) ==
    /\ pc[p] = "rmprot" /\ prot' = FALSE
    /\ lock' = [Drop("coord") EXCEPT !["guard"] = Nobody]
    /\ Goto(p, IF auth[p] = "untracked" THEN "wmarker" ELSE "wcap")
    /\ UNCHANGED <<typed, root, guardFile, proof, lbind, registry, marker, owner,
                   supervisor, auth, stale, faults>>

\* Completion: removed capability, removed record, marker, binding, capability.
CompleteCapability(p) ==
    /\ pc[p] = "wcap" /\ cap' = [cap EXCEPT !.removed = TRUE] /\ Outdate /\ Goto(p, "wrec")
    /\ UNCHANGED <<typed, session, rec, bound, marker, lock, owner, supervisor, auth, faults>>

CompleteRecord(p) ==
    /\ pc[p] = "wrec" /\ rec' = [rec EXCEPT !.st = "removed", !.comp = cap.gen]
    /\ IF rec.st = "removed" THEN UNCHANGED stale ELSE Outdate
    /\ Goto(p, "wmarker")
    /\ UNCHANGED <<typed, session, cap, bound, marker, lock, owner, supervisor, auth, faults>>

\* Only a recovery that holds the identity deletes its marker.
CompleteMarker(p) ==
    /\ pc[p] = "wmarker"
    /\ marker' = IF auth[p] \in {"held", "untracked"} THEN NoMarker ELSE marker
    /\ IF auth[p] = "untracked" THEN Return(p) ELSE Goto(p, "wbind") /\ UNCHANGED lock
    /\ UNCHANGED <<typed, session, registry, owner, supervisor, auth, stale, faults>>

CompleteBinding(p) ==
    /\ pc[p] = "wbind" /\ bound' = FALSE /\ Goto(p, "wcapfile")
    /\ UNCHANGED <<typed, session, rec, cap, marker, lock, owner, supervisor, auth, stale, faults>>

CompleteEvidence(p) ==
    /\ pc[p] = "wcapfile" /\ cap' = NoCapability /\ Outdate /\ Return(p)
    /\ UNCHANGED <<typed, session, rec, bound, marker, owner, supervisor, auth, faults>>

-----------------------------------------------------------------------------
(* acs session recover: Store.Recover. *)

\* The unlocked snapshot; a Codex record with a matching capability is looked
\* up by its marker before the fence is taken.
Snapshot(r) ==
    /\ pc[r] = "idle" /\ rec # NoRecord
    /\ stale' = stale \ {r} /\ auth' = [auth EXCEPT ![r] = "none"]
    /\ Goto(r, IF typed /\ validBinding THEN "lookup" ELSE "fence")
    /\ UNCHANGED <<typed, session, registry, marker, lock, owner, supervisor, faults>>

\* AcquireBySession: the identity lock of the marker that names this root.
Lookup(r) ==
    /\ pc[r] = "lookup"
    /\ CASE marker = NoMarker ->
              auth' = [auth EXCEPT ![r] = "gone"] /\ Goto(r, "fence") /\ UNCHANGED lock
         [] marker # NoMarker /\ Free("id") /\ marker.chal = cap.gen ->
              auth' = [auth EXCEPT ![r] = "held"] /\ Goto(r, "fence") /\ lock' = Take("id", r)
         [] OTHER -> Return(r) /\ UNCHANGED auth
    /\ UNCHANGED <<typed, session, registry, marker, owner, supervisor, stale, faults>>

\* The fence is taken: the snapshot is still current, or the caller is told
\* that the Session is busy.
fenced(r) ==
    /\ pc[r] = "fence" /\ Free("fence") /\ rec # NoRecord
    /\ r \notin stale \/ auth[r] = "gone"

completed == rec.st = "removed" /\ cap = NoCapability
inconsistent == ~validBinding \/ bindingLost

RecoverBusy(r) ==
    /\ pc[r] = "fence" /\ ~fenced(r) /\ Return(r)
    /\ UNCHANGED <<typed, session, registry, marker, owner, supervisor, auth, stale, faults>>

\* Outcomes that leave the evidence alone: already removed, no Codex
\* authority, or a removed record whose capability does not say so.
RecoverReports(r) ==
    /\ fenced(r) /\ Return(r)
    /\ \/ completed
       \/ ~inconsistent /\ auth[r] = "gone" /\ rec.st # "removed"
       \/ ~inconsistent /\ rec.st = "removed" /\ ~cap.removed
    /\ UNCHANGED <<typed, session, registry, marker, owner, supervisor, auth, stale, faults>>

RecoverRestricts(r) ==
    /\ fenced(r) /\ ~completed /\ inconsistent
    /\ restrict("unproven") /\ Return(r)
    /\ UNCHANGED <<typed, session, cap, bound, marker, owner, supervisor, auth, faults>>

\* An interrupted completion continues; otherwise the lease comes next.
RecoverContinues(r) ==
    /\ fenced(r) /\ ~inconsistent
    /\ auth[r] = "gone" => rec.st = "removed"
    /\ cap.removed \/ rec.st # "removed"
    /\ lock' = Take("fence", r) /\ Goto(r, IF cap.removed THEN "wrec" ELSE "lease")
    /\ UNCHANGED <<typed, session, registry, marker, owner, supervisor, auth, stale, faults>>

\* Mutant: completion is published before the deletion.
RecoverCompletesFirst(r) ==
    /\ r \in Recoverers /\ pc[r] = "verify"
    /\ IF VerifySessionCleanupProof(cap.gen)
       THEN rec' = [rec EXCEPT !.st = "removable"] /\ Outdate /\ Goto(r, "wcap") /\ UNCHANGED lock
       ELSE restrict("unproven") /\ Return(r)
    /\ UNCHANGED <<typed, session, cap, bound, marker, owner, supervisor, auth, faults>>

\* The proof of this generation is checked under fence and lease; the record
\* says removable before anything is deleted.
RecoverVerifies(r) ==
    /\ r \in Recoverers /\ pc[r] = "verify"
    /\ IF VerifySessionCleanupProof(cap.gen)
       THEN rec' = [rec EXCEPT !.st = "removable"] /\ Outdate /\ Goto(r, "rmroot") /\ UNCHANGED lock
       ELSE restrict("unproven") /\ Return(r)
    /\ UNCHANGED <<typed, session, cap, bound, marker, owner, supervisor, auth, faults>>

-----------------------------------------------------------------------------
(* acs codex auth recover: CodexAuthService.Recover and FinalizeRemoval. *)

\* AcquireRecovery: the identity lock and the marker under it.
AcquireRecovery(t) ==
    /\ pc[t] = "idle" /\ marker # NoMarker /\ Free("id")
    /\ lock' = Take("id", t) /\ auth' = [auth EXCEPT ![t] = "held"] /\ Goto(t, "match")
    /\ UNCHANGED <<typed, session, registry, marker, owner, supervisor, stale, faults>>

\* The walk over the capabilities, then over the completed records.  Neither
\* means an untracked Session, unless a root binding contradicts that.
MatchCapability(t) ==
    /\ pc[t] = "match"
    /\ CASE cap # NoCapability -> Goto(t, "tfence") /\ UNCHANGED <<lock, auth>>
         [] cap = NoCapability /\ completed /\ rec.comp = marker.chal -> Goto(t, "tdone") /\ UNCHANGED <<lock, auth>>
         [] cap = NoCapability /\ ~(completed /\ rec.comp = marker.chal) /\ ~bound ->
              Goto(t, "lease") /\ auth' = [auth EXCEPT ![t] = "untracked"] /\ UNCHANGED lock
         [] OTHER -> Return(t) /\ UNCHANGED auth
    /\ UNCHANGED <<typed, session, registry, marker, owner, supervisor, stale, faults>>

\* The matched capability under the fence.
FinalizeRemoval(t) ==
    /\ pc[t] = "tfence"
    /\ IF Free("fence") /\ rec # NoRecord /\ ~inconsistent /\ cap.gen = marker.chal
       THEN lock' = Take("fence", t) /\ Goto(t, IF cap.removed THEN "wrec" ELSE "lease")
       ELSE Return(t)
    /\ UNCHANGED <<typed, session, registry, marker, owner, supervisor, auth, stale, faults>>

\* The completed record under the fence: only marker and binding are left.
FinalizeCompleted(t) ==
    /\ pc[t] = "tdone"
    /\ IF Free("fence") /\ completed
       THEN lock' = Take("fence", t) /\ Goto(t, "wmarker")
       ELSE Return(t)
    /\ UNCHANGED <<typed, session, registry, marker, owner, supervisor, auth, stale, faults>>

\* Mutant: a projection without proof counts as discarded.
TypedDiscardsUnproven(t) ==
    /\ t \in TypedRecoverers /\ pc[t] = "verify"
    /\ IF /\ marker.phase = "pending" => VerifySessionCleanupProof(marker.chal)
          /\ marker.phase # "prepared" => prot
       THEN Goto(t, "rmroot") /\ UNCHANGED lock
       ELSE Goto(t, "wmarker") /\ UNCHANGED lock
    /\ UNCHANGED <<typed, session, registry, marker, owner, supervisor, auth, stale, faults>>

\* Only the pending phase needs a proof; the credential of a recoverable or
\* pending projection is finalized in a protected root.
TypedVerifies(t) ==
    /\ t \in TypedRecoverers /\ pc[t] = "verify"
    /\ IF /\ marker.phase = "pending" => VerifySessionCleanupProof(marker.chal)
          /\ marker.phase # "prepared" => prot
       THEN Goto(t, "rmroot") /\ UNCHANGED lock
       ELSE Return(t)
    /\ UNCHANGED <<typed, session, registry, marker, owner, supervisor, auth, stale, faults>>

-----------------------------------------------------------------------------
(* Another ACS process starts: reclamation and retention. *)

\* removeAbandonedSessions under the coordinator.
ReclaimBegin ==
    /\ pc[Startup] = "idle" /\ Free("coord") /\ root
    /\ lock' = Take("coord", Startup) /\ Goto(Startup, "inspect")
    /\ UNCHANGED <<typed, session, registry, marker, owner, supervisor, auth, stale, faults>>

\* A guard file that is missing is created, and its new inode is not locked by
\* anybody: an owner that has already deleted its guard holds the old one.
ReclaimInspect ==
    /\ pc[Startup] = "inspect"
    /\ IF prot THEN Return(Startup) /\ UNCHANGED guardFile
       ELSE /\ guardFile' = TRUE
            /\ CASE ~guardFile -> Goto(Startup, "reclaim") /\ UNCHANGED lock
                 [] guardFile /\ Free("guard") ->
                      Goto(Startup, "reclaim") /\ lock' = Take("guard", Startup)
                 [] OTHER -> Return(Startup)
    /\ UNCHANGED <<typed, root, prot, proof, lbind, registry, marker, owner, supervisor,
                   auth, stale, faults>>

Reclaim ==
    /\ pc[Startup] = "reclaim"
    /\ root' = FALSE /\ proof' = NoProof /\ lbind' = 0 /\ guardFile' = FALSE /\ Return(Startup)
    /\ UNCHANGED <<typed, prot, registry, marker, owner, supervisor, auth, stale, faults>>

\* pruneRemovedLocked, once the record has expired.
PruneRemoved ==
    /\ Free("fence") /\ completed /\ ~bound
    /\ rec' = NoRecord /\ Outdate
    /\ UNCHANGED <<typed, session, cap, bound, marker, lock, owner, supervisor, workers, faults>>

-----------------------------------------------------------------------------
Init ==
    /\ typed \in BOOLEAN
    /\ root = FALSE /\ guardFile = FALSE /\ prot = FALSE /\ proof = NoProof /\ lbind = 0
    /\ rec = NoRecord /\ cap = NoCapability /\ bound = FALSE /\ marker = NoMarker
    /\ lock = [l \in Locks |-> IF l = "id" /\ typed THEN Owner ELSE Nobody]
    /\ opc = "create" /\ gen = 0 /\ retained = FALSE
    /\ spc = "none" /\ chan = {} /\ target = FALSE
    /\ pc = [p \in Workers |-> "idle"] /\ auth = [p \in Workers |-> "none"]
    /\ stale = {} /\ faults = 0

OwnerStep ==
    \/ MakeRoot \/ MakeGuard \/ Protect \/ PublishPrepared \/ AdvanceChallenge
    \/ ArmBegin \/ ArmBinding \/ ArmCapability \/ ArmProof \/ ArmRecord
    \/ MarkCleanupPending \/ Spawn \/ SendStart \/ AwaitCleanup \/ SupervisorLost
    \/ GiveUpUnproven \/ Finish \/ Remove \/ RemoveRoot \/ RemoveGuard
    \/ RemoveProtection \/ CloseGuard \/ RemovedBegin \/ RemovedCapability
    \/ RemovedRecord \/ RemovedBinding \/ RemovedEvidence \/ DeleteMarker

OwnerFails ==
    \/ ProtectFails \/ PublishFails \/ ArmFails \/ StartTimeout \/ RemoveFails \/ OwnerDies

SupervisorStep ==
    \/ Adopt \/ RevokeProof \/ Ready \/ StartTarget \/ OwnerLost \/ Settle
    \/ PublishProof \/ Report

SharedStep(p) ==
    \/ LeaseOpen(p) \/ LeaseMissing(p) \/ LeaseLock(p)
    \/ RecoveredRoot(p) \/ RecoveredGuard(p) \/ RecoveredProtection(p)
    \/ CompleteCapability(p) \/ CompleteRecord(p) \/ CompleteMarker(p)
    \/ CompleteBinding(p) \/ CompleteEvidence(p)

RecoverStep(r) ==
    \/ Snapshot(r) \/ Lookup(r) \/ RecoverBusy(r) \/ RecoverReports(r)
    \/ RecoverRestricts(r) \/ RecoverContinues(r) \/ RecoverVerifies(r) \/ SharedStep(r)

TypedStep(t) ==
    \/ AcquireRecovery(t) \/ MatchCapability(t) \/ FinalizeRemoval(t)
    \/ FinalizeCompleted(t) \/ TypedVerifies(t) \/ SharedStep(t)

StartupStep == ReclaimBegin \/ ReclaimInspect \/ Reclaim

Next ==
    \/ OwnerStep \/ OwnerFails
    \/ SupervisorStep \/ TargetExits \/ SupervisorDies
    \/ \E r \in Recoverers : RecoverStep(r)
    \/ \E t \in TypedRecoverers : TypedStep(t)
    \/ StartupStep \/ PruneRemoved
    \/ \E p \in Workers : Abandon(p)
    \/ \E p \in Recovery : RecoveredRootFails(p)

Spec == Init /\ [][Next]_vars

\* The kernel keeps running every process that is alive and serves the queue of
\* the one lock that is waited for, the coordinator; users run the recovery
\* commands again until they succeed.
Fairness ==
    /\ WF_vars(OwnerStep) /\ WF_vars(SupervisorStep)
    /\ \A r \in Recoverers : WF_vars(RecoverStep(r))
    /\ \A t \in TypedRecoverers : WF_vars(TypedStep(t))
    /\ WF_vars(ReclaimInspect \/ Reclaim)
    /\ \A p \in Recovery : SF_vars(LeaseOpen(p) \/ LeaseMissing(p) \/ RecoveredRoot(p))

FairSpec == Spec /\ Fairness

-----------------------------------------------------------------------------
(* Properties. *)

\* Type invariant.
TypeOK ==
    /\ typed \in BOOLEAN
    /\ root \in BOOLEAN /\ guardFile \in BOOLEAN /\ prot \in BOOLEAN /\ bound \in BOOLEAN
    /\ proof \in {NoProof} \cup [kind : {"notarget", "settled"}, gen : 1..MaxGen]
    /\ lbind \in Gens
    /\ rec \in {NoRecord} \cup [st : RecordStates, gen : 1..MaxGen, comp : Gens]
    /\ cap \in {NoCapability} \cup [gen : 1..MaxGen, removed : BOOLEAN]
    /\ marker \in {NoMarker} \cup [phase : {"prepared", "pending", "recoverable"}, chal : Gens]
    /\ lock \in [Locks -> Workers \cup {Owner, Nobody}]
    /\ opc \in OwnerSteps /\ gen \in Gens /\ retained \in BOOLEAN
    /\ spc \in SupervisorSteps /\ chan \subseteq {"R", "S", "X"} /\ target \in BOOLEAN
    /\ pc \in [Workers -> WorkerSteps]
    /\ auth \in [Workers -> {"none", "gone", "held", "untracked"}]
    /\ stale \subseteq Recovery /\ faults \in 0..MaxFaults

\* As long as a contained process may be alive nobody deletes its Session:
\* neither the owner, which may have lost its supervisor, nor a recovery, nor
\* the start of another ACS (removeLocked, VerifySessionCleanupProof,
\* removeAbandonedSessions).
TargetKeepsRoot == target => root

\* A record or capability that says removed is never ahead of the deletion:
\* Tracker.Removed, Recover and FinalizeRemoval publish completion last.
RemovedMeansGone == (rec.st = "removed" \/ cap.removed) => ~root /\ ~target

\* A recovery or a startup that got hold of the guard never does so while the
\* owner is alive, except when the owner itself has deleted the guard already
\* (recoverSession, removeAbandonedSessions).
ActiveNeverTakenOver ==
    (\E p \in Workers : pc[p] \in {"verify", "rmroot", "rmguard", "rmprot", "reclaim"})
        => \/ opc = "exit"
           \/ ~root /\ opc \in {"rmprot", "close", "removed", "wcap", "wrec", "wbind",
                                "wcapfile", "wmarker"}

\* A Session in use is left alone: no process loses its root and no live owner
\* its guard, whatever recovery commands and starting ACS processes do
\* (LeaseLock, recoverSession, removeAbandonedSessions).
InUseIsKept == TypeOK /\ TargetKeepsRoot /\ ActiveNeverTakenOver

\* Completion is never taken back: a removed record only disappears when
\* binding and capability are gone; a removed capability only after its record
\* says so and the binding is gone.
completionStays ==
    /\ rec.st = "removed" =>
           rec'.st = "removed" \/ (rec' = NoRecord /\ cap = NoCapability /\ ~bound)
    /\ cap.removed =>
           cap'.removed \/ (cap' = NoCapability /\ rec.st = "removed" /\ ~bound)

\* The marker, which blocks the identity, is deleted only when the projected
\* credential and every process that can use it are gone.
markerOutlivesProjection == marker # NoMarker /\ marker' = NoMarker => ~root /\ ~target

\* Evidence is only given up in the order in which it stops being needed,
\* whichever of the owner, the recoveries and a starting ACS takes the step
\* (restrict, pruneRemovedLocked, DeleteMarkerAfterProjectionRemoval and the
\* order of the completion steps).
CompletionOnlyAdvances == [][completionStays /\ markerOutlivesProjection]_vars

\* Once a removal is durably recorded in the capability, repeated recovery
\* finishes it whatever was interrupted: no capability, binding or marker is
\* left (the completion branches of Recover and FinalizeRemoval).  A marker of
\* a later generation than the capability is the case of PreparedIsDiscarded.
CompletionConverges ==
    (cap.removed /\ marker.chal \in {0, cap.gen}) ~>
        (cap = NoCapability /\ ~bound /\ marker = NoMarker)

\* What recovery needs to remove the Session of an owner that is gone.
recoverable ==
    /\ opc = "exit" /\ spc \in {"none", "ended"}
    /\ root /\ prot /\ guardFile /\ bound /\ validBinding /\ rec.st # "removed"
    /\ VerifySessionCleanupProof(cap.gen)
    /\ typed => marker # NoMarker /\ marker.chal = cap.gen

\* After the last fault, a Session with consistent evidence and a proof of its
\* own generation is reclaimed, whatever earlier recoveries had restricted or
\* left half done (Recover, FinalizeRemoval).
ProvenIsReclaimed == (faults = MaxFaults /\ recoverable) ~> ~root

\* Repeated recovery comes to an end: every removal that was recorded is
\* finished and every Session with a proof is reclaimed (Recover,
\* FinalizeRemoval).
RecoveryConverges == CompletionConverges /\ ProvenIsReclaimed

\* docs/guides/codex.md: recovery clears the marker of a Session whose root has
\* been removed.
StaleMarkerCleared == (opc = "exit" /\ marker # NoMarker /\ ~root) ~> (marker = NoMarker)

\* docs/guides/codex.md: an inactive prepared projection is discarded.
PreparedIsDiscarded == (opc = "exit" /\ marker.phase = "prepared") ~> (marker = NoMarker)

=============================================================================
