--------------------------- MODULE CodexIdentity ---------------------------
(***************************************************************************)
(* One named Codex identity (internal/codexauthresource): its credential   *)
(* in the Keychain or in a private file, the quarantine marker and the     *)
(* identity lock, and the commands that use them (internal/executor:       *)
(* login, status, ExecuteCodex, recover; Store.Logout).  Each of login,    *)
(* status and a Codex run creates a Session, publishes the marker, starts  *)
(* two contained processes (the version probe and the command itself) that *)
(* may rewrite the Session's auth.json, and decides what becomes of it.    *)
(*                                                                         *)
(* Abstractions.  A credential is whose it is and how recently the issuer  *)
(* rotated it; Bad is anything verification can never accept.  A challenge *)
(* is the number of the process generation in its Session.  The records of *)
(* sessionops that FinalizeRemoval also consults are in SessionRecovery;   *)
(* here it may refuse when the root is already gone.                       *)
(***************************************************************************)
EXTENDS Naturals

CONSTANTS
    Procs,          \* ACS processes
    Users,          \* ChatGPT accounts
    Nil,            \* absence: no credential, no marker, no holder, no file
    Bad,            \* an auth.json that cannot be verified
    MaxSessions,    \* bound: Sessions ever created
    MaxIssued,      \* bound: credentials the issuer hands out
    MaxFaults       \* bound: deaths, failed calls, unreachable signing keys

Runs == 2           \* contained processes of a Session: probe and command
Sids == 1..MaxSessions
Credential == [who : Users, ver : 1..MaxIssued]
Phases == {"prepared", "pending", "recoverable"}
Marker == [sid : Sids, phase : Phases, chal : 0..Runs, refresh : BOOLEAN]

ASSUME BoundsAssumption == MaxSessions \in Nat \ {0} /\ MaxIssued \in Nat /\ MaxFaults \in Nat
\* Absence is not a process, a credential or a marker, and no credential is bad.
ASSUME NamesAssumption ==
    /\ Nil \notin Procs \cup Credential \cup Marker \cup {Bad} /\ Bad \notin Credential

VARIABLES
    backend,    \* the platform's provider: Keychain or file
    chosen,     \* the durable provider selection of the file platform
    cred,       \* the stored credential
    marker,     \* the quarantine marker of the identity
    lock,       \* holder of the identity lock
    ses,        \* the Sessions
    pc, op,     \* next step and command of every process
    sid, chal,  \* the Session and challenge of its binding
    snap,       \* the record its binding loaded
    failed,     \* its contained process failed
    seen,       \* the marker its recovery is bound to
    waiter,     \* its background settlement is pending
    issued,     \* credentials issued so far
    faults      \* faults so far

binding == <<sid, chal, snap, failed>>
command == <<op, seen>>
durable == <<backend, chosen>>
vars == <<durable, cred, marker, lock, ses, pc, command, binding, waiter, issued, faults>>

Session == [root : BOOLEAN,                     \* the Session directory
            prot : BOOLEAN,                     \* recovery protection
            guard : Procs \cup {Nil},           \* holder of the lease guard
            auth : Credential \cup {Bad, Nil},  \* home/.codex/auth.json
            live : BOOLEAN,                     \* a contained process is alive
            tracked : BOOLEAN,                  \* sessionops root binding
            gen : 0..Runs,                      \* the generation of its capability
            proof : 0..Runs,                    \* generation with a cleanup proof
            good : BOOLEAN,                     \* every contained run succeeded
            unverified : BOOLEAN]               \* its credential failed verification

NoSession == [root |-> FALSE, prot |-> FALSE, guard |-> Nil, auth |-> Nil, live |-> FALSE,
              tracked |-> FALSE, gen |-> 0, proof |-> 0, good |-> FALSE, unverified |-> FALSE]

Labels == {"idle", "create", "publish", "unpublished", "protect", "project", "advance",
           "arm", "pending", "spawn", "running", "refresh", "recoverable", "finalize",
           "abandon", "remove", "delete", "preserve", "release", "wait", "found",
           "proven", "discard", "done", "settle"}

Goto(p, l) == pc' = [pc EXCEPT ![p] = l]
Fault == faults < MaxFaults /\ faults' = faults + 1
mine(p) == ses[sid[p]]

\* What the kernel releases with a process, and what a command leaves behind.
DropGuards(p) ==
    ses' = [s \in Sids |-> IF ses[s].guard = p THEN [ses[s] EXCEPT !.guard = Nil] ELSE ses[s]]
Forget(p) ==
    /\ Goto(p, "idle") /\ op' = [op EXCEPT ![p] = "none"] /\ seen' = [seen EXCEPT ![p] = Nil]
    /\ snap' = [snap EXCEPT ![p] = Nil] /\ failed' = [failed EXCEPT ![p] = FALSE]
Unbind(p) == sid' = [sid EXCEPT ![p] = 1] /\ chal' = [chal EXCEPT ![p] = 0]

-----------------------------------------------------------------------------
(* Marker and provider. *)

\* Mutant: a binding accepts whatever marker there is.
currentGenerationAny(p, phases) == marker # Nil /\ marker.phase \in phases

\* currentGeneration: the marker is this binding's own and in one of the phases.
currentGeneration(p, phases) ==
    /\ marker # Nil /\ marker.sid = sid[p] /\ marker.chal = chal[p]
    /\ marker.phase \in phases

\* fileBindingQuarantine.Create and update: an atomic rename whose error says
\* nothing about its effect.
WriteMarker(p, m, next, fail) ==
    \/ marker' = m /\ Goto(p, next) /\ UNCHANGED faults
    \/ Fault /\ marker' \in {marker, m} /\ Goto(p, fail)

UpdateMarker(p, phases, m, next, fail) ==
    IF currentGeneration(p, phases) THEN WriteMarker(p, m, next, fail)
    ELSE Goto(p, fail) /\ UNCHANGED <<marker, faults>>

\* fileCredentialProvider.open: without its explicit selection the file
\* provider refuses everything.
available == backend = "keychain" \/ chosen = "file"

\* Update needs an item; the file provider also compares the metadata.
replaceable(a) == cred # Nil /\ (backend = "file" => cred.who = a.who)

\* A provider write is one rename or Keychain call; its error is uncertain.
WriteCredential(p, a, admissible, next, fail) ==
    \/ admissible /\ available /\ cred' = a /\ Goto(p, next) /\ UNCHANGED faults
    \/ ~(admissible /\ available) /\ Goto(p, fail) /\ UNCHANGED <<cred, faults>>
    \/ admissible /\ available /\ Fault /\ cred' \in {cred, a} /\ Goto(p, fail)

\* verifyAuthJSON: a signed token of some account.
verifiable(a) == a \notin {Bad, Nil}

\* SelectProvider: create-only.
SelectProvider ==
    /\ backend = "file" /\ chosen = "none"
    /\ chosen' \in {"file", "secret-service"}
    /\ UNCHANGED <<backend, cred, marker, lock, ses, pc, command, binding, waiter, issued, faults>>

-----------------------------------------------------------------------------
(* login, status and run: acquire the identity and create the Session. *)

\* fileIdentityLocker.TryLock: a non-blocking advisory lock of the kernel.
TryLock(p) == lock = Nil /\ lock' = p

\* The provider's Load: the exact stored record, or a refusal.
Loads(p) == available /\ snap' = [snap EXCEPT ![p] = cred]

Begin(p, kind) ==
    /\ pc[p] = "idle" /\ ~waiter[p] /\ marker = Nil
    /\ \E s \in Sids : ses[s] = NoSession
    /\ TryLock(p) /\ Loads(p)
    /\ op' = [op EXCEPT ![p] = kind] /\ Goto(p, "create")
    /\ UNCHANGED <<durable, cred, marker, ses, sid, chal, failed, seen, waiter, issued, faults>>

\* AcquireLogin refuses an existing identity before anything is prepared.
AcquireLogin(p) == cred = Nil /\ Begin(p, "login")

\* AcquireStatus loads the record for auth status and for a Codex run.
AcquireStatus(p, kind) == cred # Nil /\ kind \in {"status", "run"} /\ Begin(p, kind)

\* The preflight of a command (executable, grants, sandbox check, environment)
\* refuses it while there is nothing but the lock to give back.
PreflightFails(p) ==
    /\ pc[p] = "create" /\ Fault /\ Goto(p, "release")
    /\ UNCHANGED <<durable, cred, marker, lock, ses, command, binding, waiter, issued>>

CreateSession(p) ==
    /\ pc[p] = "create"
    /\ \E s \in Sids :
         /\ ses[s] = NoSession /\ \A t \in 1..(s - 1) : ses[t] # NoSession
         /\ ses' = [ses EXCEPT ![s].root = TRUE, ![s].guard = p]
         /\ sid' = [sid EXCEPT ![p] = s]
    /\ chal' = [chal EXCEPT ![p] = 0] /\ failed' = [failed EXCEPT ![p] = FALSE]
    /\ Goto(p, "publish")
    /\ UNCHANGED <<durable, cred, marker, lock, command, snap, waiter, issued, faults>>

\* createResourceBindingForTarget: the marker is durable before the protection.
PublishPrepared(p) ==
    /\ pc[p] = "publish"
    /\ WriteMarker(p, [sid |-> sid[p], phase |-> "prepared", chal |-> 0, refresh |-> FALSE],
                   "protect", "unpublished")
    /\ UNCHANGED <<durable, cred, lock, ses, command, binding, waiter, issued>>

\* An uncertain publication: a marker that is there is handed to recovery, and
\* without one the Session is removed.  An inspection that fails itself leaves
\* Session and marker protected.
PublishFailed(p) ==
    /\ pc[p] = "unpublished"
    /\ \/ /\ marker = Nil /\ ses' = [ses EXCEPT ![sid[p]].root = FALSE, ![sid[p]].guard = Nil]
          /\ Goto(p, "release") /\ UNCHANGED <<marker, faults>>
       \/ /\ currentGeneration(p, {"prepared"})
          /\ ses' = [ses EXCEPT ![sid[p]].prot = TRUE, ![sid[p]].guard = Nil]
          /\ marker' = [marker EXCEPT !.phase = "recoverable"]
          /\ Goto(p, "release") /\ UNCHANGED faults
       \/ /\ Fault /\ ses' = [ses EXCEPT ![sid[p]].prot = TRUE, ![sid[p]].guard = Nil]
          /\ Goto(p, "release") /\ UNCHANGED marker
    /\ UNCHANGED <<durable, cred, lock, command, binding, waiter, issued>>

Protect(p) ==
    /\ pc[p] = "protect"
    /\ \/ /\ ses' = [ses EXCEPT ![sid[p]].prot = TRUE] /\ UNCHANGED faults
          /\ Goto(p, IF op[p] = "login" THEN "advance" ELSE "project")
       \/ Fault /\ Goto(p, "abandon") /\ UNCHANGED ses
    /\ UNCHANGED <<durable, cred, marker, lock, command, binding, waiter, issued>>

\* Project writes the validated record; a Codex run also materializes its
\* Profile and verifies it, and any of that can fail.
Project(p) ==
    /\ pc[p] = "project"
    /\ \/ ses' = [ses EXCEPT ![sid[p]].auth = snap[p]] /\ Goto(p, "advance") /\ UNCHANGED faults
       \/ Fault /\ ses' \in {ses, [ses EXCEPT ![sid[p]].auth = snap[p]]} /\ Goto(p, "abandon")
    /\ UNCHANGED <<durable, cred, marker, lock, command, binding, waiter, issued>>

-----------------------------------------------------------------------------
(* The two contained processes (runContainedCodex, codexExecutionRunner.run). *)

\* A run that failed before its process started counts as cleaned up.
FailProven(p) == failed' = [failed EXCEPT ![p] = TRUE]

\* advanceProcessChallenge: the binding keeps its old challenge on any error.
AdvanceCleanupChallenge(p) ==
    /\ pc[p] = "advance"
    /\ UpdateMarker(p, {"prepared", "pending"},
                    [marker EXCEPT !.phase = "prepared", !.chal = chal[p] + 1], "arm", "recoverable")
    /\ IF pc'[p] = "arm" THEN chal' = [chal EXCEPT ![p] = @ + 1] /\ UNCHANGED failed
       ELSE FailProven(p) /\ UNCHANGED chal
    /\ UNCHANGED <<durable, cred, lock, ses, command, sid, snap, waiter, issued>>

\* Mutant: arming leaves the proof to the supervisor.
ArmOperationBare(p) ==
    /\ pc[p] = "arm"
    /\ \/ /\ ses' = [ses EXCEPT ![sid[p]].gen = chal[p], ![sid[p]].tracked = TRUE]
          /\ Goto(p, "pending") /\ UNCHANGED <<failed, faults>>
       \/ Fault /\ Goto(p, "recoverable") /\ FailProven(p) /\ UNCHANGED ses
    /\ UNCHANGED <<durable, cred, marker, lock, command, sid, chal, snap, waiter, issued>>

Armed(s, c) == [ses EXCEPT ![s].tracked = TRUE, ![s].gen = c, ![s].proof = c]

\* ArmOperation writes root binding, capability and the proof that no target
\* of this generation has started; it may fail after any of them.
ArmOperation(p) ==
    /\ pc[p] = "arm"
    /\ \/ /\ ses' = Armed(sid[p], chal[p])
          /\ Goto(p, "pending") /\ UNCHANGED <<failed, faults>>
       \/ /\ Fault /\ Goto(p, "recoverable") /\ FailProven(p)
          /\ ses' \in {ses, [ses EXCEPT ![sid[p]].tracked = TRUE], Armed(sid[p], chal[p])}
    /\ UNCHANGED <<durable, cred, marker, lock, command, sid, chal, snap, waiter, issued>>

MarkCleanupPending(p) ==
    /\ pc[p] = "pending"
    /\ UpdateMarker(p, {"prepared", "pending"}, [marker EXCEPT !.phase = "pending"],
                    "spawn", "recoverable")
    /\ IF pc'[p] = "spawn" THEN UNCHANGED failed ELSE FailProven(p)
    /\ UNCHANGED <<durable, cred, lock, ses, command, sid, chal, snap, waiter, issued>>

\* prepareRetainedProcess and the start: a refused process never ran, one that
\* could not be retained may run and nobody has a handle on it.
Spawn(p) ==
    /\ pc[p] = "spawn"
    /\ \/ /\ ses' = [ses EXCEPT ![sid[p]].live = TRUE, ![sid[p]].proof = 0]
          /\ Goto(p, "running") /\ UNCHANGED <<failed, faults>>
       \/ Fault /\ Goto(p, "recoverable") /\ FailProven(p) /\ UNCHANGED ses
       \/ Fault /\ Goto(p, "release") /\ UNCHANGED <<failed, ses>>
    /\ UNCHANGED <<durable, cred, marker, lock, command, sid, chal, snap, waiter, issued>>

\* What a contained Codex may do to the projection: rotate the tokens, log in
\* as somebody, log out, or leave something else behind.
TargetWrites(s) ==
    /\ ses[s].live
    /\ \/ /\ issued < MaxIssued /\ issued' = issued + 1
          /\ \E u \in Users : ses' = [ses EXCEPT ![s].auth = [who |-> u, ver |-> issued']]
       \/ /\ \E a \in {Bad, Nil} : ses' = [ses EXCEPT ![s].auth = a]
          /\ UNCHANGED issued
    /\ UNCHANGED <<durable, cred, marker, lock, pc, command, binding, waiter, faults>>

\* The supervisor settles its process, with or without its owner, and then
\* publishes the proof.
TargetSettles(s) ==
    /\ ses[s].live
    /\ ses' = [ses EXCEPT ![s].live = FALSE, ![s].proof = ses[s].gen]
    /\ UNCHANGED <<durable, cred, marker, lock, pc, command, binding, waiter, issued, faults>>

\* settleRetainedProcess with proven cleanup: the probe is followed by the
\* command; after the command the refresh becomes eligible.
Settled(p) ==
    /\ pc[p] = "running" /\ ~mine(p).live
    /\ \/ /\ chal[p] < Runs /\ Goto(p, "advance") /\ UNCHANGED <<failed, ses>>
       \/ /\ chal[p] = Runs /\ Goto(p, IF op[p] = "login" THEN "recoverable" ELSE "refresh")
          /\ ses' = [ses EXCEPT ![sid[p]].good = TRUE] /\ UNCHANGED failed
       \/ FailProven(p) /\ Goto(p, "recoverable") /\ UNCHANGED ses
    /\ UNCHANGED <<durable, cred, marker, lock, command, sid, chal, snap, waiter, issued, faults>>

\* transferResourcePendingBinding: cleanup is uncertain, the command fails and
\* a background settlement keeps the Session.
Transfer(p) ==
    /\ pc[p] = "running" /\ Fault
    /\ waiter' = [waiter EXCEPT ![p] = TRUE]
    /\ Goto(p, "release")
    /\ UNCHANGED <<durable, cred, marker, lock, ses, command, binding, issued>>

-----------------------------------------------------------------------------
(* The decision about the projection. *)

MarkRefreshAllowed(p) ==
    /\ pc[p] = "refresh"
    /\ UpdateMarker(p, {"pending", "recoverable"}, [marker EXCEPT !.refresh = TRUE],
                    "recoverable", "preserve")
    /\ UNCHANGED <<durable, cred, lock, ses, command, binding, waiter, issued>>

MarkRecoverable(p) ==
    /\ pc[p] = "recoverable"
    /\ UpdateMarker(p, Phases, [marker EXCEPT !.phase = "recoverable"],
                    IF failed[p] THEN "remove" ELSE "finalize", "preserve")
    /\ UNCHANGED <<durable, cred, lock, ses, command, binding, waiter, issued>>

\* Before any process was started the mark is best effort.
Abandon(p) ==
    /\ pc[p] = "abandon"
    /\ UpdateMarker(p, Phases, [marker EXCEPT !.phase = "recoverable"], "remove", "remove")
    /\ UNCHANGED <<durable, cred, lock, ses, command, binding, waiter, issued>>

Unverified(s) == Fault /\ ses' = [ses EXCEPT ![s].unverified = TRUE]

\* CommitLogin: only a verified credential creates the identity; the Session is
\* removed whatever the outcome.
CommitLogin(p) ==
    /\ pc[p] = "finalize" /\ op[p] = "login"
    /\ IF currentGeneration(p, {"recoverable"}) /\ mine(p).prot /\ verifiable(mine(p).auth)
       THEN \/ WriteCredential(p, mine(p).auth, cred = Nil, "remove", "remove") /\ UNCHANGED ses
            \/ Unverified(sid[p]) /\ Goto(p, "remove") /\ UNCHANGED cred
       ELSE Goto(p, "remove") /\ UNCHANGED <<cred, ses, faults>>
    /\ UNCHANGED <<durable, marker, lock, command, binding, waiter, issued>>

\* A projection replaces the record only for exactly the same identity.
refreshes(a, record) == verifiable(a) /\ a.who = record.who

\* Commit, discard, or stay quarantined: shared by FinalizeStatus and
\* FinalizeRecovery.
Decide(p, s, record, ok, uncertain) ==
    IF ses[s].auth = record \/ ~refreshes(ses[s].auth, record)
    THEN Goto(p, ok) /\ UNCHANGED <<cred, ses, faults>>
    ELSE \/ WriteCredential(p, ses[s].auth, replaceable(ses[s].auth), ok, uncertain) /\ UNCHANGED ses
         \/ Unverified(s) /\ Goto(p, ok) /\ UNCHANGED cred

\* Mutant: an uncertain write counts as done.
FinalizeStatusLossy(p) ==
    /\ pc[p] = "finalize" /\ op[p] \in {"status", "run"}
    /\ IF currentGeneration(p, {"recoverable"}) /\ marker.refresh /\ mine(p).prot
       THEN Decide(p, sid[p], snap[p], "remove", "remove")
       ELSE Goto(p, "preserve") /\ UNCHANGED <<cred, ses, faults>>
    /\ UNCHANGED <<durable, marker, lock, command, binding, waiter, issued>>

FinalizeStatus(p) ==
    /\ pc[p] = "finalize" /\ op[p] \in {"status", "run"}
    /\ IF currentGeneration(p, {"recoverable"}) /\ marker.refresh /\ mine(p).prot
       THEN Decide(p, sid[p], snap[p], "remove", "preserve")
       ELSE Goto(p, "preserve") /\ UNCHANGED <<cred, ses, faults>>
    /\ UNCHANGED <<durable, marker, lock, command, binding, waiter, issued>>

\* The projection is removed first, then the marker.
Remove(p) ==
    /\ pc[p] = "remove"
    /\ \/ /\ ses' = [ses EXCEPT ![sid[p]] =
                        [@ EXCEPT !.root = FALSE, !.prot = FALSE, !.guard = Nil, !.auth = Nil]]
          /\ Goto(p, "delete") /\ UNCHANGED faults
       \/ Fault /\ Goto(p, "preserve") /\ UNCHANGED ses
    /\ UNCHANGED <<durable, cred, marker, lock, command, binding, waiter, issued>>

DeleteMarker(p) ==
    /\ pc[p] = "delete"
    /\ UpdateMarker(p, Phases, Nil, "release", "release")
    /\ UNCHANGED <<durable, cred, lock, ses, command, binding, waiter, issued>>

\* PreserveForRecovery releases the guard and keeps the protected Session.
Preserve(p) ==
    /\ pc[p] = "preserve"
    /\ ses' = [ses EXCEPT ![sid[p]].guard = Nil] /\ Goto(p, "release")
    /\ UNCHANGED <<durable, cred, marker, lock, command, binding, waiter, issued, faults>>

\* The deferred releases: the identity lock, and the guard of a Session under
\* recovery.  A binding handed to the background settlement stays.
Release(p) ==
    /\ pc[p] = "release" /\ lock' = Nil /\ Forget(p)
    /\ IF waiter[p] THEN UNCHANGED <<ses, sid, chal>>
       ELSE DropGuards(p) /\ Unbind(p)
    /\ UNCHANGED <<durable, cred, marker, waiter, issued, faults>>

-----------------------------------------------------------------------------
(* Background settlement after an uncertain cleanup. *)

\* AwaitRetainedSessionCleanup, PreserveForRecovery, then SettlePending takes
\* the identity lock, or retries while somebody else has it.
SettleBegin(p) ==
    /\ pc[p] = "idle" /\ waiter[p] /\ ~mine(p).live
    /\ ses' = [ses EXCEPT ![sid[p]].guard = IF @ = p THEN Nil ELSE @]
    /\ \/ lock = Nil /\ lock' = p /\ Goto(p, "settle")
       \/ lock # Nil /\ mine(p).guard = p /\ UNCHANGED <<lock, pc>>
    /\ UNCHANGED <<durable, cred, marker, command, binding, waiter, issued, faults>>

\* SettlePending: only the exact pending generation is advanced.
SettlePending(p) ==
    /\ pc[p] = "settle"
    /\ UpdateMarker(p, {"pending"}, [marker EXCEPT !.phase = "recoverable"], "release", "release")
    /\ waiter' = [waiter EXCEPT ![p] = FALSE]
    /\ UNCHANGED <<durable, cred, lock, ses, command, binding, issued>>

-----------------------------------------------------------------------------
(* acs codex auth recover and logout. *)

\* AcquireRecovery: no marker is success; a busy identity is waited for only
\* while its marker is recoverable.
AcquireRecovery(p) ==
    /\ pc[p] = "idle" /\ ~waiter[p] /\ marker # Nil
    /\ \/ lock = Nil /\ lock' = p /\ Goto(p, "found")
       \/ lock # Nil /\ marker.phase = "recoverable" /\ Goto(p, "wait") /\ UNCHANGED lock
    /\ seen' = [seen EXCEPT ![p] = marker] /\ op' = [op EXCEPT ![p] = "recover"]
    /\ UNCHANGED <<durable, cred, marker, ses, binding, waiter, issued, faults>>

\* The exact generation, its removal by somebody else, or another generation.
AwaitHandoff(p) ==
    /\ pc[p] = "wait"
    /\ \/ /\ lock = Nil /\ marker = seen[p] /\ lock' = p /\ Goto(p, "found") /\ UNCHANGED seen
          /\ UNCHANGED <<op, snap, failed>>
       \/ marker # seen[p] /\ Forget(p) /\ UNCHANGED lock
    /\ UNCHANGED <<durable, cred, marker, ses, sid, chal, waiter, issued, faults>>

\* FinalizeRemoval: a Session without records is removed on the marker's word;
\* otherwise the capability must be of the marker's generation.
recordsAgree(s, m) == IF ses[s].tracked THEN ses[s].gen = m.chal ELSE ses[s].gen = 0

\* Its remove callback up to the decision: the lease must be inactive, a pending
\* marker needs the proof of its own generation, and anything but a prepared
\* marker needs the protection.  A root that is gone is completed only when the
\* records say so (SessionRecovery).
RecoverSession(p) ==
    LET s == seen[p].sid
        proceeds == /\ recordsAgree(s, seen[p]) /\ ses[s].root /\ ses[s].guard = Nil
                    /\ seen[p].phase # "prepared" => ses[s].prot
                    /\ seen[p].phase = "pending" => ses[s].proof = seen[p].chal
    IN
    /\ pc[p] = "found"
    /\ \/ /\ proceeds /\ ses' = [ses EXCEPT ![s].guard = p]
          /\ Goto(p, IF seen[p].phase = "prepared" THEN "discard" ELSE "proven")
       \/ ~proceeds /\ (ses[s].root \/ ses[s].tracked) /\ Goto(p, "release") /\ UNCHANGED ses
       \/ recordsAgree(s, seen[p]) /\ ~ses[s].root /\ Goto(p, "done") /\ UNCHANGED ses
    /\ UNCHANGED <<durable, cred, marker, lock, command, binding, waiter, issued, faults>>

\* Mutant: recovery commits whatever the projection holds.
FinalizeRecoveryEager(p) ==
    /\ pc[p] = "proven"
    /\ IF cred = Nil THEN Goto(p, "discard") /\ UNCHANGED <<cred, ses, faults>>
       ELSE Decide(p, seen[p].sid, cred, "discard", "release")
    /\ UNCHANGED <<durable, marker, lock, command, binding, waiter, issued>>

\* FinalizeRecovery: an eligible refresh of the stored identity, or nothing.
FinalizeRecovery(p) ==
    /\ pc[p] = "proven"
    /\ \/ /\ available /\ marker = seen[p]
          /\ IF cred = Nil \/ ~seen[p].refresh
             THEN Goto(p, "discard") /\ UNCHANGED <<cred, ses, faults>>
             ELSE Decide(p, seen[p].sid, cred, "discard", "release")
       \/ ~(available /\ marker = seen[p]) /\ Goto(p, "release") /\ UNCHANGED <<cred, ses, faults>>
    /\ UNCHANGED <<durable, marker, lock, command, binding, waiter, issued>>

RecoverRemove(p) ==
    LET s == seen[p].sid IN
    /\ pc[p] = "discard"
    /\ \/ /\ ses' = [ses EXCEPT ![s] =
                        [@ EXCEPT !.root = FALSE, !.prot = FALSE, !.guard = Nil, !.auth = Nil]]
          /\ Goto(p, "done") /\ UNCHANGED faults
       \/ Fault /\ Goto(p, "release") /\ UNCHANGED ses
    /\ UNCHANGED <<durable, cred, marker, lock, command, binding, waiter, issued>>

\* RecoveryBinding.DeleteMarkerAfterProjectionRemoval.
RecoverDelete(p) ==
    /\ pc[p] = "done"
    /\ IF marker = seen[p] THEN WriteMarker(p, Nil, "release", "release")
       ELSE Goto(p, "release") /\ UNCHANGED <<marker, faults>>
    /\ UNCHANGED <<durable, cred, lock, ses, command, binding, waiter, issued>>

\* Store.Logout: refused while a marker exists, and idempotent.
Logout(p) ==
    /\ pc[p] = "idle" /\ ~waiter[p] /\ lock = Nil /\ marker = Nil /\ cred # Nil
    /\ WriteCredential(p, Nil, TRUE, "idle", "idle")
    /\ UNCHANGED <<durable, marker, lock, ses, command, binding, waiter, issued>>

-----------------------------------------------------------------------------
(* The environment. *)

\* A process ends, in the middle of anything, or after its command with a
\* settlement still pending: the kernel releases its locks.
Ends(p) ==
    /\ lock' = (IF lock = p THEN Nil ELSE lock) /\ DropGuards(p) /\ Forget(p) /\ Unbind(p)
    /\ waiter' = [waiter EXCEPT ![p] = FALSE]
    /\ UNCHANGED <<durable, cred, marker, issued>>

Dies(p) == pc[p] # "idle" /\ Fault /\ Ends(p)

Exits(p) == pc[p] = "idle" /\ waiter[p] /\ Ends(p) /\ UNCHANGED faults

\* The start of another ACS deletes a Session without guard and protection.
ReclaimUnprotected(s) ==
    /\ ses[s].root /\ ~ses[s].prot /\ ses[s].guard = Nil
    /\ ses' = [ses EXCEPT ![s].root = FALSE, ![s].auth = Nil]
    /\ UNCHANGED <<durable, cred, marker, lock, pc, command, binding, waiter, issued, faults>>

-----------------------------------------------------------------------------
Init ==
    /\ backend \in {"keychain", "file"} /\ chosen = "none"
    /\ cred = Nil /\ marker = Nil /\ lock = Nil
    /\ ses = [s \in Sids |-> NoSession]
    /\ pc = [p \in Procs |-> "idle"] /\ op = [p \in Procs |-> "none"]
    /\ sid = [p \in Procs |-> 1] /\ chal = [p \in Procs |-> 0]
    /\ snap = [p \in Procs |-> Nil] /\ failed = [p \in Procs |-> FALSE]
    /\ seen = [p \in Procs |-> Nil] /\ waiter = [p \in Procs |-> FALSE]
    /\ issued = 0 /\ faults = 0

CommandStep(p) ==
    \/ PreflightFails(p) \/ CreateSession(p) \/ PublishPrepared(p) \/ PublishFailed(p)
    \/ Protect(p) \/ Project(p)
    \/ AdvanceCleanupChallenge(p) \/ ArmOperation(p) \/ MarkCleanupPending(p) \/ Spawn(p)
    \/ Settled(p) \/ Transfer(p) \/ MarkRefreshAllowed(p) \/ MarkRecoverable(p) \/ Abandon(p)
    \/ CommitLogin(p) \/ FinalizeStatus(p) \/ Remove(p) \/ DeleteMarker(p) \/ Preserve(p)
    \/ Release(p)

RecoverStep(p) ==
    \/ AwaitHandoff(p) \/ RecoverSession(p) \/ FinalizeRecovery(p)
    \/ RecoverRemove(p) \/ RecoverDelete(p)

Next ==
    \/ SelectProvider
    \/ \E p \in Procs :
         \/ AcquireLogin(p) \/ (\E k \in {"status", "run"} : AcquireStatus(p, k))
         \/ CommandStep(p)
         \/ SettleBegin(p) \/ SettlePending(p)
         \/ AcquireRecovery(p) \/ RecoverStep(p) \/ Logout(p)
         \/ Dies(p) \/ Exits(p)
    \/ \E s \in Sids : TargetWrites(s) \/ TargetSettles(s) \/ ReclaimUnprotected(s)

Spec == Init /\ [][Next]_vars

\* A process runs its command to the end and its supervisor settles the target;
\* acs codex auth recover is repeated while a marker remains, and other ACS
\* starts reclaim what is unprotected.
Fairness ==
    /\ \A p \in Procs : /\ WF_vars(CommandStep(p)) /\ WF_vars(SettleBegin(p) \/ SettlePending(p))
                        /\ WF_vars(AcquireRecovery(p)) /\ WF_vars(RecoverStep(p))
    /\ \A s \in Sids : WF_vars(TargetSettles(s)) /\ WF_vars(ReclaimUnprotected(s))

LiveSpec == Spec /\ Fairness

-----------------------------------------------------------------------------
(* Properties. *)

\* The state has its type.
TypeOK ==
    /\ backend \in {"keychain", "file"} /\ chosen \in {"none", "file", "secret-service"}
    /\ cred \in Credential \cup {Nil} /\ marker \in Marker \cup {Nil}
    /\ lock \in Procs \cup {Nil} /\ ses \in [Sids -> Session]
    /\ pc \in [Procs -> Labels] /\ op \in [Procs -> {"none", "login", "status", "run", "recover"}]
    /\ sid \in [Procs -> Sids] /\ chal \in [Procs -> 0..Runs]
    /\ snap \in [Procs -> Credential \cup {Nil}] /\ failed \in [Procs -> BOOLEAN]
    /\ seen \in [Procs -> Marker \cup {Nil}] /\ waiter \in [Procs -> BOOLEAN]
    /\ issued \in 0..MaxIssued /\ faults \in 0..MaxFaults

\* A copy of the credential outside the provider, and a process that can write
\* one, is always covered by the quarantine marker of its Session: whatever
\* died, failed or ran late, the next command finds it (createResourceBinding
\* publishes before it projects and DeleteMarkerAfterProjectionRemoval comes last).
ProjectionIsMarked ==
    \A s \in Sids : (ses[s].root /\ ses[s].auth # Nil) \/ ses[s].live
                        => marker # Nil /\ marker.sid = s

\* A recoverable marker is a promise that nothing can still rewrite the
\* projection (MarkRecoverable, SettlePending and their callers).
RecoverableIsQuiet ==
    marker # Nil /\ marker.phase = "recoverable" => ~ses[marker.sid].live

\* No copy of the credential is ever out of sight: it is covered by a marker of
\* its own Session, which says recoverable only when nothing can still change it
\* (createResourceBinding, MarkRecoverable, DeleteMarkerAfterProjectionRemoval).
ProjectionIsQuarantined == TypeOK /\ ProjectionIsMarked /\ RecoverableIsQuiet

\* A stored credential is replaced only by a later one of the same account.
laterOfSameAccount == cred # Nil /\ cred' # Nil => cred'.who = cred.who /\ cred'.ver >= cred.ver

\* Only the projection of a Session whose processes have all succeeded and
\* ended becomes the stored credential.
fromEligibleSession ==
    cred' \notin {cred, Nil} => \E s \in Sids : ses[s].auth = cred' /\ ses[s].good /\ ~ses[s].live

\* However many Sessions, recoveries, logouts and late settlements interleave,
\* the stored credential only advances, and only to one that a finished,
\* successful Session holds (CommitLogin,
\* FinalizeStatus, FinalizeRecovery).
CredentialAdvances == [][laterOfSameAccount /\ fromEligibleSession]_vars

\* A Session that was marked as holding a refresh is not removed before that
\* refresh is stored, unless its verification failed.
RefreshSurvives ==
    [][\A s \in Sids :
         ses[s].root /\ ~ses'[s].root /\ marker # Nil /\ marker.sid = s /\ marker.refresh
           => cred = Nil \/ ~refreshes(ses[s].auth, cred) \/ cred = ses[s].auth
              \/ ses[s].unverified]_vars

\* No command keeps the identity lock for ever.
LockIsReleased == \A p \in Procs : lock = p ~> lock # p

\* A quarantined projection nobody works on is eventually removed when recovery
\* is repeated, whichever command died or gave up on it in which phase, as long
\* as the Session's records are of the marker's generation.
QuarantineEnds ==
    \A s \in Sids :
       (/\ marker # Nil /\ marker.sid = s /\ ses[s].root /\ available
        /\ recordsAgree(s, marker) /\ \A p \in Procs : pc[p] = "idle" \/ op[p] = "recover")
         ~> ~ses[s].root

\* The identity becomes usable again: its lock is released and its quarantine
\* ends when recovery is repeated (AcquireRecovery,
\* RecoverSession, SettlePending).
IdentityIsFreed == LockIsReleased /\ QuarantineEnds

=============================================================================
