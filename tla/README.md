# Formal models of ACS (ai-config-selector)

ACS stores named *Profiles*, shows and edits them, keeps their history, and
launches coding agents in a sandbox with exactly the authority a Profile grants.
This directory holds TLA+ models of its stateful core, the TLC runs that check
them, and TLAPS proofs. `PROJECT.json` maps every definition to source lines.

## 1. Inventory

| Component | State it keeps | Operations | Interacts with | Module |
| --- | --- | --- | --- | --- |
| Profile repository (`internal/profilerepo`: `repository.go`, `transaction.go`, `filesystem.go`, `preparation.go`) | a directory of `<name>.json` documents and six private artifacts (`stage`, `swap`, `pending`, `plan`, `decision`, `complete`), a `flock` | `Apply` (create, replace, delete, clone, rename), `Recover`, passive `Read`/`List` | history, under the same lock; CLI, builder | `ProfileTxn`, `ProfileStore`, `ProfileRefinement` |
| Profile history (`history.go`) | lineage directories (event records, snapshots, pins, prune journal), name bindings, the per-transaction witness | `historyPrepare/Validate/Commit/Abort`, `SetHistoryPin`, `PreviewPrune`, `Prune`, `historyRecoverMaintenance` | called by the transaction engine; CLI `profile history`, `restore` | `ProfileHistory` |
| Profile exchange (`profileexchange`, `exchangefile`, `cli/profile_exchange.go`) | one destination file; the imported Profile | export, publication, admission, binding, import | repository | `ProfileExchange` |
| Session leases (`launch/session.go`, `session/session.go`) | session roots, a guard lock and a recovery protection file for each, in-memory reference counts | create, remove, retain, protect, preserve, recover, startup reclamation | executor, supervisors, session operations | `SessionRecovery`, `Executor` |
| Session operations (`sessionops`) | general and typed records, capability, cleanup proof, completed records, by generation | `Arm`, `Settling`, `Retryable`, `Removed`, `Recover`, `FinalizeRemoval` | leases, CLI `session` | `SessionRecovery` |
| Codex authentication (`codexauthresource`, `executor/codex_*`) | the credential in a Keychain or file, the choice of provider, quarantine marker, identity lock | login, status, run, recover, logout, background settlement | executor, leases, session operations | `CodexIdentity`, `SessionRecovery` |
| Executor (`executor`) | one invocation: preflights, Sessions, processes, environment lease, signals | prepare, launch, settle, clean up | leases, sandbox, authentication | `Executor` |
| Sandbox supervision, Linux (`launch/*_linux*.go`) | owner, supervisor, Bubblewrap, init, restricted child, cgroup, cleanup proof | start, forward signals, settle, prove emptiness | executor, leases | `LinuxSupervisor` |
| Sandbox supervision, macOS (`launch/seatbelt_*_darwin.go`) | owner, supervisor, process table, cleanup proof | start, settle twice, prove emptiness | executor, leases | `DarwinSupervisor` |
| Sandbox authority (`launch/sandbox.go`, `path_*.go`, `executable_grants.go`, `filesystem_plan_linux.go`, `seatbelt_darwin.go`) | captured identities of grants, exclusions, executables, protections; the policy | capture, check, prepare, start, compile | executor; the host's file system | `LaunchAuthority` |
| Self update and releases (`selfupdate`, `release/*`, `scripts/publish-release.sh`) | the installed executable, lock and staged file; a draft or published release | update, publication with retries | network, file system | `SelfUpdate` |
| Builder (`builder`) | editor model, a save in flight | edit, save, reload on conflict | repository | not modelled |
| Category registry, adapters, inspection, diagnostics, most of the CLI | none | lookup, formatting, reports | all of the above | not modelled |

Hard behaviours: several processes share one directory and only a lock file
orders them; a process may be killed between any two system calls and the machine
may lose unsynchronized names; system calls may fail after their effect; recovery
is itself interrupted and repeated; history must move with the Profile it
describes; sessions outlive the process that created them and may only be removed
with proof that nothing runs in them; a captured path is stale when it is used;
signals, timeouts and late cleanup notices race with an invocation that is ending.
`PROJECT.json` lists the hazards by line, with the properties that watch them.

What makes each component correct: a Profile change is all or nothing and its
reported outcome true; history neither loses nor invents an event; nothing running
loses its Session and nothing finished keeps it; a credential outside its provider
is always under quarantine and only ever advances; the target runs only after its
preflights, gets every signal it was promised and what the Profile selects, no
more; a cleanup proof means an empty process tree; an installed executable and an
exchanged document are whole, verified and never put over something newer.

## 2. Plan

Done: the repository with its refinement, history, Sessions, Codex identities, the
executor, both supervisors, launch authority, self update with release publication,
profile exchange; and proofs about all of them (section 7).

Next, in this order:

1. `BuilderSave`: the gate between terminal shutdown and a save in flight.
2. Network and MCP parts of the launch recipes.

## 3. Modules

### ProfileTxn

The transaction engine. `dir` is the profiles directory as processes see it:
public names and the six artifacts map to file objects. An object is an inode and
its bytes, so a hard link is the same object under two leaves, which is what
`links` and the recovery classification look at. `disk` is the set of directory
states a power loss may leave: every namespace change adds a state, a directory
sync reduces the set to `{dir}`, and `PowerLoss` picks a member. `hist` and
`hdisk` are the same for what the engine uses of history: the witness of a
transaction, its published event, and `refuses`: an interrupted commit left what
the code will not take up again. `lock` is the `flock`; `pc`, `mode`, `req`,
`mem` and `out` are the locals of one `Apply` or `Recover` call per process.

One action is one system call or one in-memory check, in source order: `LockSync`,
`RecoverScan` (the classification of `recover`), `Check`, `StageCreate/Write/Sync`,
`HistoryPrepare/Ready`, `PendingCreate/Write`, `PlanPublish/Sync`, `Recheck`,
`Validate`, `Decide`, `DecisionSync`, `Finish`, `SwapLink`, `Publish`, `Delete`,
`HistoryCommit`, `HistoryBind`, `CompletePublish/Sync`, `Cleanup`, `HistoryAbort`.
`historyCommit` writes several files, so it is two steps: between them (and after a
failed call in the first) the event may be there or not, and its remains may be such
that `readLineage`, `validateHistoryAttachment` or `publishHistoryRecord` refuse
them: a torn record, snapshot or binding, an unexecuted `prune.json`. Which of them
it was is abstracted (`refuses` may be set by any interruption); `ProfileHistory` has
the files. Once it is set every later `HistoryCommit` fails, for ever. A call can
fail before or after its effect (`Fail`), a process can die anywhere (`Crash`), and
an interrupted write leaves `Short` or `Torn` bytes. `verdict` and `effects` are
history variables: what was ever reported about a transaction, and which
transactions ever changed a public name.

### ProfileStore and ProfileRefinement

`ProfileStore` is the promise to callers: documents change through one decided
transaction at a time, through the views of its operation; a rename may show both
names and never neither; a transaction can be given up only before any effect.
`ProfileRefinement` maps the engine to it: `docs` is what passive readers see,
`owed` the decision whose receipt is not yet durable, `done` the published events.

### ProfileHistory

Lineage directories (`lin`: records, snapshots, pins, `pins.next`, `prune.json`),
name bindings (`bind`), the decided transaction whose history is not complete
(`txn`), and pin and prune requests (`job`, `preview`). Everything runs under the
repository lock, so there is one worker; it can die between any two files and, at
the steps listed in `Cuts`, inside a file. `Mutate` stands for `historyPrepare` and
everything the engine does up to the published Profile; `Attach` to `Complete` are
`historyCommit`; `Maintain` is `historyRecoverMaintenance`. (`step` is the worker's
program point; the specification is `FairHistorySpec`, so that one module can hold
the proofs of this model and of `ProfileExchange`.)

### ProfileExchange

Host A exports a stored Profile: `document` replaces what belongs to the host
(absolute paths, executables, secrets, identities, skill sources) by symbols;
`Create` to `DirSync` publish the bytes under a name that must be free. On host B,
`ReadDocument` admits the file, `ReadBindings` brings a binding for every symbol
(any, or those that mean the same), `bindDocument` builds the candidate,
`CheckDestination` and `Apply` create it. Meanwhile the stored Profile changes, a
user edits the file, another command creates a Profile of the same name, a step
fails, a process is killed, power is lost.

Entry ids and values are numbers. JSON syntax, size limits, path cleaning, case
folding and overlap of relative paths are left out, and so are unknown source names
(export does not check them), network and workspace access, `import validate` and
export to standard output. An empty section stands for an absent one. What `Apply`
does inside the repository is `ProfileTxn`.

### SessionRecovery

One tracked Session. The file system: `root`, `guardFile`, `prot` (the recovery
protection), `proof` (cleanup proof) and `lbind` (Linux binding) in the root. The
registry: `rec` (public record), `cap` (private capability), `bound` (root binding).
The Codex identity: `marker`, when the Session is `typed`. Locks: startup
coordinator, guard, operations fence, identity. Actors: the owner (`opc`, `gen`,
`retained`), its supervisor and contained processes (`spc`, `chan`, `target`), any
number of `acs session recover` and `acs codex auth recover` runs (`pc`, `auth`,
`stale`), and another ACS starting up. A challenge is a random value fresh for each
process generation, so it is the generation number. Every durable write in this
code is a rename followed by a sync, so writes are atomic here; what is interleaved
is their order. The supervisor is the Linux one, reduced to what the Session's files
show; `LinuxSupervisor` has the rest.

The protection of the guard is the subtle part: an owner that has deleted its guard
file still holds the lock of the old inode, while a newcomer may create and lock a
new one (`ReclaimInspect`). `ActiveNeverTakenOver` states that this happens only
when the root is already gone.

### CodexIdentity

One named identity over several Sessions: `cred` (whose, how recent), `marker`
(Session, phase, challenge, whether a refresh is allowed), the identity `lock`, the
Sessions with their projected `auth.json`, and per process the command and its
binding. Login, status and runs share the steps from `AcquireLogin` or
`AcquireStatus` to `Release`; `Transfer` hands an unproven Session to the background
(`SettleBegin`, `SettlePending`); `AcquireRecovery` to `RecoverDelete` are
`acs codex auth recover`. The contained process may write any credential or
rubbish (`TargetWrites`). Both providers are there, the durable choice between file
and Secret Service as well. The Session records are reduced to `recordsAgree`.

### Executor

One invocation of a `kind` (shell, command, Grok, Devin, Devin's verification):
`stage` and `sub` are the program points of the caller and of the goroutine that
checks Devin's authentication, `ses` and `proc` the Sessions with their reference
counts and the retained processes, `env` the lease of the selected environment,
`sup` and `chan` the signal supervisor and the buffered signal. A replay of the signal
that came during the start may fail (`Replay`), and so may the removal of a Session
whose creation failed (`CreateTracked`). The backend is
external: it proves a cleanup, or reports that it never will. A second termination
during cleanup ends ACS at once (`forced`), leaving the Session to recovery.

### LinuxSupervisor

The owner's side (`Prepare` to `Wait`), the supervisor (`Load`, `Protect`,
`WriteBinding`, `Revoke`, the kill preflight of a disposable cgroup,
`AllocateSession`, `BindCgroup`, `Spawn`, the byte protocol, `Kill`, `Settle`,
`Finish`, `FinishSession`), the contained init and the restricted child. `toSup`,
`toOwner`, `toInit`, `fromInit` are the frames in flight (writing one to an init that is
gone fails, and the supervisor kills the tree), `life` the processes with
zombies and who collected them, `cg` the cgroup, `proof`, `binding` and `protected`
the files a recovery looks at.

### DarwinSupervisor

macOS has neither pidfd nor cgroup: supervisor and owner settle the tree by passes
over process-table snapshots (`settling`: two quiet stop passes, then kill passes).
`proc` is the table: a PID is free, a member of the Session or an unrelated host
process, with a generation for the start time that identifies it. A target can fork,
wake a stopped process, kill the supervisor and exit at any point; a free PID can be
taken by the host at any point, also between `sameIdentity` and `signal`, the identity
check and the `kill` after it. Ghosts that no action reads say what the properties
have to except: `raced` has the PIDs taken in that window, `forked` and `missed` count
the quiet passes in a row behind whose snapshots a process was born or woken (or whose
queries failed), `unsure` says that the last snapshot passed over a failed query. A
settlement is `outrun` when it took the Session for empty on such a snapshot, or after
three such passes. A target that stops its supervisor, and the group-kill path without
a supervisor, are not modelled.

### LaunchAuthority

Paths are sequences of names, the disk `fs` a function from paths to nodes with an
inode and a version. `Resolve` captures what a request selects, `Check`,
`PrepareProcess` and `StartProcess` validate again what the code validates there.
Then the launch is `starting`: on macOS the supervisor is spawned, answers and
releases the target (`startSupervisor`) without another look at the disk, on Linux it
takes a snapshot of its own (`Supervise`). Between any two of these steps, that
handshake included, another program may remove, copy, write, create or link files:
symbolic links (`HostLink`) and further names of a file (`HostHardlink`), a private
one included. The policy is the Seatbelt rule list (`buildSeatbeltPolicy`) or the
Linux mounts (`compileLinuxFilesystemPlan`); `CanRead` and `CanWrite` say what it
means. The properties compare that meaning with the selection itself, not with the
reduced list the backends work from. The reduction is stated on sets: the code sorts
the grants so that one comes after those that cover it and keeps one of two equal
grants, which is the same policy as keeping both. An inode is a sequence because a
copy made by another program gets a number no node has had. The supervisor takes the
identities of grants from its own snapshot, so on Linux a grant is a name after
`PrepareProcess`; on macOS grants are not validated again at `StartProcess`, only
exclusions and protections are. So what is promised splits in two. `DenialsHold` is
about the rules, which deny names: whatever became of the disk by the time the target
runs, it can do nothing below an excluded name, a protection or ACS's own state.
`AcceptedAsCaptured` is about the validations, which compare inodes: what they accept
leads where it led, and no granted file is another name of a private one. What other
programs do on macOS after the last of them nothing notices; only on Linux
`PrivateStateHidden` speaks of hard links at the start as well.

`NFC`, `NFD`, `AsciiFold` and `Fold` are tables on names: the two normal forms, what
the code folds (ASCII letters), and what the volume takes for the same name. On macOS an
absent excluded path is denied in the spellings of
`seatbeltSpellingInsensitivePattern`, and so are writes of its missing parents; a name
with a quotation mark, a backslash or a control character (`Unmatchable`) has no
pattern. That this is less than the volume's own rule is a finding (section 6). A grant
that meets such a spelling loses authority on macOS and not on Linux (`Respells`),
which `SelectionHonoured` and `BackendsAgree` exempt. One inspection is
atomic, links lead to link-free paths. The disks, places and requests of an instance
satisfy `PathsAssumption`, `PlacesAssumption`, `TreesAssumption` and
`RequestsAssumption`: what exists hangs below directories, ACS's own state, the
Session, the fixed search directories and the runtime inputs are apart from each
other, the workspace itself is not moved or replaced during a launch, and other
programs leave the names of ACS's private files alone (they may give those files
further names elsewhere). External volumes, system roots, runtime probes and discovery, network, sysctl and Mach rules are
not modelled.

### SelfUpdate

Updaters with a version they were compiled as, the file they found, the lock, the
staged file; `acs` is the installed name now and on the disk, `file` what each inode
holds and whether it is synced. `rel` and `job` are the release being published by
attempts that may bring different builds; the workflow's concurrency group runs one
at a time. The installation directory stays in place; taking the lock and checking
its name are one step. A user who changes the directory between the last check and
the rename (`raced`) or replaces the lock file under a holder (`lockfile.torn`) gets
around the checks, and the properties say so.

## 4. Runs

A property that joins several facts about one hazard is a conjunction of named
parts, each with its own comment in the module; the type invariant of a module is
part of its main invariant, except in `ProfileTxn`, where it is a property of its own.
Each property comes with a mutated definition (`PROJECT.json`, "mutants") that TLC
refutes.

| Run | Instance |
| --- | --- |
| `txn` | 2 processes, 2 names, 2 documents, 2 transactions, 1 failing call, 2 deaths or power losses |
| `history` | 2 names, 2 lineages, 4 events, default retention 1, at most 3 events in a lineage, 1 pinned event per lineage (`MaxPins`), 1 death |
| `history_prune_crash` | 1 lineage, 4 events, 1 death; expects the violation of section 6 |
| `session` | both kinds of Session, 2 generations, one recovery command of each kind, a starting ACS, 3 faults |
| `identity` | 2 processes, 2 accounts, 2 Sessions, 2 issued credentials, 2 faults |
| `executor` | every kind, 3 signals, 2 faults |
| `linux_supervisor` | 2 signals, 2 faults |
| `darwin_supervisor` | 3 PIDs, 1 fork or SIGCONT, 1 PID taken by the host, 1 fault |
| `darwin_outrun` | 3 PIDs, 3 forks or SIGCONTs; expects the violation of section 6 |
| `launch_authority` | the disks and requests of `MCLaunchAuthority`, 1 change by another program, 3 clock ticks |
| `self_update` | 2 updaters, updates to the newest version or to 1 or 3 (`Pins`), a local set of version 2 (`Candidates`), a release published by up to 2 attempts, 1 fault, 1 change by the user |
| `profile_exchange` | 2 exporters, one importer, the Profiles of `MCProfileExchange`, 1 change of each kind, 1 fault |

| Run | Property | What it shows |
| --- | --- | --- |
| `txn` | `TypeOK`, `HolderHasEvidence` | only the lock holder acts, on evidence that is there and durable |
| | `RecoveryAccepts` | no history of failures and deaths reaches a refusal of recovery |
| | `OutcomesHonest` | effects are decided, not_committed left nothing, committed stays |
| | `RecoveryFlagHonest`, `DecisionPrecedesEffect` | what a call reports and does is in order |
| | `ImplementsStore` | the engine refines `ProfileStore` |
| `history` | `HistoryConsistent` | history describes the Profiles; every listed event has its snapshot |
| | `RetentionIsExact` | the limit is met; head and predecessor stay |
| | `ProtectedEventsSurvive` | heads do not go back and pinned events stay |
| | `RecoveryCompletes` | recovery finishes updates and maintenance |
| `session` | `InUseIsKept` | a process keeps its root, a live owner its guard |
| | `RemovedMeansGone`, `CompletionOnlyAdvances` | completion is true and final; the marker outlives its projection |
| | `RecoveryConverges` | recorded removals are finished, proven Sessions reclaimed |
| `identity` | `ProjectionIsQuarantined` | every copy of the credential is under its marker, a recoverable one at rest |
| | `CredentialAdvances`, `RefreshSurvives` | the stored credential only advances, from eligible Sessions, and no refresh is lost |
| | `IdentityIsFreed` | the lock is released and the quarantine ends |
| `executor` | `TreeKeepsResources` | Session, environment and preflights of a live tree |
| | `TerminationReachesTarget` | an accepted termination is not lost in the handoff: it reaches the target or the launch is reported as failed |
| | `ReturnIsComplete` | no silent leftover, no worker left |
| | `InvocationSettles` | the invocation ends, late cleanups give back their references |
| `linux_supervisor` | `ProofIsHonest` | a proof means an empty Session, at every death |
| | `ProtocolHolds` | the ends of the pipes agree; exit status and cgroup are used once |
| | `TreeEnds` | the tree dies with its supervisor and Wait returns |
| `darwin_supervisor` | `ReleaseIsProven` | a proof or a release means an empty Session, unless a settlement was outrun |
| | `HostUntouched` | no unrelated process is signalled but one that takes its PID between identity check and signal |
| | `SettlementEnds` | ACS and supervisor end when the other dies |
| `launch_authority` | `AuthorityIsExact` | the target gets what was selected, no more and no less, at the moment it starts |
| | `DenialsHold` | exclusions, protections and private state are out of reach by name, whatever changed since, up to the release of the target |
| | `AcceptedAsCaptured` | what a validation accepts is what was captured, by inode and by where it leads |
| | `BackendsAgree` | Seatbelt rules and Linux mounts mean the same |
| | `ExecutableAsHashed` | a reused digest is the digest of the bytes |
| `self_update` | `VerifiedBuildOnly` | one whole, verified build from release to installed file |
| | `NothingIsTakenBack` | releases, other installations and reported updates stay |
| | `OutcomeHonest` | the outcome says whether the file was replaced; no stage is left |
| `profile_exchange` | `ExportIsWhole` | whole, portable, truthfully reported documents |
| | `ImportIsFaithful` | exact round trip, valid, nothing but the bindings' values |
| | `NeverReplaces` | neither a file nor a Profile is overwritten |

Why these bounds are enough to be interesting. Two transactions and two deaths let
a second process meet what the first one left, be interrupted in the recovery, and
be recovered again; a failing call on top makes a process return an outcome about a
transaction that somebody else later finishes. Two names are what clone and rename
need. In history, retention 1 with three events in a lineage makes every update
prune, and two lineages give delete-and-recreate and clone-from-history. Two
generations give a Session evidence of an earlier process at the time the next one
is armed; three faults give an owner that dies, a recovery that dies, and a
failure in the recovery after that; `session` starts with either kind of Session.
Two Sessions of an identity let a late settlement meet the marker of its successor,
and two credentials tell a refresh from what it replaces. Three signals are a
termination, a resize in the handoff and a second termination during cleanup. Two
faults let a supervisor fail in a settlement that a fault started. The requests of
`MCLaunchAuthority` have nested and overlapping grants, an exclusion inside and
around a grant, absent and linked paths, names with several spellings, a second name of
a private file (there from the start or made during the launch), and an
executable changed within a tick of its hash; one change by another program is
enough, since each validation compares with the capture. Two attempts with
different builds are a retried release; a fault and a meddling user are independent
of each other. The Profiles of `MCProfileExchange` share symbols, exceed the limit
on bindings (3 instead of the code's) and use every kind of reference.

Symmetry (processes, names, documents; updaters and builds; exporters) is used only
in runs without liveness properties. `CHECK_DEADLOCK FALSE` everywhere: with the
counters exhausted and all work done, the system may really stop.

## 5. Fairness

- `ProfileTxn` (`MCProfileTxnLive.cfg`): weak fairness of the steps of a running
  process and of `Recover`:
  the scheduler runs the lock holder, and any later mutation begins with a
  recovery. Failures and deaths have no fairness and are bounded.
- `ProfileHistory`: the same, for its single worker.
- `SessionRecovery`: weak fairness of the owner, the supervisor, each recovery
  command (a user repeats it until it succeeds) and of a startup that already holds
  the coordinator. Strong fairness where a recovery blocks in `flock` on the
  coordinator, whose waiters the kernel serves. The contained process need not ever
  exit, and no startup need ever happen.
- `CodexIdentity`: weak fairness of each command's own steps, of the background
  settlement (it polls every 10 ms), of a repeated `recover`, of the supervisor that
  settles a target, and of other ACS starts that reclaim what is unprotected.
- `Executor`: weak fairness of the goroutines and of the backend's verdict about a
  cleanup, one way or the other. `InvocationEnds` also needs that contained
  processes end; an interactive target that never exits keeps its invocation.
- `LinuxSupervisor`, `DarwinSupervisor`: weak fairness of ACS, the supervisor, its
  forwarder and init, and of the kernel's deliveries. Nothing is assumed of targets.
- `LaunchAuthority`, `SelfUpdate`, `ProfileExchange`: safety only.

## 6. Disagreements between the code and what is said of it

The findings of `PROJECT.json`, each with a run of its own:

- `history_prune_crash`: a death between the in-transaction `prune.json` and its
  execution leaves a lineage that `readLineage` refuses, so the decided transaction
  is never finished. The same happens, without a journal, in a lineage with pins that
  is at its limit of 256 records, when the death falls between the new record and the
  collection: `readLineage` refuses the 257th (`history.go:307`), while admission
  counted after pruning (`history.go:587`). `RecoveryCompletes`, checked by
  `history`, makes exactly this exception (`retentionLeft`).
- `darwin_outrun`: a process that forks behind a snapshot and is gone when the visit
  gets to it leaves a pass quiet. Three times in a row, and the proof is on disk beside
  its last child, against `docs/guides/codex.md:241`.

`ReleaseIsProven` excepts exactly what `darwin_outrun` and the first row of the table
show (`outrun`), `HostUntouched` what the second one does (`raced`).

Others met while modelling. Each has a configuration that reproduces it in seconds
(`tlc -config <cfg> <module>`); the passing runs leave the case out, or their
properties except it, as noted.

| Configuration | Module | What it shows | In the passing run |
| --- | --- | --- | --- |
| `MCDarwinInconclusive.cfg` | `MCDarwinSupervisor` | `EmptyMeansConclusive` fails: `allPIDs` drops the errors of policy queries when it found a member; if that member is gone when it is visited, the settlement reports an empty Session (`seatbelt_session_darwin.go:129`; comment at `:127`) | `ReleaseIsProven` excepts a settlement that ends so (`unsure`) |
| `MCDarwinPidReuse.cfg` | `MCDarwinSupervisor` | `HostsLeftAlone` fails: between `sameSeatbeltProcessIdentity` and `syscall.Kill` (`seatbelt_supervisor_darwin.go:689`, `:709`) a target can end and an unrelated process take its PID; ACS then stops or kills that one, the supervisor is kept from it by its sandbox (comment at `:785`) | `HostUntouched` excepts a PID taken at that moment |
| `MCLaunchSpellings.cfg` | `MCLaunchAuthority` | `AbsentSpellingsDenied` fails: an absent excluded path is matched without case in the ASCII letters of its two normal forms only, and not at all when its name has a quotation mark, a backslash or a control character (`seatbelt_darwin.go:1223`; `docs/releases/v0.6.0.md:41` says "Match absent exclusions without letter-case sensitivity"; the unit test of the pattern has the missing rule as intended) | `ExclusionsHold` speaks of the exact name and of the spellings of the pattern |
| `MCProfileTxnTorn.cfg` | `MCProfileTxn` | `UndecidedAborts` fails: `preparationPrefix` (`preparation.go:15`) recognises only Version 1 plans while `prepare` writes Version 2, so a pending plan cut after the version digit is refused by every recovery | `PendingCuts = {Short}` |
| `MCProfileHistoryTornEvent.cfg` | `MCProfileHistory` | `DecidedHistoryCompletes` fails: a death inside the write of an event record (`history.go:170`) leaves a record that is refused for ever | `Cuts = {}` |
| `MCProfileHistoryTornPins.cfg` | `MCProfileHistory` | `MaintenanceCompletes` fails: a cut `pins.next` is skipped by maintenance (`history.go:1417`) and then refused | `Cuts = {}` |
| `MCSessionStaleMarker.cfg` | `MCSessionRecovery` | `StaleMarkerCleared` fails: with the root gone and a capability that does not say removed, no recovery clears the marker (`sessionops.go:819`; `docs/guides/codex.md:248`) | not stated |
| `MCSessionPrepared.cfg` | `MCSessionRecovery` | `PreparedIsDiscarded` fails: a death between the new challenge and the record of its generation leaves a prepared marker for ever (`sessionops.go:811`; `docs/guides/codex.md:228`) | `RecoveryConverges` speaks of markers of the capability's generation, `IdentityIsFreed` of agreeing records |
| `MCExecutorHandoff.cfg` | `MCExecutor` | `HandoffLosesNothing` fails: the signal channel holds one signal (`attached.go:14`), so a resize in the handoff displaces a termination (comment at `attached.go:10`) | `TerminationReachesTarget` is about Devin's supervisor, which does not use it |
| `MCSelfUpdateDowngrade.cfg` | `MCSelfUpdate` | `NoSilentDowngrade` fails: with a release published between the metadata requests of two updaters the slower one puts the older version back (`update.go:180`, `:202`) | `noLostUpdate` is about the file found at that point |

Two more configurations pass and are kept for what they add to the runs.
`MCProfileTxnLive.cfg` (`MCProfileTxn`) checks `DecisionRollsForward` for one process:
a durable decision is finished, or its `historyCommit` was interrupted where the code
refuses the remains (`Refused`, the subject of `history_prune_crash`), and then the
decision stays for every call to report. `MCDarwinForks.cfg` (`MCDarwinSupervisor`)
checks `ReleaseIsProven` with the three forks of `darwin_outrun`: to outrun a
settlement, each of its three passes must be outrun. (The run `darwin_supervisor` has one fork, so
that it can check `SettlementEnds` beside a host process and a fault; the theorem
`ReleasesAreProven` bounds nothing.)

Two smaller observations: a hand-made exchange document with three source symbols
for one relative path is admitted but no bindings satisfy it, and a Profile imported
with shared symbols may exceed the limit on bindings when it is exported again. When
ACS dies in the middle of its own settlement on macOS, the supervisor it had stopped
stays stopped; `SettlementEnds` makes this exception.

## 7. Proofs

Each theorem holds for every value of the constants that satisfies the named
assumptions of its module; the bounds on faults, signals and the like are only
natural numbers. In each module `IndInv` is an inductive invariant, there is one
lemma per action that shows what it preserves, and `NextHolds` (or the lemma before
the theorems) joins them. Steps of one actor disturb little of what is said of
another, so most proofs begin with a frame: the conjuncts about variables the action
leaves alone are settled together, and each of the others has a step of its own.
(`ProfileRefinementProofs` has two, `IndInv` for the engine's own steps and `FullInv`
for what callers are told and the refinement; its lemmas about the second are named
after their action with `Keeps`. `ProfileDataProofs` has one for each of its two
models: `ExchangeInv`, with lemmas named after their action with `Step`, and
`HistInd`, with lemmas named after it with `Holds`. `LaunchProofs` has `IndInv` for
the Linux supervisor and `LaunchInv` for launch authority, with lemmas named after the
action with `Keeps`. In `DarwinSupervisorProofs` it is
`TableInv /\ HandshakeInv /\ BookInv /\ SettledInv`.)

| Module | Theorem | Statement | Assumptions |
| --- | --- | --- | --- |
| `ProfileRefinementProofs` | `TypeCorrect` | `Spec => []TypeOK` | names are not artifact names, `Nil` is not a process |
| | `EvidenceHeld` | `Spec => []HolderHasEvidence` | |
| | `DurableDecisionFirst` | `Spec => DecisionPrecedesEffect` | |
| | `OutcomesStayHonest` | `Spec => []OutcomesHonest` | absence and interrupted bytes are no document, object, plan or transaction; a name is no transaction id |
| | `RecoveryNeverRefuses` | `Spec => []RecoveryAccepts` | the same, and `PendingCuts \subseteq {Short}`: no pending plan is cut after its version digit (`MCProfileTxnTorn.cfg`, section 6) |
| | `RecoveryFlagIsHonest` | `Spec => RecoveryFlagHonest` | as for the first |
| | `EngineImplementsStore` | `Spec => ImplementsStore` | |
| `ProfileDataProofs` | `PublicationIsWhole` | `Spec => []ExportIsWhole` | values of host A are numbers, 1 among them; stored Profiles are finite, valid and of the shape `IsProfile`, and one of them can be exported; an exporter is not called like the user or nobody |
| | `ImportStaysFaithful` | `Spec => []ImportIsFaithful` | |
| | `NothingIsReplaced` | `Spec => NeverReplaces` | |
| | `HistoryTypesHold` | `HistorySpec => []HistoryTypeOK` | retention limits are within `1..100`; absence and an interrupted write are no other value; only writes of a file are cut off (any of them may be) |
| | `SnapshotsOutliveRecords` | `HistorySpec => []RecordsHaveSnapshots` | |
| | `RetentionKeepsTheChain` | `HistorySpec => []RetentionIsExact` | |
| | `ProtectedEventsAreSafe` | `HistorySpec => ProtectedEventsSurvive` | |
| | `HistoryDescribesProfiles` | `HistorySpec => []HistoryConsistent` | the same, and `Cuts` without `pinWrite` and `pruneJournal`: the two files of a request are not cut (`MCProfileHistoryTornPins.cfg`, section 6) |
| `SessionRecoveryProofs` | `SessionsInUseAreKept` | `Spec => []InUseIsKept` | the actors are different |
| | `RemovalIsNeverAhead` | `Spec => []RemovedMeansGone` | |
| | `EvidenceGoesInOrder` | `Spec => CompletionOnlyAdvances` | |
| `CodexIdentityProofs` | `CopiesAreQuarantined` | `Spec => []ProjectionIsQuarantined` | absence is not a process, credential or marker; no credential is bad |
| | `CredentialOnlyAdvances` | `Spec => CredentialAdvances` | |
| | `RefreshIsKept` | `Spec => RefreshSurvives` | |
| `ExecutorProofs` | `TreesKeepResources` | `Spec => []TreeKeepsResources` | none but the bounds |
| | `TerminationsReachTargets` | `Spec => []TerminationReachesTarget` | |
| | `OutcomesAreComplete` | `Spec => []ReturnIsComplete` | |
| `LaunchProofs` | `ProofsAreHonest` | `Spec => []ProofIsHonest` | none but the bounds |
| | `ProtocolAlwaysHolds` | `Spec => []ProtocolHolds` | |
| | `AuthorityIsTheSelection` | `LaunchSpec => []AuthorityIsExact` | what exists hangs below directories; ACS's state, the Session and what ACS runs are apart; the workspace is not moved during a launch (`PathsAssumption`, `PlacesAssumption`, `TreesAssumption`, `RequestsAssumption`) |
| | `DenialsHoldAtStart` | `LaunchSpec => []DenialsHold` | |
| | `LaunchesAreAsCaptured` | `LaunchSpec => AcceptedAsCaptured` | |
| | `BackendsGiveTheSame` | `LaunchSpec => []BackendsAgree` | |
| | `ExecutablesAreAsHashed` | `LaunchSpec => ExecutableAsHashed` | |
| `DarwinSupervisorProofs` | `TypesHold` | `Spec => []TypeOK` | 0 and 1 are PIDs, PIDs are numbers |
| | `HostsAreUntouched` | `Spec => []HostUntouched` | |
| | `TargetsAreIdentified` | `Spec => [](TargetIsIdentified /\ NoTargetHonest)` | |
| | `ReleasesAreProven` | `Spec => []ReleaseIsProven` | |
| `SelfUpdateProofs` | `OnlyVerifiedBuilds` | `Spec => []VerifiedBuildOnly` | the next version is new, the installed one is not; no updater is called like a file that is there before |
| | `OutcomesAreHonest` | `Spec => []OutcomeHonest` | |
| | `NothingTakenBack` | `Spec => NothingIsTakenBack` | |

**ProfileTxn.** The inductive invariant is `TypeOK /\ HolderHasEvidence`.
`DecisionPrecedesEffect` alone is not inductive: that the decision is durable when a
name changes was established by `DecisionSync`, or by the sync of the lock holder
before it classified, several steps earlier. `Holder(p)` says for each program
point what the process may rely on: no decision while it prepares, its plan equal to
the published one when it decides, `disk = {dir}` when it classifies, its decision in
all of `disk` while it has effects. It is preserved because only the lock holder
moves and a dying holder returns to idle. Most actions have one of four shapes (a
call that may fail, a directory sync, a failure, an in-memory step), so the lemmas
`SyscallHolds`, `SyncDirHolds`, `FailHolds`, `ProceedHolds` carry the common part and
an action's lemma proves only its own update. `ClassifyFacts` says what
`RecoverScan` learns from a classification.

**ProfileRefinement.** What callers are told, what recovery accepts and the refinement
rest on one larger invariant, `FullInv`, because each of them speaks of every
directory a power loss may leave and none is inductive. `Shape` says what one
directory looks like while nothing is decided (`OpenShape`), while a decision is
unfinished (`ActiveShape`: the public names are those before, during or after its
effect) and under a receipt (`CompleteShape`). `Pair` relates two directories of
`disk`: they show the same documents unless both carry the same unfinished decision,
and one without the decision proves that nothing has happened yet. `Events` relates
the histories of `hdisk` to them: a history may miss an event only while every
directory carries its decision. `Fresh` says that ids to come have left no trace,
`Claims` what is true of a transaction reported as committed or not committed, and
`HeldInv` what the lock holder relies on: what it has prepared (`PrepInv`), how far
the decision is rolled forward (`FinishInv`), what it would report (`OutInv`) and
when nothing is unsynchronized (`SyncInv`). A system call adds one directory, so its
lemma shows that the new one is `Admissible`; a synchronization, a death and a power
loss only remove some (`Shrink`). For the refinement, `SyscallMaps`, `SyncMaps`,
`HistoryMaps` and `PowerLossMaps` say which step of `ProfileStore` each of them is:
a power loss may roll back, forget the decision, find it again, or find it
committed. `RecoveryNeverRefuses` evaluates `classify` on a `Shape`, counting links
with the library's facts on cardinality.

**ProfileExchange.** Half of the argument is about data. A symbol is a rank among the
local entries; a rank belongs to one entry (`RankInjective`) and stays within what
the document requires (`RankBound`), so the value bound to a symbol is that of the
entry it stands for (`LocalFound`, `MeantFacts`). Hence `RoundTrips`: decoding an
exported document with bindings that mean the same is accepted and gives `Moved(p)`,
for entries and exclusions of any number. `AdmittedFacts` says what admission rules
out, and `BindingsOnly` that whatever is bound afterwards has values of the bindings
only, which covers the edited documents as well. The other half is about steps:
`Ready` says what an exporter has prepared and what the destination must be for what
it has reported, `Sound` what a destination can hold (whole, and an exported or an
edited document), `ImportInv` what an import has accepted at each step. The
invariants were strengthened in two places: the destination is the exporter's own
while the directory is synced, unless its user has edited it, and a document read
from an exporter is one that an export made. The recursion-free `bound` and
`symbolic` are functions on the entries, so no induction is needed.

**ProfileHistory.** `HistInd` has one part per kind of evidence. `LineageInv` says
what a directory holds at every moment: a record only beside its snapshot, one record
for each event and each number, the newest one's parent among them (`Chained`), and
in a journal only events that neither head, predecessor nor pins protect (`Spared`).
`TxnInv` says what a decided transaction may still count on after any deaths. The
directory it will leave is computed from the one it has now (`Kept`), so `Bounded` can
promise the retention limit long before the pruning, and `Ordered` that its record is
the next in line. `Progress` adds what each step has achieved, `NameInv` that a name
outside the transaction is settled and shares no lineage with it, `JobInv` what a pin
or prune request has checked, `TidyInv` that maintenance leaves nothing behind before
the next change. Preparing and collecting are about sets of records: `CandidatesFacts`
shows, by counting the newer records, that what `pruneCandidates` leaves is head,
predecessor, pins and at most the limit, `Removal` what deleting one file of a
journaled event leaves true, and `Safe` what no step may do to a directory, from which
`ProtectedEventsSurvive` follows. Two strengthenings were needed: the bound on what
will be left counts the adopted record as well, and a lineage in a transaction is
named by no other name. A cut in `pins.next` or in the journal of a prune request
leaves names that no longer resolve, hence the premise of `HistoryDescribesProfiles`
(`WholeInv`); the `history` run, with deaths between files only, satisfies it.

**SessionRecovery.** That a root is deleted only with nothing alive in it is decided
long before the deletion: by an owner that was told of the settlement, by a recovery
that read a proof under the guard, by a startup that saw no protection.
`OwnerLocks` and `WorkerInv` say who holds which of the four locks at which step;
`OwnerInv` what exists on disk at each step of the owner; `ProcessInv` what a proof,
a marker phase, a notice in the channel or a missing root says of the processes
(`Dead`: none is alive and none can be started, which a supervisor that was adopted
too late must respect as well); `StartupInv` is the subtle case of the guard's old
inode; `RemovedInv` relates records to the deletion. `Locking` and `WorkerKept` say
once that an actor's step keeps what is known of all the others.

**CodexIdentity.** Whoever is in the middle of a command holds the identity lock
(`LockInv`), so `StepInv` can speak of the marker and the stored record at each of
its steps. Three processes outlive the lock: the contained one, a settlement in the
background and a supervisor; `MarkerInv` and `SessionInv` say what holds whoever
acts: a Session that is live or holds a credential is the marker's, and its
credential is the stored one or later. `Decided` is the condition under which
deleting a projection loses nothing; a run must reach it before `remove`, a recovery
before `discard`.

**Executor.** The heart is `References`: the count of a live Session is the number of
processes that hold it, plus one until its removal is asked for. `Processes` ties a
process's hold to its cleanup, `Handles` a thread's program point to its process, and
`Places` says which thread can be where. `ReturnIsComplete` also needs that a
Session left behind is in the outcome of its thread as soon as it is left
(`Outcomes`); `TerminationReachesTarget` needs where an accepted termination is at
each step of the handoff (`Intake`), a replay that failed included.

**LinuxSupervisor.** `state` counts how far the start-up protocol has come, and
`OwnerInv`, `SupInv` and `InitInv` say for each end what it has sent and what is in
its pipes at that count; an unexpected byte is then impossible. `ProofIsHonest`
follows from `SupInv`: proof and binding at each step before and after the cgroup is
emptied. The pipe lengths follow from the protocol and the bound on signals.

**LaunchAuthority.** Most of the argument is about one moment. `EvalSymlinks` and the
search for what exists are recursive functions; the lemmas about them
(`TraversalIs`, `EvalStep`, `EvalCanonical`, `EvalAbsent`, `AncestorsAreDirs`) go by a
least counterexample, so no induction theorem is needed. `LinuxReadIs` and
`LinuxWriteIs` say that the mounts, resolved to the deepest one above a path, give
exactly what the authorities say: a path between a mount and a denial lies in a
rebuilt directory, whose children have mounts of their own. `GrantInEffect` says that
the reduction drops a grant only where the workspace or a grant in effect gives as
much: of the grants that give what it gives, a shortest one is dominated by none.
`SeatbeltBeyond`, `SeatbeltGives`, `LinuxBeyond` and `LinuxGives` then relate either
policy to the selection, from which `AuthorityIsExact` and `BackendsAgree` follow.
What lasts from one step to the next is `LaunchInv`: captured grants have one type for
each path and stay out of ACS's own state (`GrantsSound`), also by inode
(`FilesApart`; a copy made later has a fresh inode, hence `Fresh`), a digest that may be
reused was taken before the last tick (`HashSound`), and the policy is the one the
backend compiles from the captures (`PolicyInv`). The invariant says nothing about
what captures lead to later. `DenialsHoldAtStart` does not need it on macOS: the rules
compare names, and `PolicyInv` says which names they have, so no change of the disk
during the handshake matters; on Linux `StartInv` has the snapshot the mounts were
compiled from. `LaunchesAreAsCaptured` takes it from the validation of the step itself:
`PreparedApart` from the identities of the grants, and `StartedAsCaptured` from those of
the protections and from `ExclusionLeads`, which is why an exclusion must be validated
by its first missing name as well as by its witness.

**DarwinSupervisor.** `TableInv` types the process table: the supervisor's PID is never
anybody else's. `HandshakeInv` follows the answer to the policy query and the no-target
notice through the channels; `BookInv` has the types, and says which program points and
messages go together. `SettledInv` is the argument for `ReleaseIsProven`. `PassOf` says
what is known of the table while a settlement stands where it stands: a quiet pass has
dealt with every running process but those still ahead of it, unless one was born or
woken behind its snapshot or a query failed. After one quiet pass that saw everybody
nobody runs, so nobody can fork or wake another, and the passes after it see everybody
too; so at the end either the Session is empty or three passes in a row missed
somebody. The owner's passes also reach the supervisor, so nobody starts a target
after them; the supervisor's own come after the last start. Nothing bounds forks,
exits, reuse of PIDs, failures and signals. `RaceInv` gives `HostUntouched`: a PID that
ACS is about to signal is a member's, free, or was taken since the identity check.

**SelfUpdate.** `LockInv` is mutual exclusion as far as the lock file goes: one
holder for each file, one holder altogether unless a file was removed under its
holder. `StepInv` says what an updater has verified and staged at each step and
`DiskInv` that every file that is or may become the installed one is whole and
synced; `JobInv` that the release job works on a draft which holds only its own
candidate. `NothingIsTakenBack` needs all of them at the rename.

## 8. Only model-checked

- Liveness: `DecisionRollsForward` (section 6), `RecoveryCompletes`, `RecoveryConverges`,
  `IdentityIsFreed`, `InvocationSettles`, `TreeEnds`, `SettlementEnds`. The prover
  has no rules for fairness and `ENABLED`.

Every safety invariant and action property of a passing run is stated by a theorem, with
the premises the table names.

## 9. Not modelled

- Writers that ignore the repository lock, and the mode, owner, symlink and inode
  checks that guard against them; byte quotas; passive `Read` and `List`.
- In sessions: Sessions created before protection existed, boot identity, corrupt
  records, and the Darwin form of the proof file, which `DarwinSupervisor` reduces
  to its kind.
- What other programs do after the last validation on macOS to what an allowed name
  leads to (`docs/reference/security-model.md:24` and
  `docs/reference/common-profile-format.md:305` except existing hard links and changes
  after final validation from what ACS promises), the paths of runtime probes among the
  inputs of `validateSandboxCheck`, and whether ACS's own executable stays readable
  under Seatbelt.
- The contents of recipes other than files (network, loopback, MCP servers, system
  call filters), pseudo-terminal copying and resource limits.
- The builder's save gate, which is next in the plan; its editors, the category
  registry, target adapters, inspection and diagnostics have no state that survives
  a call, and argument parsing and formatting are not control.
- HTTP, archive, JSON and Keychain formats: they succeed with a value or fail.
