----------------------------- MODULE SelfUpdate -----------------------------
(***************************************************************************)
(* `acs update` (internal/selfupdate) against the releases that            *)
(* internal/release/publication stages and publishes.                      *)
(*                                                                         *)
(* Several updaters run on one installation directory while a new release  *)
(* is being published, possibly by several attempts of the release job (a  *)
(* retry may bring a rebuilt candidate).  An updater compares the version  *)
(* it was compiled as with the release it selects, remembers the file it   *)
(* found installed, downloads, takes the lock of the directory, stages,    *)
(* syncs, looks at the installed file again, renames and syncs the         *)
(* directory.  Meanwhile the user may replace the installed file, the      *)
(* staged file or the lock file, the command may be cancelled or killed,   *)
(* and the machine may lose power.                                         *)
(*                                                                         *)
(* Abstractions.  A version is a number (0: a build without one), the      *)
(* bytes of an executable are the version and the build that made them, a  *)
(* checksum is the build it names.  The random name of a staged file is    *)
(* its updater.  The installation directory itself stays where it is; that *)
(* it moved is one of the ways a step may fail.                            *)
(***************************************************************************)
EXTENDS Naturals, FiniteSets, FiniteSetsExt

CONSTANTS
    Updaters,
    Stable,         \* versions published before the behaviour starts
    Installed,      \* the version installed at first
    Next_v,         \* the version being published
    Builds,         \* candidates the attempts to publish it may bring
    Pins,           \* the versions users ask for (0: none)
    Candidates,     \* the versions of validated local sets
    MaxAttempts,    \* bound: runs of the release job
    MaxMeddles,     \* bound: changes by the user to the directory
    MaxFaults       \* bound: failing steps, kills, losses of power

Assets == {"archive", "SHA256SUMS"}
Absent == "absent"
torn == [ver |-> 0, build |-> "torn"]       \* a file without its bytes
local == [ver |-> 0, build |-> "local"]     \* a development build
foreign == "foreign"                        \* the inode of a file the user brings
no == "no"
Nothing == [ino |-> foreign, bytes |-> torn]      \* not looked at yet

\* A new version is published once; the names the model gives to a user's file
\* and to no file at all are not updaters.
ASSUME VersionsAssumption ==
    /\ Next_v \notin Stable /\ Installed \in Stable
    /\ Pins \subseteq {0} \cup Stable \cup {Next_v} /\ Candidates \subseteq Stable \cup {Next_v}
ASSUME NamesAssumption == Updaters \cap {"first", foreign, no} = {}

VARIABLES
    rel,        \* the release of Next_v: draft or not, and its assets
    job,        \* the running attempt to publish it
    attempts,
    up,         \* every updater's locals
    lockfile,   \* generation of the lock file's name (0: there is none)
    acs,        \* the inode named acs, and the one the disk holds
    stage,      \* the inode under every updater's staged name
    file,       \* bytes of every inode and whether they are on the disk
    everAcs,    \* the inodes that were named acs
    raced,      \* the user changed the directory between check and rename
    meddles, faults

server == <<rel, job, attempts>>
disk == <<acs, stage, file, everAcs>>
vars == <<server, up, lockfile, disk, raced, meddles, faults>>

Versions == Stable \cup {Next_v}
Inodes == Updaters \cup {"first", foreign}
Fault == faults < MaxFaults /\ faults' = faults + 1

-----------------------------------------------------------------------------
(* Publication of the release. *)

\* inspectCandidate: every asset of a candidate comes from its build.
candidate(build) == [a \in Assets |-> build]

\* decodeRelease: the release as GitHub answers, without duplicate fields.
fetched == rel

\* Plan: what may be done with the release an attempt last fetched, given its
\* candidate.  Never a deletion or a replacement.
Missing(seen) == {a \in Assets : seen.asset[a] = Absent}
Plan(seen, build) ==
    IF seen.state = Absent THEN "create-draft"
    ELSE IF \E a \in Assets \ Missing(seen) : seen.asset[a] # candidate(build)[a] THEN "blocked"
    ELSE IF seen.state = "published"
         THEN IF Missing(seen) = {} THEN "complete" ELSE "blocked"
    ELSE IF Missing(seen) # {} THEN "resume-draft" ELSE "publish-draft"

NoRelease == [state |-> Absent, asset |-> [a \in Assets |-> Absent]]
NoJob == [pc |-> "idle", build |-> no, seen |-> NoRelease, todo |-> {}]
jobStep(pc) == job.pc = pc /\ UNCHANGED <<attempts, up, lockfile, disk, raced, meddles>>

\* scripts/publish-release.sh is started with a candidate that passed
\* artifacts.Read: its archive and its manifest come from one build.
JobStarts(build) ==
    /\ job.pc = "idle" /\ attempts < MaxAttempts
    /\ attempts' = attempts + 1
    /\ job' = [NoJob EXCEPT !.pc = "plan", !.build = build, !.seen = fetched]
    /\ UNCHANGED <<rel, up, lockfile, disk, raced, meddles, faults>>

\* The plan decides; after the uploads only a complete draft may be published.
JobPlans ==
    /\ jobStep("plan")
    /\ LET p == Plan(job.seen, job.build) IN
       job' = CASE p \in {"blocked", "complete"} -> NoJob
                [] p = "create-draft" -> [job EXCEPT !.pc = "create"]
                [] p = "resume-draft" /\ job.todo = {} ->
                       [job EXCEPT !.pc = "upload", !.todo = Missing(job.seen)]
                [] p = "publish-draft" -> [job EXCEPT !.pc = "publish"]
                [] OTHER -> NoJob
    /\ UNCHANGED <<rel, faults>>

JobCreates ==
    /\ jobStep("create")
    /\ rel' = [rel EXCEPT !.state = "draft"]
    /\ \/ job' = [job EXCEPT !.pc = "plan", !.seen = rel'] /\ UNCHANGED faults
       \/ Fault /\ job' = NoJob                             \* the answer is lost

\* Every upload done, the release is fetched again (todo = Assets marks it).
\* An upload creates an asset, never replaces one; one that breaks off may
\* leave an asset that is not uploaded.
JobUploads ==
    /\ jobStep("upload")
    /\ \/ /\ job.todo = {}
          /\ job' = [job EXCEPT !.pc = "plan", !.seen = fetched, !.todo = Assets]
          /\ UNCHANGED <<rel, faults>>
       \/ \E a \in job.todo :
             /\ rel.asset[a] = Absent
             /\ \/ /\ rel' = [rel EXCEPT !.asset[a] = candidate(job.build)[a]]
                   /\ job' = [job EXCEPT !.todo = @ \ {a}] /\ UNCHANGED faults
                \/ /\ Fault /\ job' = NoJob
                   /\ rel' \in {rel, [rel EXCEPT !.asset[a] = "starter"],
                                [rel EXCEPT !.asset[a] = candidate(job.build)[a]]}

\* draft=false; GitHub makes it immutable.  The checks that follow only read.
JobPublishes ==
    /\ jobStep("publish")
    /\ rel' = [rel EXCEPT !.state = "published"]
    /\ job' = NoJob /\ UNCHANGED faults

JobDies ==
    /\ job.pc # "idle" /\ Fault /\ job' = NoJob
    /\ UNCHANGED <<rel, attempts, up, lockfile, disk, raced, meddles>>

-----------------------------------------------------------------------------
(* An updater. *)

\* Executables published: those of the earlier releases have a build of their own.
Published == Stable \cup (IF rel.state = "published" THEN {Next_v} ELSE {})
download(v, a) == IF v = Next_v THEN rel.asset[a] ELSE "old"

\* openNamed, Stat and sha256: inode and bytes of the name acs.
installedIdentity == [ino |-> acs.now, bytes |-> file[acs.now].bytes]

Idle == [pc |-> "idle", current |-> 0, pin |-> 0, check |-> FALSE, target |-> 0,
         original |-> Nothing, sums |-> no, binary |-> torn, lock |-> 0, cancelled |-> FALSE, result |-> no]

\* The locals every step leaves alone, and who holds the directory's lock.
holding == {"stage", "write", "sync", "recheck", "rename", "dirsync"}
holders(g) == {u \in Updaters : up[u].lock = g /\ up[u].pc \in holding}
at(u, pc) == up[u].pc = pc
go(u, pc) == up' = [up EXCEPT ![u].pc = pc]

\* A return of Run: the deferred calls unlink the staged file if it still is
\* the updater's, and give the lock back.
unstage(u) == IF stage[u] = u THEN [stage EXCEPT ![u] = no] ELSE stage
returns(u, result) ==
    /\ up' = [up EXCEPT ![u] = [Idle EXCEPT !.pc = "done", !.result = result]]
    /\ stage' = unstage(u)
refuses(u) == returns(u, "failed") /\ UNCHANGED <<acs, file, everAcs, lockfile>>

\* The command line: the version of the executable that was started, an
\* explicit version or none, --check or not.
Start(u, pin, check) ==
    /\ at(u, "idle")
    /\ up' = [up EXCEPT ![u] = [Idle EXCEPT !.pc = "metadata", !.current = file[acs.now].bytes.ver,
                                            !.pin = pin, !.check = check]]
    /\ UNCHANGED <<server, lockfile, disk, raced, meddles, faults>>

\* artifacts.Read of a local set: archive, checksums and installer agree and
\* hold an executable for this platform.
validated(v) == [ver |-> v, build |-> "old"]

\* runLinuxCandidate: the bytes come from a validated local set of any
\* version, and the installed version is not compared.
StartCandidate(u, v) ==
    /\ at(u, "idle") /\ file[acs.now].bytes.ver # 0
    /\ up' = [up EXCEPT ![u] = [Idle EXCEPT !.pc = "identity", !.pin = v, !.target = v,
                                            !.binary = validated(v)]]
    /\ UNCHANGED <<server, lockfile, disk, raced, meddles, faults>>

step(u, pc) == at(u, pc) /\ UNCHANGED <<server, raced, meddles, faults>>

\* Run: the release metadata, ParseVersion and Compare.
Metadata(u) ==
    /\ step(u, "metadata")
    /\ LET me == up[u]
           target == IF me.pin = 0 THEN Max(Published) ELSE me.pin
       IN IF me.cancelled \/ target \notin Published THEN refuses(u)
          ELSE IF me.check THEN returns(u, "checked") /\ UNCHANGED <<acs, file, everAcs, lockfile>>
          ELSE IF me.current = 0 \/ (me.pin = 0 /\ me.current > target) THEN refuses(u)
          ELSE IF me.pin = 0 /\ me.current = target
               THEN returns(u, "unchanged") /\ UNCHANGED <<acs, file, everAcs, lockfile>>
          ELSE /\ up' = [up EXCEPT ![u].pc = "identity", ![u].target = target, ![u].current = 0]
               /\ UNCHANGED <<lockfile, disk>>

\* preflight and pinDirectory accept the layout; installedIdentity.
Identity(u) ==
    /\ step(u, "identity")
    /\ up' = [up EXCEPT ![u].original = installedIdentity,
                        ![u].pc = IF up[u].binary = torn THEN "manifest" ELSE "open"]
    /\ UNCHANGED <<lockfile, disk>>

\* get of SHA256SUMS, checksum.
Manifest(u) ==
    /\ step(u, "manifest")
    /\ IF up[u].cancelled THEN refuses(u)
       ELSE /\ up' = [up EXCEPT ![u].pc = "archive", ![u].sums = download(up[u].target, "SHA256SUMS")]
            /\ UNCHANGED <<lockfile, disk>>

\* extract and verifyBinary: the executable of a whole archive.
extract(v, build) == [ver |-> v, build |-> build]

\* get of the archive, its checksum, extract, verifyBinary.
Archive(u) ==
    /\ step(u, "archive")
    /\ LET build == download(up[u].target, "archive") IN
       IF up[u].cancelled \/ build # up[u].sums THEN refuses(u)
       ELSE /\ up' = [up EXCEPT ![u].pc = "open", ![u].sums = no,
                           ![u].binary = extract(up[u].target, build)]
            /\ UNCHANGED <<lockfile, disk>>

\* replaceWithStageOps: the lock file is opened, or created.
OpenLock(u) ==
    /\ step(u, "open")
    /\ lockfile' = [lockfile EXCEPT !.named = IF @ = 0 THEN lockfile.gen + 1 ELSE @,
                                    !.gen = IF lockfile.named = 0 THEN @ + 1 ELSE @]
    /\ up' = [up EXCEPT ![u].pc = "lock", ![u].lock = lockfile'.named]
    /\ UNCHANGED disk

\* flock without waiting, repeated; the locked file must still have the name.
LockAnyFile(u) ==                           \* mutant: the locked file's name is not looked at
    /\ step(u, "lock")
    /\ holders(up[u].lock) = {}
    /\ go(u, "stage") /\ UNCHANGED <<lockfile, disk>>
Lock(u) ==
    /\ step(u, "lock")
    /\ holders(up[u].lock) = {}
    /\ IF lockfile.named # up[u].lock THEN refuses(u)
       ELSE go(u, "stage") /\ UNCHANGED <<lockfile, disk>>
LockCancelled(u) ==
    /\ step(u, "lock") /\ holders(up[u].lock) # {} /\ up[u].cancelled
    /\ refuses(u)

\* The installed file is still the one remembered; an exclusive staged file.
Stage(u) ==
    /\ step(u, "stage")
    /\ IF installedIdentity # up[u].original THEN refuses(u)
       ELSE /\ go(u, "write")
            /\ stage' = [stage EXCEPT ![u] = u]
            /\ UNCHANGED <<lockfile, acs, file, everAcs>>

\* Write and Chmod through the open file, then Sync of it.
Write(u) ==
    /\ step(u, "write")
    /\ go(u, "sync")
    /\ file' = [file EXCEPT ![u].bytes = up[u].binary]
    /\ UNCHANGED <<lockfile, acs, stage, everAcs>>
SyncSkipped(u) ==                           \* mutant: renamed before its bytes are on the disk
    /\ step(u, "sync") /\ go(u, "recheck") /\ UNCHANGED <<lockfile, disk>>
Sync(u) ==
    /\ step(u, "sync")
    /\ file' = [file EXCEPT ![u].synced = TRUE]
    /\ IF up[u].cancelled
       THEN returns(u, "failed") /\ UNCHANGED <<acs, everAcs, lockfile>>
       ELSE go(u, "recheck") /\ UNCHANGED <<lockfile, acs, stage, everAcs>>

\* The directory, the installed file and the staged file once more.
Recheck(u) ==
    /\ step(u, "recheck")
    /\ IF \/ installedIdentity # up[u].original
          \/ stage[u] # u \/ file[u].bytes # up[u].binary
          \/ up[u].cancelled
       THEN refuses(u)
       ELSE go(u, "rename") /\ UNCHANGED <<lockfile, disk>>

\* Renameat: the staged name becomes acs.
Rename(u) ==
    /\ step(u, "rename")
    /\ stage[u] # no
    /\ acs' = [acs EXCEPT !.now = stage[u]]
    /\ everAcs' = everAcs \cup {stage[u]}
    /\ stage' = [stage EXCEPT ![u] = no]
    /\ go(u, "dirsync") /\ UNCHANGED <<lockfile, file>>

\* Sync of the directory; a cancelled command says so although it has replaced.
DirSync(u) ==
    /\ step(u, "dirsync")
    /\ acs' = [acs EXCEPT !.disk = acs.now]
    /\ returns(u, IF up[u].cancelled THEN "uncertain" ELSE "updated")
    /\ UNCHANGED <<lockfile, file, everAcs>>

\* Any step may fail: the network, a damaged download, the file system.
StepFailsPlainly(u) ==                      \* mutant: every failure is reported alike
    /\ up[u].pc \in {"metadata", "identity", "manifest", "archive", "open", "lock"} \cup holding
    /\ Fault /\ returns(u, "failed")
    /\ UNCHANGED <<server, acs, file, everAcs, lockfile, raced, meddles>>
StepFails(u) ==
    /\ up[u].pc \in {"metadata", "identity", "manifest", "archive", "open", "lock"} \cup holding
    /\ Fault
    /\ returns(u, IF at(u, "dirsync") THEN "uncertain" ELSE "failed")
    /\ UNCHANGED <<server, acs, file, everAcs, lockfile, raced, meddles>>

Cancel(u) ==
    /\ up[u].pc \notin {"idle", "done", "killed"} /\ ~up[u].cancelled
    /\ up' = [up EXCEPT ![u].cancelled = TRUE]
    /\ UNCHANGED <<server, lockfile, disk, raced, meddles, faults>>

-----------------------------------------------------------------------------
(* The machine and its user. *)

running(u) == up[u].pc \notin {"idle", "done", "killed"}
Dead == [Idle EXCEPT !.pc = "killed"]

\* A killed process gives its lock back and leaves its staged file.
Killed(u) ==
    /\ running(u) /\ Fault /\ up' = [up EXCEPT ![u] = Dead]
    /\ UNCHANGED <<server, lockfile, disk, raced, meddles>>

\* Bytes that were not synced may be lost, so may names of a directory that
\* was not.
PowerLoss ==
    /\ Fault
    /\ up' = [u \in Updaters |-> IF running(u) THEN Dead ELSE up[u]]
    /\ \E kept \in {acs.now, acs.disk} : acs' = [now |-> kept, disk |-> kept]
    /\ file' = [i \in Inodes |-> IF file[i].synced THEN file[i] ELSE [file[i] EXCEPT !.bytes = torn]]
    /\ everAcs' = everAcs \cup {acs'.now}
    /\ UNCHANGED <<server, lockfile, stage, raced, meddles>>

Meddle ==
    /\ meddles < MaxMeddles /\ meddles' = meddles + 1
    /\ raced' = (raced \/ \E u \in Updaters : at(u, "rename"))
    /\ UNCHANGED <<server, up, faults>>

\* Another file under the name, or other bytes in the same file.
UserInstalls ==
    /\ Meddle
    /\ file[foreign].bytes = torn
    /\ file' = [file EXCEPT ![foreign] = [bytes |-> local, synced |-> TRUE]]
    /\ acs' = [now |-> foreign, disk |-> foreign]
    /\ everAcs' = everAcs \cup {foreign}
    /\ UNCHANGED <<lockfile, stage>>
UserRewrites ==
    /\ Meddle
    /\ file' = [file EXCEPT ![acs.now].bytes = local]
    /\ UNCHANGED <<lockfile, acs, stage, everAcs>>
UserSubstitutesStage(u) ==
    /\ Meddle
    /\ stage[u] = u /\ file[foreign].bytes = torn
    /\ file' = [file EXCEPT ![foreign] = [bytes |-> local, synced |-> TRUE]]
    /\ stage' = [stage EXCEPT ![u] = foreign]
    /\ UNCHANGED <<lockfile, acs, everAcs>>
UserRemovesLock ==
    /\ Meddle
    /\ lockfile.named # 0
    /\ lockfile' = [lockfile EXCEPT !.named = 0, !.torn = @ \/ holders(lockfile.named) # {}]
    /\ UNCHANGED disk

-----------------------------------------------------------------------------
Init ==
    /\ rel = NoRelease
    /\ job = NoJob /\ attempts = 0
    /\ up = [u \in Updaters |-> Idle]
    /\ lockfile = [named |-> 0, gen |-> 0, torn |-> FALSE]
    /\ acs = [now |-> "first", disk |-> "first"]
    /\ stage = [u \in Updaters |-> no]
    /\ file = [i \in Inodes |-> IF i = "first"
                                THEN [bytes |-> [ver |-> Installed, build |-> "old"], synced |-> TRUE]
                                ELSE [bytes |-> torn, synced |-> FALSE]]
    /\ everAcs = {"first"}
    /\ raced = FALSE /\ meddles = 0 /\ faults = 0

UpdaterStep(u) ==
    \/ Metadata(u) \/ Identity(u) \/ Manifest(u) \/ Archive(u) \/ OpenLock(u) \/ Lock(u)
    \/ LockCancelled(u) \/ Stage(u) \/ Write(u) \/ Sync(u) \/ Recheck(u) \/ Rename(u) \/ DirSync(u)

Next ==
    \/ \E b \in Builds : JobStarts(b)
    \/ JobPlans \/ JobCreates \/ JobUploads \/ JobPublishes \/ JobDies
    \/ \E u \in Updaters :
          \/ \E pin \in Pins, check \in BOOLEAN : Start(u, pin, check)
          \/ \E v \in Candidates : StartCandidate(u, v)
          \/ UpdaterStep(u) \/ StepFails(u) \/ Cancel(u) \/ Killed(u) \/ UserSubstitutesStage(u)
    \/ PowerLoss \/ UserInstalls \/ UserRewrites \/ UserRemovesLock

Spec == Init /\ [][Next]_vars

-----------------------------------------------------------------------------
Bytes == {torn, local} \cup [ver : Versions, build : Builds \cup {"old"}]
\* The state has its type (Run, replaceWithStageOps and the release job).
TypeOK ==
    /\ rel \in [state : {Absent, "draft", "published"},
                asset : [Assets -> Builds \cup {Absent, "starter"}]]
    /\ job.pc \in {"idle", "plan", "create", "upload", "publish"}
    /\ up \in [Updaters -> [pc : {"idle", "metadata", "identity", "manifest", "archive", "open",
                                  "lock", "done", "killed"} \cup holding,
                            current : {0} \cup Versions, pin : {0} \cup Versions, check : BOOLEAN,
                            target : {0} \cup Versions,
                            original : [ino : Inodes, bytes : Bytes],
                            sums : Builds \cup {no, "old"}, binary : Bytes,
                            lock : 0 .. lockfile.gen, cancelled : BOOLEAN,
                            result : {no, "failed", "checked", "unchanged", "uncertain", "updated"}]]
    /\ acs \in [now : Inodes, disk : Inodes]
    /\ stage \in [Updaters -> Inodes \cup {no}]
    /\ file \in [Inodes -> [bytes : Bytes, synced : BOOLEAN]]

\* A published release is the whole candidate of one attempt: no attempt,
\* retry or half-done upload publishes an archive beside another build's
\* manifest (plan.go, publish-release.sh).
PublishedIsOneBuild ==
    rel.state = "published" => \E b \in Builds : \A a \in Assets : rel.asset[a] = b

\* Nothing of a published release ever changes again, and an asset that was
\* uploaded is never replaced.
releasesOnlyGrow ==
    /\ rel.state = "published" => rel' = rel
    /\ \A a \in Assets : rel.asset[a] # Absent => rel'.asset[a] = rel.asset[a]

\* The executable is never a torn file, not even after a loss of power, and
\* what an updater put there is the build that was published (or, from a
\* candidate, validated); only a user who changes the directory in the moment
\* between the last check and the rename gets around it.
InstalledIsVerified ==
    raced \/ LET b == file[acs.now].bytes IN
             \/ b = local \/ b.build = "old"
             \/ b.ver = Next_v /\ rel.state = "published" /\ b.build = rel.asset["archive"]

\* From release job to installed file only one verified build arrives: no retry
\* publishes a mixture, and neither races nor a loss of power install one
\* (plan.go, Run, replaceWithStageOps).
VerifiedBuildOnly == TypeOK /\ PublishedIsOneBuild /\ InstalledIsVerified

\* An updater replaces the very file and bytes it found when it started: what
\* another updater or the user installed since then is never overwritten.
noLostUpdate ==
    \A u \in Updaters :
        at(u, "rename") /\ up'[u].pc = "dirsync" /\ ~raced /\ ~lockfile.torn
            => installedIdentity = up[u].original

\* The outcome tells whether the file was replaced: a failure or "already the
\* latest" left it alone, success or "uncertain" did replace it.
resultHonest ==
    \A u \in Updaters :
      /\ up[u].result \in {"failed", "checked", "unchanged"} => u \notin everAcs
      /\ ~raced /\ up[u].result \in {"updated", "uncertain"} => u \in everAcs

\* Success is durable: no loss of power takes back an update that was
\* reported.
successSurvives ==
    \A u \in Updaters : up[u].result = "updated" /\ acs.now = u /\ faults' > faults
        => acs'.now = u /\ file'[u].bytes = file[u].bytes

\* No step takes back what somebody relies on: a published release, a file that
\* was installed since the updater looked, or an update that was reported
\* (publish-release.sh, replaceWithStageOps).
NothingIsTakenBack == [][releasesOnlyGrow /\ noLostUpdate /\ successSurvives]_vars

\* A command that returns leaves no staged file of its own behind.
stageCleaned == \A u \in Updaters : at(u, "done") => stage[u] # u

\* A command that returns is right about what it did, and left nothing else:
\* failures before, in and after the rename included (replaceWithStageOps).
OutcomeHonest == resultHonest /\ stageCleaned

\* Without an explicit version an update never goes back to an older one
\* (update.go: "use an explicit version to downgrade").
NoSilentDowngrade ==
    [][\A u \in Updaters :
         at(u, "rename") /\ up'[u].pc = "dirsync" /\ up[u].pin = 0 /\ ~raced
           => file[acs'.now].bytes.ver >= file[acs.now].bytes.ver]_vars
=============================================================================
