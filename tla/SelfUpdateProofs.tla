-------------------------- MODULE SelfUpdateProofs --------------------------
(***************************************************************************)
(* Proofs about SelfUpdate for any number of updaters, versions, builds    *)
(* and attempts, and without a bound on failures.  The invariant says what *)
(* the release job knows about the release at each of its steps (JobInv),  *)
(* who may hold the lock of the directory (LockInv), what an updater may   *)
(* rely on at each of its steps (StepInv, LatestInv), and that whatever is *)
(* or may become the installed file is complete on the disk (DiskInv).     *)
(***************************************************************************)
EXTENDS SelfUpdate, TLAPS

\* The type of an updater's locals while g lock files have been created.
Pc == {"idle", "metadata", "identity", "manifest", "archive", "open", "lock", "done", "killed"}
          \cup holding
Locals(g) ==
    [pc : Pc, current : {0} \cup Versions, pin : {0} \cup Versions, check : BOOLEAN,
     target : {0} \cup Versions, original : [ino : Inodes, bytes : Bytes],
     sums : Builds \cup {no, "old"}, binary : Bytes, lock : 0 .. g, cancelled : BOOLEAN,
     result : {no, "failed", "checked", "unchanged", "uncertain", "updated"}]
Release == [state : {Absent, "draft", "published"},
            asset : [Assets -> Builds \cup {Absent, "starter"}]]
UpOK == up \in [Updaters -> Locals(lockfile.gen)]
LockOK ==
    /\ lockfile \in [named : Nat, gen : Nat, torn : BOOLEAN]
    /\ lockfile.named <= lockfile.gen
DiskOK ==
    /\ acs \in [now : Inodes, disk : Inodes]
    /\ stage \in [Updaters -> Inodes \cup {no}]
    /\ file \in [Inodes -> [bytes : Bytes, synced : BOOLEAN]]
    /\ everAcs \subseteq Inodes
CountOK == attempts \in Nat /\ meddles \in Nat /\ faults \in Nat /\ raced \in BOOLEAN

Job == [pc : {"idle", "plan", "create", "upload", "publish"}, build : Builds \cup {no},
        seen : Release, todo : SUBSET Assets]

\* The running attempt has seen the release as it is, or works on a draft that
\* holds nothing but assets of its own candidate.
JobInv ==
    /\ rel \in Release
    /\ job \in Job
    /\ job.pc # "idle" => job.build \in Builds
    /\ job.pc \in {"plan", "create", "publish"} => job.seen = rel
    /\ job.pc = "create" => rel.state = Absent
    /\ job.pc \in {"upload", "publish"} => rel.state = "draft"
    /\ job.pc = "publish" => \A a \in Assets : rel.asset[a] = job.build
    /\ rel.state = Absent => rel = NoRelease

\* One lock file has one holder, and while no lock file was removed under its
\* holder there is one holder only.
LockInv ==
    /\ \A u, v \in Updaters :
          up[u].pc \in holding /\ up[v].pc \in holding /\ up[u].lock = up[v].lock => u = v
    /\ \A u \in Updaters :
          /\ up[u].pc \in {"lock"} \cup holding => up[u].lock # 0
          /\ up[u].pc \in holding /\ ~lockfile.torn => up[u].lock = lockfile.named

\* Bytes an updater may install: of an earlier release or a validated set, or
\* those of the published release.
Good(b) ==
    \/ b.build = "old"
    \/ b.ver = Next_v /\ rel.state = "published" /\ b.build = rel.asset["archive"]

\* What an updater knows at each of its steps.
StepInv(u) ==
    LET me == up[u] IN
    /\ me.pc = "metadata" => me.binary = torn
    /\ me.pc = "identity" =>
          /\ me.target \in Versions
          /\ me.binary = torn \/ Good(me.binary)
          /\ me.binary = torn /\ me.target = Next_v => rel.state = "published"
    /\ me.pc \in {"manifest", "archive"} =>
          me.target \in Versions /\ (me.target = Next_v => rel.state = "published")
    /\ me.pc \in {"open", "lock"} \cup holding => Good(me.binary)
    /\ me.pc \in {"recheck", "rename"} => file[u].synced
    /\ me.pc = "rename" => file[u].bytes = me.binary
    /\ me.pc = "rename" /\ ~raced => stage[u] = u
    /\ me.pc = "rename" /\ ~raced /\ ~lockfile.torn => installedIdentity = me.original
    /\ me.pc = "dirsync" /\ ~raced => u \in everAcs
    /\ me.result # no => me.pc = "done"
    /\ me.pc = "done" => me.result # no

\* What the disk holds under the names of the directory, whoever wrote it.
DiskInv ==
    /\ acs.now \in everAcs /\ acs.disk \in everAcs
    /\ \A u \in Updaters :
          /\ stage[u] \in {u, foreign, no}
          /\ stage[u] = foreign => file[foreign].synced
          /\ u \in everAcs => /\ up[u].pc \in {"dirsync", "done", "killed"}
                              /\ file[u].synced
          /\ up[u].result = "updated" /\ acs.now = u => acs.disk = u
    /\ ~raced => \A i \in {acs.now, acs.disk} :
                    file[i].synced /\ (file[i].bytes = local \/ Good(file[i].bytes))

StepsInv == \A u \in Updaters : StepInv(u)

IndInv ==
    /\ UpOK /\ LockOK /\ DiskOK /\ CountOK
    /\ JobInv /\ LockInv /\ StepsInv /\ DiskInv
    /\ PublishedIsOneBuild /\ OutcomeHonest

Returned == {"failed", "checked", "unchanged", "uncertain", "updated"}

\* The version of any file is one that exists, or 0.
LEMMA VersionOf == ASSUME NEW b \in Bytes PROVE b.ver \in {0} \cup Versions
  BY DEF Bytes, torn, local

\* Replacing the locals of one updater.
LEMMA Replace ==
  ASSUME UpOK, NEW u \in Updaters, NEW r \in Locals(lockfile'.gen), lockfile' = lockfile,
         up' = [up EXCEPT ![u] = r]
  PROVE  UpOK' /\ up'[u] = r /\ \A v \in Updaters \ {u} : up'[v] = up[v]
  BY DEF UpOK

\* The locals are a record, so that each field may be replaced on its own.
LEMMA Fields ==
  ASSUME UpOK, NEW u \in Updaters
  PROVE  /\ up \in [Updaters -> Locals(lockfile.gen)]
         /\ up[u] \in Locals(lockfile.gen)
         /\ up[u].pc \in Pc /\ up[u].binary \in Bytes /\ up[u].target \in {0} \cup Versions
         /\ up[u].lock \in 0 .. lockfile.gen /\ up[u].cancelled \in BOOLEAN
  BY DEF UpOK, Locals

\* A step from one point of the program to the next.
LEMMA Moves ==
  ASSUME UpOK, NEW u \in Updaters, NEW x \in Pc, go(u, x), lockfile' = lockfile
  PROVE  /\ UpOK' /\ \A v \in Updaters \ {u} : up'[v] = up[v]
         /\ up'[u] = [up[u] EXCEPT !.pc = x]
         /\ up'[u].pc = x /\ up'[u].original = up[u].original /\ up'[u].binary = up[u].binary
         /\ up'[u].lock = up[u].lock /\ up'[u].result = up[u].result /\ up'[u].target = up[u].target
  <1>1. up' = [up EXCEPT ![u] = [up[u] EXCEPT !.pc = x]]
    BY Fields DEF go
  <1>2. [up[u] EXCEPT !.pc = x] \in Locals(lockfile.gen)
    BY Fields DEF Locals
  <1>3. UpOK' /\ up'[u] = [up[u] EXCEPT !.pc = x] /\ \A v \in Updaters \ {u} : up'[v] = up[v]
    BY <1>1, <1>2, Replace
  <1> QED
    BY <1>3, Fields DEF Locals

LEMMA Initial ==
  ASSUME NEW g \in Nat
  PROVE  /\ Idle \in Locals(g)
         /\ \A r \in Returned : [Idle EXCEPT !.pc = "done", !.result = r] \in Locals(g)
         /\ Dead \in Locals(g)
  <1>1. Nothing \in [ino : Inodes, bytes : Bytes] /\ torn \in Bytes
    BY DEF Nothing, Bytes, Inodes
  <1>2. Idle \in Locals(g)
    BY <1>1 DEF Idle, Locals, Pc
  <1> HIDE DEF Idle
  <1>3. \A r \in Returned : [Idle EXCEPT !.pc = "done", !.result = r] \in Locals(g)
    BY <1>2 DEF Locals, Pc, Returned
  <1>4. Dead \in Locals(g)
    BY <1>2 DEF Dead, Locals, Pc
  <1> QED
    BY <1>2, <1>3, <1>4

\* A return of Run.
LEMMA ReturnsWith ==
  ASSUME UpOK, LockOK, DiskOK, NEW u \in Updaters, NEW r \in Returned, returns(u, r),
         lockfile' = lockfile
  PROVE  /\ UpOK' /\ \A v \in Updaters \ {u} : up'[v] = up[v] /\ stage'[v] = stage[v]
         /\ up'[u].pc = "done" /\ up'[u].result = r
         /\ stage' \in [Updaters -> Inodes \cup {no}]
         /\ stage'[u] = IF stage[u] = u THEN no ELSE stage[u]
  <1>1. [Idle EXCEPT !.pc = "done", !.result = r] \in Locals(lockfile.gen)
    BY Initial DEF LockOK
  <1>2. UpOK' /\ up'[u] = [Idle EXCEPT !.pc = "done", !.result = r]
        /\ \A v \in Updaters \ {u} : up'[v] = up[v]
    BY <1>1, Replace DEF returns
  <1>3. up'[u].pc = "done" /\ up'[u].result = r
    BY <1>2 DEF Idle
  <1>4. /\ \A v \in Updaters \ {u} : stage'[v] = stage[v]
        /\ stage' \in [Updaters -> Inodes \cup {no}]
        /\ stage'[u] = IF stage[u] = u THEN no ELSE stage[u]
    BY DEF returns, unstage, DiskOK
  <1> QED
    BY <1>2, <1>3, <1>4

\* What an updater knows stays true while nothing it depends on changes.
LEMMA Others ==
  ASSUME IndInv, NEW v \in Updaters, up'[v] = up[v], stage'[v] = stage[v],
         UNCHANGED <<rel, lockfile, raced, acs>>, everAcs \subseteq everAcs',
         v \in everAcs' => v \in everAcs,
         file'[v] = file[v], file'[acs.now].bytes = file[acs.now].bytes
  PROVE  StepInv(v)'
  <1>1. StepInv(v)
    BY DEF IndInv, StepsInv
  <1> QED
    BY <1>1 DEF StepInv, Good, installedIdentity, holding

\* A step of an updater that changes nothing but its locals.
LEMMA LocalStep ==
  ASSUME IndInv, NEW u \in Updaters, \A v \in Updaters \ {u} : up'[v] = up[v],
         UNCHANGED <<server, lockfile, disk, raced, meddles>>, faults' \in Nat,
         UpOK', LockInv', StepInv(u)', up'[u].pc # "done",
         u \in everAcs => up'[u].pc \in {"dirsync", "killed"}
  PROVE  IndInv'
  <1>1. LockOK' /\ DiskOK' /\ CountOK'
    BY DEF IndInv, LockOK, DiskOK, CountOK, server, disk
  <1>2. JobInv' /\ PublishedIsOneBuild'
    BY DEF IndInv, JobInv, PublishedIsOneBuild, server
  <1>3. StepsInv'
    BY Others DEF StepsInv, server, disk
  <1>4. up'[u].result = no
    BY DEF StepInv
  <1>5. DiskInv'
    BY <1>4 DEF IndInv, DiskInv, Good, server, disk, no
  <1>6. OutcomeHonest'
    BY <1>4 DEF IndInv, OutcomeHonest, resultHonest, stageCleaned, at, disk, no
  <1> QED
    BY <1>1, <1>2, <1>3, <1>5, <1>6 DEF IndInv

\* A return that has not replaced the installed file.
LEMMA AbandonStep ==
  ASSUME IndInv, NEW u \in Updaters, NEW r \in {"failed", "checked", "unchanged"}, returns(u, r),
         up[u].pc # "dirsync", up[u].pc \notin {"idle", "done", "killed"},
         UNCHANGED <<server, lockfile, acs, everAcs, raced, meddles>>, faults' \in Nat,
         file' \in [Inodes -> [bytes : Bytes, synced : BOOLEAN]],
         \A i \in Inodes \ {u} : file'[i] = file[i]
  PROVE  IndInv'
  <1>1. /\ UpOK' /\ \A v \in Updaters \ {u} : up'[v] = up[v] /\ stage'[v] = stage[v]
        /\ up'[u].pc = "done" /\ up'[u].result = r
        /\ stage' \in [Updaters -> Inodes \cup {no}]
        /\ stage'[u] = IF stage[u] = u THEN no ELSE stage[u]
    BY ReturnsWith DEF IndInv, Returned
  <1>2. u \notin everAcs /\ acs.now # u /\ acs.disk # u
    BY DEF IndInv, DiskInv
  <1>3. LockOK' /\ DiskOK' /\ CountOK'
    BY <1>1 DEF IndInv, LockOK, DiskOK, CountOK, server
  <1>4. JobInv' /\ PublishedIsOneBuild'
    BY DEF IndInv, JobInv, PublishedIsOneBuild, server
  <1>5. LockInv'
    BY <1>1 DEF IndInv, LockInv, holding
  <1>6. StepInv(u)'
    BY <1>1 DEF StepInv, holding, no
  <1>7. /\ acs.now \in Inodes \ {u} /\ acs.disk \in Inodes \ {u} /\ foreign \in Inodes \ {u}
        /\ \A v \in Updaters \ {u} : v \in Inodes \ {u}
    BY <1>2, NamesAssumption DEF IndInv, DiskOK, Inodes
  <1>8. StepsInv'
    BY <1>1, <1>6, <1>7, Others DEF StepsInv, server
  <1>9. DiskInv'
    BY <1>1, <1>2, <1>7, NamesAssumption DEF IndInv, DiskInv, Good, server, foreign, no
  <1>10. OutcomeHonest'
    BY <1>1, <1>2, NamesAssumption DEF IndInv, OutcomeHonest, resultHonest, stageCleaned, at, no
  <1> QED
    BY <1>1, <1>3, <1>4, <1>5, <1>8, <1>9, <1>10 DEF IndInv

LEMMA RefuseStep ==
  ASSUME IndInv, NEW u \in Updaters, NEW r \in {"failed", "checked", "unchanged"}, returns(u, r),
         up[u].pc # "dirsync", up[u].pc \notin {"idle", "done", "killed"},
         UNCHANGED <<server, lockfile, acs, file, everAcs, raced, meddles>>, faults' \in Nat
  PROVE  IndInv'
  BY AbandonStep DEF IndInv, DiskOK

\* The command line.
LEMMA StartHolds ==
  ASSUME IndInv, NEW u \in Updaters, NEW pin \in Pins, NEW check \in BOOLEAN, Start(u, pin, check)
  PROVE  IndInv'
  <1> DEFINE r == [Idle EXCEPT !.pc = "metadata", !.current = file[acs.now].bytes.ver,
                               !.pin = pin, !.check = check]
  <1>1. file[acs.now].bytes.ver \in {0} \cup Versions
    BY VersionOf DEF IndInv, DiskOK
  <1>2. r \in Locals(lockfile.gen) /\ r.pc = "metadata" /\ r.result = no
        /\ r.binary = torn
    <2>1. Idle \in Locals(lockfile.gen) /\ Idle.result = no /\ Idle.binary = torn
      BY Initial DEF IndInv, LockOK, Idle
    <2>2. "metadata" \in Pc /\ pin \in {0} \cup Versions
      BY VersionsAssumption DEF Pc, Versions
    <2>3. /\ r.pc = "metadata" /\ r.current = file[acs.now].bytes.ver /\ r.pin = pin /\ r.check = check
          /\ r.result = no /\ r.binary = torn
      BY <2>1 DEF Idle
    <2>4. r \in Locals(lockfile.gen)
      BY <1>1, <2>1, <2>2 DEF Locals
    <2> QED
      BY <2>3, <2>4
  <1>3. UpOK' /\ up'[u] = r /\ \A v \in Updaters \ {u} : up'[v] = up[v]
    BY <1>2, Replace DEF IndInv, Start
  <1> HIDE DEF r
  <1>4. up'[u].pc = "metadata" /\ up'[u].result = no /\ up'[u].binary = torn
    BY <1>2, <1>3
  <1>5. StepInv(u)'
    BY <1>4 DEF StepInv, holding
  <1>6. LockInv'
    BY <1>3, <1>4 DEF IndInv, LockInv, holding, Start
  <1>7. u \notin everAcs
    BY DEF IndInv, DiskInv, Start, at
  <1> QED
    BY <1>3, <1>4, <1>5, <1>6, <1>7, LocalStep DEF Start, IndInv, CountOK

LEMMA StartCandidateHolds ==
  ASSUME IndInv, NEW u \in Updaters, NEW v \in Candidates, StartCandidate(u, v)
  PROVE  IndInv'
  <1> DEFINE r == [Idle EXCEPT !.pc = "identity", !.pin = v, !.target = v, !.binary = validated(v)]
  <1>1. v \in Versions /\ validated(v) \in Bytes /\ validated(v).build = "old" /\ validated(v) # torn
    BY VersionsAssumption DEF validated, Bytes, Versions, torn
  <1>2. r \in Locals(lockfile.gen) /\ r.pc = "identity" /\ r.result = no /\ r.target = v
        /\ r.binary = validated(v)
    <2>1. Idle \in Locals(lockfile.gen) /\ Idle.result = no
      BY Initial DEF IndInv, LockOK, Idle
    <2> QED
      BY <1>1, <2>1 DEF Locals, Pc
  <1>3. UpOK' /\ up'[u] = r /\ \A w \in Updaters \ {u} : up'[w] = up[w]
    BY <1>2, Replace DEF IndInv, StartCandidate
  <1> HIDE DEF r
  <1>4. up'[u].pc = "identity" /\ up'[u].result = no /\ up'[u].target = v
        /\ up'[u].binary = validated(v)
    BY <1>2, <1>3
  <1>5. StepInv(u)'
    BY <1>1, <1>4 DEF StepInv, Good, holding
  <1>6. LockInv'
    BY <1>3, <1>4 DEF IndInv, LockInv, holding, StartCandidate
  <1>7. u \notin everAcs
    BY DEF IndInv, DiskInv, StartCandidate, at
  <1> QED
    BY <1>3, <1>4, <1>5, <1>6, <1>7, LocalStep DEF StartCandidate, IndInv, CountOK

LEMMA MetadataHolds ==
  ASSUME IndInv, NEW u \in Updaters, Metadata(u)
  PROVE  IndInv'
  <1> DEFINE target == IF up[u].pin = 0 THEN Max(Published) ELSE up[u].pin
  <1>1. CASE \E r \in {"failed", "unchanged", "checked"} :
                returns(u, r) /\ UNCHANGED <<acs, file, everAcs, lockfile>>
    BY <1>1, RefuseStep DEF Metadata, step, at, IndInv, CountOK
  <1>2. CASE target \in Published
             /\ up' = [up EXCEPT ![u].pc = "identity", ![u].target = target, ![u].current = 0]
             /\ UNCHANGED <<lockfile, disk>>
    <2> DEFINE r == [up[u] EXCEPT !.pc = "identity", !.target = target, !.current = 0]
    <2> HIDE DEF target
    <2>1. target \in Versions /\ (target = Next_v => rel.state = "published")
      BY <1>2, VersionsAssumption DEF Published, Versions
    <2>2. up' = [up EXCEPT ![u] = r]
      BY <1>2, Fields DEF IndInv
    <2>3. r \in Locals(lockfile.gen) /\ r.pc = "identity" /\ r.target = target
          /\ r.binary = up[u].binary /\ r.result = up[u].result
      <3>1. up[u] \in Locals(lockfile.gen)
        BY Fields DEF IndInv
      <3> QED
        BY <2>1, <3>1 DEF Locals, Pc
    <2>4. UpOK' /\ up'[u] = r /\ \A w \in Updaters \ {u} : up'[w] = up[w]
      BY <1>2, <2>2, <2>3, Replace DEF IndInv
    <2> HIDE DEF r
    <2>5. StepInv(u) /\ up[u].pc = "metadata"
      BY DEF IndInv, StepsInv, Metadata, step, at
    <2>6. StepInv(u)'
      BY <1>2, <2>1, <2>3, <2>4, <2>5 DEF StepInv, holding, Metadata, step, server
    <2>7. LockInv'
      <3>1. up'[u].pc \notin {"lock"} \cup holding /\ lockfile' = lockfile
        BY <1>2, <2>3, <2>4 DEF holding
      <3> QED
        BY <2>4, <3>1 DEF IndInv, LockInv
    <2>8. u \notin everAcs
      BY <2>5 DEF IndInv, DiskInv
    <2> QED
      BY <1>2, <2>3, <2>4, <2>6, <2>7, <2>8, LocalStep DEF Metadata, step, IndInv, CountOK
  <1> QED
    BY <1>1, <1>2 DEF Metadata, refuses

LEMMA IdentityHolds ==
  ASSUME IndInv, NEW u \in Updaters, Identity(u)
  PROVE  IndInv'
  <1> DEFINE pc == IF up[u].binary = torn THEN "manifest" ELSE "open"
             r == [up[u] EXCEPT !.original = installedIdentity, !.pc = pc]
  <1>1. installedIdentity \in [ino : Inodes, bytes : Bytes]
    BY DEF IndInv, DiskOK, installedIdentity
  <1>2. up' = [up EXCEPT ![u] = r]
    BY Fields DEF Identity, IndInv
  <1>3. r \in Locals(lockfile.gen) /\ r.pc = pc /\ r.target = up[u].target
        /\ r.binary = up[u].binary /\ r.result = up[u].result
    <2>1. up[u] \in Locals(lockfile.gen)
      BY Fields DEF IndInv
    <2>2. pc \in Pc
      BY DEF Pc
    <2> HIDE DEF pc
    <2> QED
      BY <1>1, <2>1, <2>2 DEF Locals
  <1>4. UpOK' /\ up'[u] = r /\ \A w \in Updaters \ {u} : up'[w] = up[w]
    <2>1. UpOK /\ lockfile' = lockfile
      BY DEF IndInv, Identity
    <2> HIDE DEF r
    <2> QED
      BY <1>2, <1>3, <2>1, Replace
  <1> HIDE DEF r
  <1>5. StepInv(u) /\ up[u].pc = "identity"
    BY DEF IndInv, StepsInv, Identity, step, at
  <1>6. StepInv(u)'
    BY <1>3, <1>4, <1>5 DEF StepInv, Good, holding, Identity, step, server
  <1>7. LockInv'
    <2>1. up'[u].pc \notin {"lock"} \cup holding /\ lockfile' = lockfile
      BY <1>3, <1>4 DEF holding, Identity
    <2> QED
      BY <1>4, <2>1 DEF IndInv, LockInv
  <1>8. u \notin everAcs
    BY <1>5 DEF IndInv, DiskInv
  <1>9. up'[u].pc # "done"
    BY <1>3, <1>4
  <1> QED
    BY <1>4, <1>6, <1>7, <1>8, <1>9, LocalStep DEF Identity, step, IndInv, CountOK

LEMMA ManifestHolds ==
  ASSUME IndInv, NEW u \in Updaters, Manifest(u)
  PROVE  IndInv'
  <1>1. CASE up[u].cancelled
    BY <1>1, RefuseStep DEF Manifest, refuses, step, at, IndInv, CountOK
  <1>2. CASE ~up[u].cancelled /\ download(up[u].target, "SHA256SUMS") \in Builds \cup {"old"}
    <2> DEFINE r == [up[u] EXCEPT !.pc = "archive", !.sums = download(up[u].target, "SHA256SUMS")]
    <2>1. up' = [up EXCEPT ![u] = r]
      BY <1>2, Fields DEF Manifest, IndInv
    <2>2. r \in Locals(lockfile.gen) /\ r.pc = "archive" /\ r.target = up[u].target
          /\ r.result = up[u].result
      <3>1. up[u] \in Locals(lockfile.gen)
        BY Fields DEF IndInv
      <3> QED
        BY <1>2, <3>1 DEF Locals, Pc
    <2>3. UpOK' /\ up'[u] = r /\ \A w \in Updaters \ {u} : up'[w] = up[w]
      BY <1>2, <2>1, <2>2, Replace DEF IndInv, Manifest
    <2> HIDE DEF r
    <2>4. StepInv(u) /\ up[u].pc = "manifest"
      BY DEF IndInv, StepsInv, Manifest, step, at
    <2>5. StepInv(u)'
      BY <2>2, <2>3, <2>4 DEF StepInv, holding, Manifest, step, server
    <2>6. LockInv'
      BY <1>2, <2>2, <2>3 DEF IndInv, LockInv, holding, Manifest
    <2>7. u \notin everAcs
      BY <2>4 DEF IndInv, DiskInv
    <2> QED
      BY <1>2, <2>2, <2>3, <2>5, <2>6, <2>7, LocalStep DEF Manifest, step, IndInv, CountOK
  <1>3. download(up[u].target, "SHA256SUMS") \in Builds \cup {"old"}
    <2>1. StepInv(u) /\ up[u].pc = "manifest"
      BY DEF IndInv, StepsInv, Manifest, step, at
    <2>2. up[u].target = Next_v => rel.state = "published"
      BY <2>1 DEF StepInv
    <2> QED
      BY <2>2 DEF download, IndInv, PublishedIsOneBuild, Assets
  <1> QED
    BY <1>1, <1>2, <1>3

LEMMA ArchiveHolds ==
  ASSUME IndInv, NEW u \in Updaters, Archive(u)
  PROVE  IndInv'
  <1> DEFINE build == download(up[u].target, "archive")
  <1>1. CASE up[u].cancelled \/ build # up[u].sums
    BY <1>1, RefuseStep DEF Archive, refuses, step, at, IndInv, CountOK
  <1>2. CASE ~(up[u].cancelled \/ build # up[u].sums)
    <2> DEFINE r == [up[u] EXCEPT !.pc = "open", !.sums = no,
                                  !.binary = extract(up[u].target, build)]
    <2>1. StepInv(u) /\ up[u].pc = "archive"
      BY DEF IndInv, StepsInv, Archive, step, at
    <2>2. up[u].target \in Versions /\ (up[u].target = Next_v => rel.state = "published")
      BY <2>1 DEF StepInv
    <2>3. build \in Builds \cup {"old"}
      BY <2>2 DEF download, IndInv, PublishedIsOneBuild, Assets
    <2>4. /\ extract(up[u].target, build) \in Bytes
          /\ Good(extract(up[u].target, build))
      BY <2>2, <2>3 DEF extract, Bytes, Good, download
    <2>5. up' = [up EXCEPT ![u] = r]
      BY <1>2, Fields DEF Archive, IndInv
    <2>6. r \in Locals(lockfile.gen) /\ r.pc = "open" /\ r.result = up[u].result
          /\ r.binary = extract(up[u].target, build)
      <3>1. up[u] \in Locals(lockfile.gen)
        BY Fields DEF IndInv
      <3> QED
        BY <2>4, <3>1 DEF Locals, Pc
    <2>7. UpOK' /\ up'[u] = r /\ \A w \in Updaters \ {u} : up'[w] = up[w]
      BY <1>2, <2>5, <2>6, Replace DEF IndInv, Archive
    <2> HIDE DEF r
    <2>8. StepInv(u)'
      BY <2>1, <2>4, <2>6, <2>7 DEF StepInv, Good, holding, Archive, step, server
    <2>9. LockInv'
      BY <1>2, <2>6, <2>7 DEF IndInv, LockInv, holding, Archive
    <2>10. u \notin everAcs
      BY <2>1 DEF IndInv, DiskInv
    <2> QED
      BY <1>2, <2>6, <2>7, <2>8, <2>9, <2>10, LocalStep DEF Archive, step, IndInv, CountOK
  <1> QED
    BY <1>1, <1>2

LEMMA LockHolds ==
  ASSUME IndInv, NEW u \in Updaters, Lock(u) \/ LockCancelled(u)
  PROVE  IndInv'
  <1>1. CASE refuses(u)
    BY <1>1, RefuseStep DEF Lock, LockCancelled, refuses, step, at, IndInv, CountOK
  <1>2. CASE Lock(u) /\ lockfile.named = up[u].lock /\ go(u, "stage") /\ UNCHANGED <<lockfile, disk>>
    <2>1. /\ UpOK' /\ \A v \in Updaters \ {u} : up'[v] = up[v]
          /\ up'[u].pc = "stage" /\ up'[u].lock = up[u].lock /\ up'[u].result = up[u].result
          /\ up'[u].binary = up[u].binary
      BY <1>2, Moves DEF IndInv, Pc, holding
    <2>2. StepInv(u) /\ up[u].pc = "lock"
      BY <1>2 DEF IndInv, StepsInv, Lock, step, at
    <2>3. StepInv(u)'
      BY <1>2, <2>1, <2>2 DEF StepInv, Good, holding, Lock, step, server
    <2>4. LockInv'
      BY <1>2, <2>1, <2>2 DEF IndInv, LockInv, Lock, holders, holding
    <2>5. u \notin everAcs
      BY <2>2 DEF IndInv, DiskInv
    <2> QED
      BY <1>2, <2>1, <2>3, <2>4, <2>5, LocalStep DEF Lock, step, IndInv, CountOK
  <1> QED
    BY <1>1, <1>2 DEF Lock, LockCancelled

LEMMA RecheckHolds ==
  ASSUME IndInv, NEW u \in Updaters, Recheck(u)
  PROVE  IndInv'
  <1>1. CASE refuses(u)
    BY <1>1, RefuseStep DEF Recheck, refuses, step, at, IndInv, CountOK
  <1>2. CASE /\ installedIdentity = up[u].original /\ stage[u] = u /\ file[u].bytes = up[u].binary
             /\ go(u, "rename") /\ UNCHANGED <<lockfile, disk>>
    <2>1. /\ UpOK' /\ \A v \in Updaters \ {u} : up'[v] = up[v]
          /\ up'[u].pc = "rename" /\ up'[u].lock = up[u].lock /\ up'[u].result = up[u].result
          /\ up'[u].binary = up[u].binary /\ up'[u].original = up[u].original
      BY <1>2, Moves DEF IndInv, Pc, holding
    <2>2. StepInv(u) /\ up[u].pc = "recheck"
      BY DEF IndInv, StepsInv, Recheck, step, at
    <2>3. StepInv(u)'
      BY <1>2, <2>1, <2>2 DEF StepInv, Good, installedIdentity, holding, Recheck, step, server, disk
    <2>4. LockInv'
      BY <1>2, <2>1, <2>2 DEF IndInv, LockInv, holding
    <2>5. u \notin everAcs
      BY <2>2 DEF IndInv, DiskInv
    <2> QED
      BY <1>2, <2>1, <2>3, <2>4, <2>5, LocalStep DEF Recheck, step, IndInv, CountOK
  <1> QED
    BY <1>1, <1>2 DEF Recheck

LEMMA CancelHolds ==
  ASSUME IndInv, NEW u \in Updaters, Cancel(u)
  PROVE  IndInv'
  <1> DEFINE r == [up[u] EXCEPT !.cancelled = TRUE]
  <1>1. up' = [up EXCEPT ![u] = r]
    BY Fields DEF Cancel, IndInv
  <1>2. r \in Locals(lockfile.gen) /\ r.pc = up[u].pc /\ r.target = up[u].target
        /\ r.binary = up[u].binary /\ r.result = up[u].result /\ r.lock = up[u].lock
        /\ r.original = up[u].original
    BY Fields DEF IndInv, Locals
  <1>3. UpOK' /\ up'[u] = r /\ \A w \in Updaters \ {u} : up'[w] = up[w]
    BY <1>1, <1>2, Replace DEF IndInv, Cancel
  <1> HIDE DEF r
  <1>4. StepInv(u)
    BY DEF IndInv, StepsInv
  <1>5. StepInv(u)'
    BY <1>2, <1>3, <1>4 DEF StepInv, Good, installedIdentity, holding, Cancel, server, disk
  <1>6. LockInv'
    BY <1>2, <1>3 DEF IndInv, LockInv, holding, Cancel
  <1>7. up'[u].pc # "done" /\ (u \in everAcs => up'[u].pc \in {"dirsync", "killed"})
    BY <1>2, <1>3 DEF Cancel, IndInv, DiskInv
  <1> QED
    BY <1>2, <1>3, <1>5, <1>6, <1>7, LocalStep DEF Cancel, IndInv, CountOK

LEMMA KilledHolds ==
  ASSUME IndInv, NEW u \in Updaters, Killed(u)
  PROVE  IndInv'
  <1>1. Dead \in Locals(lockfile.gen) /\ Dead.pc = "killed" /\ Dead.result = no
    BY Initial DEF IndInv, LockOK, Dead, Idle
  <1>2. UpOK' /\ up'[u] = Dead /\ \A w \in Updaters \ {u} : up'[w] = up[w]
    BY <1>1, Replace DEF IndInv, Killed
  <1>3. up'[u].pc = "killed" /\ up'[u].result = no
    BY <1>1, <1>2
  <1>4. StepInv(u)'
    BY <1>3 DEF StepInv, holding
  <1>5. LockInv'
    BY <1>2, <1>3 DEF IndInv, LockInv, holding, Killed
  <1> QED
    BY <1>2, <1>3, <1>4, <1>5, LocalStep DEF Killed, Fault, IndInv, CountOK

\* A failure before the rename leaves the installed file alone; one after it says
\* that the update may have happened.
LEMMA StepFailsHolds ==
  ASSUME IndInv, NEW u \in Updaters, StepFails(u)
  PROVE  IndInv'
  <1>1. CASE ~at(u, "dirsync")
    BY <1>1, RefuseStep DEF StepFails, Fault, at, holding, IndInv, CountOK
  <1>2. CASE at(u, "dirsync")
    <2>1. StepInv(u) /\ up[u].pc = "dirsync"
      BY <1>2 DEF IndInv, StepsInv, at
    <2>2. /\ UpOK' /\ \A v \in Updaters \ {u} : up'[v] = up[v] /\ stage'[v] = stage[v]
          /\ up'[u].pc = "done" /\ up'[u].result = "uncertain"
          /\ stage' \in [Updaters -> Inodes \cup {no}]
          /\ stage'[u] = IF stage[u] = u THEN no ELSE stage[u]
      BY <1>2, ReturnsWith DEF IndInv, Returned, StepFails
    <2>3. LockOK' /\ DiskOK' /\ CountOK' /\ JobInv' /\ PublishedIsOneBuild'
      BY <2>2 DEF IndInv, LockOK, DiskOK, CountOK, JobInv, PublishedIsOneBuild, server, StepFails, Fault
    <2>4. LockInv'
      BY <2>2 DEF IndInv, LockInv, holding, StepFails
    <2>5. StepInv(u)'
      BY <2>2 DEF StepInv, holding, no
    <2>6. StepsInv'
      BY <2>2, <2>5, Others DEF StepsInv, server, StepFails
    <2>7. DiskInv'
      BY <2>2, NamesAssumption DEF IndInv, DiskInv, Good, server, foreign, no, StepFails
    <2>8. OutcomeHonest'
      BY <2>1, <2>2, NamesAssumption
         DEF IndInv, OutcomeHonest, resultHonest, stageCleaned, StepInv, at, no, StepFails
    <2> QED
      BY <2>2, <2>3, <2>4, <2>6, <2>7, <2>8 DEF IndInv
  <1> QED
    BY <1>1, <1>2

LEMMA OpenLockHolds ==
  ASSUME IndInv, NEW u \in Updaters, OpenLock(u)
  PROVE  IndInv'
  <1> DEFINE g == lockfile'.named
             r == [up[u] EXCEPT !.pc = "lock", !.lock = g]
  <1>1. StepInv(u) /\ up[u].pc = "open"
    BY DEF IndInv, StepsInv, OpenLock, step, at
  <1>2. /\ lockfile' \in [named : Nat, gen : Nat, torn : BOOLEAN]
        /\ lockfile'.torn = lockfile.torn /\ lockfile.gen <= lockfile'.gen
        /\ g <= lockfile'.gen /\ g # 0
        /\ IF lockfile.named = 0 THEN TRUE ELSE g = lockfile.named
    <2>1. CASE lockfile.named = 0
      <3>1. lockfile' = [lockfile EXCEPT !.named = lockfile.gen + 1, !.gen = @ + 1]
        BY <2>1 DEF OpenLock
      <3>2. lockfile' = [named |-> lockfile.gen + 1, gen |-> lockfile.gen + 1,
                         torn |-> lockfile.torn]
        BY <3>1 DEF IndInv, LockOK
      <3>3. lockfile.gen \in Nat /\ lockfile.torn \in BOOLEAN
        BY DEF IndInv, LockOK
      <3> QED
        BY <2>1, <3>2, <3>3
    <2>2. CASE lockfile.named # 0
      <3>1. lockfile' = lockfile
        BY <2>2 DEF OpenLock, IndInv, LockOK
      <3> QED
        BY <2>2, <3>1 DEF IndInv, LockOK
    <2> QED
      BY <2>1, <2>2
  <1>3. \A x \in Locals(lockfile.gen) : x \in Locals(lockfile'.gen)
    <2>1. 0 .. lockfile.gen \subseteq 0 .. lockfile'.gen
      BY <1>2 DEF IndInv, LockOK
    <2> QED
      BY <2>1 DEF Locals
  <1>4. r \in Locals(lockfile'.gen) /\ r.pc = "lock" /\ r.lock = g
        /\ r.binary = up[u].binary /\ r.result = up[u].result
    <2>1. up[u] \in Locals(lockfile'.gen) /\ g \in 0 .. lockfile'.gen
      BY <1>2, <1>3, Fields DEF IndInv
    <2> QED
      BY <2>1 DEF Locals, Pc
  <1>5. UpOK' /\ up'[u] = r /\ \A w \in Updaters \ {u} : up'[w] = up[w]
    <2>1. up' = [up EXCEPT ![u] = r]
      <3>1. up' = [up EXCEPT ![u].pc = "lock", ![u].lock = g]
        BY DEF OpenLock
      <3> HIDE DEF g
      <3> QED
        BY <3>1, Fields DEF IndInv
    <2> QED
      BY <1>3, <1>4, <2>1 DEF IndInv, UpOK
  <1>6. up'[u].pc = "lock" /\ up'[u].lock = g /\ up'[u].binary = up[u].binary
        /\ up'[u].result = up[u].result
    BY <1>4, <1>5
  <1> HIDE DEF r
  <1>7. LockOK' /\ DiskOK' /\ CountOK' /\ JobInv' /\ PublishedIsOneBuild'
    BY <1>2 DEF IndInv, LockOK, DiskOK, CountOK, JobInv, PublishedIsOneBuild, server, disk,
                OpenLock, step
  <1>8. LockInv'
    <2>1. \A v \in Updaters : up[v].pc \in holding /\ ~lockfile.torn => g = lockfile.named
      BY <1>2 DEF IndInv, LockInv
    <2> QED
      BY <1>2, <1>5, <1>6, <2>1 DEF IndInv, LockInv, holding
  <1>9. StepsInv'
    <2>1. ASSUME NEW v \in Updaters
          PROVE  StepInv(v)'
      <3>1. StepInv(v)
        BY DEF IndInv, StepsInv
      <3>2. CASE v = u
        BY <1>1, <1>6, <3>2 DEF StepInv, Good, holding, OpenLock, step, server
      <3>3. CASE v # u
        <4>1. up'[v] = up[v] /\ lockfile'.torn = lockfile.torn
          BY <1>2, <1>5, <3>3
        <4>2. UNCHANGED <<file, rel, raced, stage, acs, everAcs>>
          BY DEF OpenLock, step, server, disk
        <4> HIDE DEF g
        <4> QED
          BY <3>1, <4>1, <4>2 DEF StepInv, Good, installedIdentity
      <3> QED
        BY <3>2, <3>3
    <2> QED
      BY <2>1 DEF StepsInv
  <1>10. DiskInv' /\ OutcomeHonest'
    <2>1. up'[u].result = no
      BY <1>1, <1>6 DEF StepInv
    <2>2. UNCHANGED <<server, disk, raced>>
      BY DEF OpenLock, step
    <2>3. DiskInv'
      BY <1>1, <1>5, <1>6, <2>1, <2>2 DEF IndInv, DiskInv, Good, no, server, disk
    <2>4. OutcomeHonest'
      BY <1>5, <1>6, <2>1, <2>2 DEF IndInv, OutcomeHonest, resultHonest, stageCleaned, at, no, disk
    <2> QED
      BY <2>3, <2>4
  <1> QED
    BY <1>5, <1>7, <1>8, <1>9, <1>10 DEF IndInv

\* A step of the lock holder up to the rename: it may write its staged file, and
\* changes nothing under the name acs.
LEMMA StagingStep ==
  ASSUME IndInv, NEW u \in Updaters, NEW x \in {"write", "sync", "recheck"}, go(u, x),
         up[u].pc \in {"stage", "write", "sync"},
         UNCHANGED <<server, lockfile, acs, everAcs, raced, meddles, faults>>,
         DiskOK', \A i \in Inodes \ {u} : file'[i] = file[i],
         \A v \in Updaters \ {u} : stage'[v] = stage[v], stage'[u] \in {stage[u], u},
         x = "recheck" => file'[u].synced
  PROVE  IndInv'
  <1>1. /\ UpOK' /\ \A v \in Updaters \ {u} : up'[v] = up[v]
        /\ up'[u].pc = x /\ up'[u].lock = up[u].lock /\ up'[u].result = up[u].result
        /\ up'[u].binary = up[u].binary
    BY Moves DEF IndInv, Pc, holding
  <1>2. StepInv(u) /\ u \notin everAcs /\ acs.now # u /\ acs.disk # u
    BY DEF IndInv, StepsInv, DiskInv
  <1>3. LockOK' /\ CountOK' /\ JobInv' /\ PublishedIsOneBuild'
    BY DEF IndInv, LockOK, CountOK, JobInv, PublishedIsOneBuild, server
  <1>4. LockInv'
    BY <1>1 DEF IndInv, LockInv, holding
  <1>5. acs.now \in Inodes \ {u} /\ acs.disk \in Inodes \ {u} /\ foreign \in Inodes \ {u}
    BY <1>2, NamesAssumption DEF IndInv, DiskOK, Inodes
  <1>6. StepInv(u)'
    BY <1>1, <1>2 DEF StepInv, Good, holding, server
  <1>7. StepsInv'
    <2>1. \A v \in Updaters \ {u} : v \in Inodes \ {u}
      BY DEF Inodes
    <2> QED
      BY <1>1, <1>5, <1>6, <2>1, Others DEF StepsInv, server
  <1>8. up'[u].result = no
    BY <1>1, <1>2 DEF StepInv
  <1>9. DiskInv'
    <2>1. \A v \in Updaters \ {u} : v \in Inodes \ {u}
      BY DEF Inodes
    <2> QED
      BY <1>1, <1>2, <1>5, <1>8, <2>1, NamesAssumption DEF IndInv, DiskInv, Good, server, no, foreign
  <1>10. OutcomeHonest'
    BY <1>1, <1>8 DEF IndInv, OutcomeHonest, resultHonest, stageCleaned, at, no
  <1> QED
    BY <1>1, <1>3, <1>4, <1>7, <1>9, <1>10 DEF IndInv

LEMMA StageHolds ==
  ASSUME IndInv, NEW u \in Updaters, Stage(u)
  PROVE  IndInv'
  <1>1. CASE refuses(u)
    BY <1>1, RefuseStep DEF Stage, refuses, step, at, IndInv, CountOK
  <1>2. CASE /\ go(u, "write") /\ stage' = [stage EXCEPT ![u] = u]
             /\ UNCHANGED <<lockfile, acs, file, everAcs>>
    <2>1. DiskOK' /\ stage'[u] = u /\ \A v \in Updaters \ {u} : stage'[v] = stage[v]
      BY <1>2 DEF IndInv, DiskOK, Inodes
    <2> QED
      BY <1>2, <2>1, StagingStep DEF Stage, step, at
  <1> QED
    BY <1>1, <1>2 DEF Stage

LEMMA WriteHolds ==
  ASSUME IndInv, NEW u \in Updaters, Write(u)
  PROVE  IndInv'
  <1>1. up[u].binary \in Bytes
    BY Fields DEF IndInv
  <1>2. DiskOK' /\ \A i \in Inodes \ {u} : file'[i] = file[i]
    BY <1>1 DEF IndInv, DiskOK, Inodes, Write
  <1> QED
    BY <1>2, StagingStep DEF Write, step, at

LEMMA SyncHolds ==
  ASSUME IndInv, NEW u \in Updaters, Sync(u)
  PROVE  IndInv'
  <1>1. DiskOK' /\ file'[u].synced /\ \A i \in Inodes \ {u} : file'[i] = file[i]
    <2>1. /\ file' \in [Inodes -> [bytes : Bytes, synced : BOOLEAN]] /\ file'[u].synced
          /\ \A i \in Inodes \ {u} : file'[i] = file[i]
      BY DEF IndInv, DiskOK, Inodes, Sync
    <2>2. stage' \in [Updaters -> Inodes \cup {no}]
      BY DEF IndInv, DiskOK, Sync, returns, unstage
    <2> QED
      BY <2>1, <2>2 DEF IndInv, DiskOK, Sync
  <1>2. CASE ~up[u].cancelled
    BY <1>1, <1>2, StagingStep DEF Sync, step, at
  <1>3. CASE up[u].cancelled
    BY <1>1, <1>3, AbandonStep DEF Sync, step, at, IndInv, CountOK, DiskOK
  <1> QED
    BY <1>2, <1>3

\* Only an updater that holds the lock renames, and unless the user interferes what
\* it renames is the file it has written and synced.
LEMMA RenameHolds ==
  ASSUME IndInv, NEW u \in Updaters, Rename(u)
  PROVE  IndInv'
  <1>1. StepInv(u) /\ up[u].pc = "rename" /\ up[u].result = no
    BY DEF IndInv, StepsInv, StepInv, Rename, step, at
  <1>2. /\ UpOK' /\ \A v \in Updaters \ {u} : up'[v] = up[v]
        /\ up'[u].pc = "dirsync" /\ up'[u].lock = up[u].lock /\ up'[u].result = no
        /\ up'[u].binary = up[u].binary
    BY <1>1, Moves DEF IndInv, Pc, holding, Rename
  <1>3. stage[u] \in {u, foreign} /\ stage[u] \in Inodes
    BY DEF IndInv, DiskInv, Rename, Inodes
  <1>4. /\ acs' = [now |-> stage[u], disk |-> acs.disk]
        /\ everAcs' = everAcs \cup {stage[u]} /\ file' = file
        /\ stage' \in [Updaters -> Inodes \cup {no}] /\ stage'[u] = no
        /\ \A v \in Updaters \ {u} : stage'[v] = stage[v]
    BY DEF IndInv, DiskOK, Rename
  <1>5. LockOK' /\ DiskOK' /\ CountOK' /\ JobInv' /\ PublishedIsOneBuild'
    BY <1>3, <1>4 DEF IndInv, LockOK, DiskOK, CountOK, JobInv, PublishedIsOneBuild, server,
                      Rename, step
  <1>6. LockInv'
    BY <1>1, <1>2 DEF IndInv, LockInv, holding, Rename
  <1>7. UNCHANGED <<rel, lockfile, raced>>
    BY DEF Rename, step, server
  <1>8. StepInv(u)'
    BY <1>1, <1>2, <1>3, <1>4, <1>7 DEF StepInv, Good, holding
  <1>9. ASSUME NEW v \in Updaters, v # u
        PROVE  StepInv(v)'
    <2>1. StepInv(v) /\ up'[v] = up[v] /\ stage'[v] = stage[v]
      BY <1>2, <1>4, <1>9 DEF IndInv, StepsInv
    <2>2. up[v].pc = "rename" => lockfile.torn
      BY <1>1, <1>9 DEF IndInv, LockInv, holding
    <2> QED
      BY <1>4, <1>7, <2>1, <2>2 DEF StepInv, Good, holding
  <1>10. DiskInv'
    <2>1. \A v \in Updaters \ {u} : v \in everAcs' => v \in everAcs
      BY <1>3, <1>4, NamesAssumption
    <2>2. acs'.now # u => acs'.now = foreign
      BY <1>3, <1>4
    <2>3. file[stage[u]].synced
      BY <1>1, <1>3 DEF IndInv, DiskInv, StepInv
    <2>4. ~raced => stage[u] = u /\ Good(file[u].bytes)
      BY <1>1 DEF StepInv, holding
    <2>5. \A v \in Updaters :
             /\ stage'[v] \in {v, foreign, no}
             /\ stage'[v] = foreign => file'[foreign].synced
             /\ v \in everAcs' => /\ up'[v].pc \in {"dirsync", "done", "killed"}
                                  /\ file'[v].synced
             /\ up'[v].result = "updated" /\ acs'.now = v => acs'.disk = v
      BY <1>1, <1>2, <1>3, <1>4, <2>1, <2>2, NamesAssumption DEF IndInv, DiskInv, StepInv, no, foreign
    <2>6. (~raced => \A i \in {acs.now, acs.disk} :
                        file[i].synced /\ (file[i].bytes = local \/ Good(file[i].bytes)))'
      BY <1>4, <1>7, <2>3, <2>4 DEF IndInv, DiskInv, Good
    <2> QED
      BY <1>4, <2>5, <2>6 DEF DiskInv, IndInv
  <1>11. OutcomeHonest'
    BY <1>1, <1>2, <1>3, <1>4, <1>7, NamesAssumption
       DEF IndInv, OutcomeHonest, resultHonest, stageCleaned, at, no, foreign
  <1> QED
    BY <1>2, <1>5, <1>6, <1>8, <1>9, <1>10, <1>11 DEF IndInv, StepsInv

LEMMA DirSyncHolds ==
  ASSUME IndInv, NEW u \in Updaters, DirSync(u)
  PROVE  IndInv'
  <1> DEFINE r == IF up[u].cancelled THEN "uncertain" ELSE "updated"
  <1>1. StepInv(u) /\ up[u].pc = "dirsync"
    BY DEF IndInv, StepsInv, DirSync, step, at
  <1>2. /\ UpOK' /\ \A v \in Updaters \ {u} : up'[v] = up[v] /\ stage'[v] = stage[v]
        /\ up'[u].pc = "done" /\ up'[u].result = r
        /\ stage' \in [Updaters -> Inodes \cup {no}]
        /\ stage'[u] = IF stage[u] = u THEN no ELSE stage[u]
    BY ReturnsWith DEF IndInv, Returned, DirSync
  <1>3. acs' = [now |-> acs.now, disk |-> acs.now] /\ UNCHANGED <<lockfile, file, everAcs, server, raced>>
    BY DEF IndInv, DiskOK, DirSync, step
  <1>4. r \in {"uncertain", "updated"}
    OBVIOUS
  <1> HIDE DEF r
  <1>5. LockOK' /\ DiskOK' /\ CountOK' /\ JobInv' /\ PublishedIsOneBuild'
    BY <1>2, <1>3 DEF IndInv, LockOK, DiskOK, CountOK, JobInv, PublishedIsOneBuild, server,
                      DirSync, step
  <1>6. LockInv'
    BY <1>2, <1>3 DEF IndInv, LockInv, holding
  <1>7. StepInv(u)'
    BY <1>2, <1>4 DEF StepInv, holding, no
  <1>8. ASSUME NEW v \in Updaters, v # u
        PROVE  StepInv(v)'
    <2>1. StepInv(v) /\ up'[v] = up[v] /\ stage'[v] = stage[v]
      BY <1>2, <1>8 DEF IndInv, StepsInv
    <2> QED
      BY <1>3, <2>1 DEF StepInv, Good, holding, installedIdentity, server
  <1>9. DiskInv'
    BY <1>2, <1>3, NamesAssumption DEF IndInv, DiskInv, Good, server, foreign, no
  <1>10. OutcomeHonest'
    BY <1>1, <1>2, <1>3, <1>4, NamesAssumption
       DEF IndInv, OutcomeHonest, resultHonest, stageCleaned, StepInv, at, no
  <1> QED
    BY <1>2, <1>5, <1>6, <1>7, <1>8, <1>9, <1>10 DEF IndInv, StepsInv

\* A process that forgets is harmless: what a killed updater leaves on the disk is
\* what it had written.
LEMMA PowerLossHolds ==
  ASSUME IndInv, PowerLoss
  PROVE  IndInv'
  <1>1. PICK kept \in {acs.now, acs.disk} : acs' = [now |-> kept, disk |-> kept]
    BY DEF PowerLoss
  <1>2. \A u \in Updaters : up'[u] = IF running(u) THEN Dead ELSE up[u]
    BY DEF PowerLoss
  <1>3. Dead \in Locals(lockfile.gen) /\ Dead.pc = "killed" /\ Dead.result = no
    BY Initial DEF IndInv, LockOK, Dead, Idle
  <1>4. UpOK'
    BY <1>3, Fields DEF IndInv, UpOK, PowerLoss
  <1>5. \A u \in Updaters : /\ up'[u].pc \in {"idle", "done", "killed"}
                            /\ up'[u].pc # "killed" => up'[u] = up[u]
                            /\ up'[u].pc = "killed" => up'[u].result = no
                            /\ up[u].pc = "killed" => up'[u].pc = "killed"
                            /\ up[u].pc = "done" => up'[u] = up[u]
                            /\ up[u].pc \notin {"idle", "done"} => up'[u].pc = "killed"
    <2>1. TAKE u \in Updaters
    <2>2. StepInv(u)
      BY DEF IndInv, StepsInv
    <2> QED
      BY <1>2, <1>3, <2>2 DEF running, StepInv
  <1>6. /\ file' \in [Inodes -> [bytes : Bytes, synced : BOOLEAN]]
        /\ \A i \in Inodes : file[i].synced => file'[i] = file[i]
    <2>1. \A i \in Inodes : (IF file[i].synced THEN file[i] ELSE [file[i] EXCEPT !.bytes = torn])
                                \in [bytes : Bytes, synced : BOOLEAN]
      BY DEF IndInv, DiskOK, Bytes
    <2> QED
      BY <2>1 DEF PowerLoss
  <1>7. acs.now \in Inodes /\ acs.disk \in Inodes /\ acs.now \in everAcs /\ acs.disk \in everAcs
        /\ everAcs \subseteq Inodes
    BY DEF IndInv, DiskOK, DiskInv
  <1>8. everAcs' = everAcs /\ stage' = stage /\ acs'.now = kept /\ acs'.disk = kept
    BY <1>1, <1>7 DEF PowerLoss
  <1>9. UNCHANGED <<server, lockfile, raced, meddles>> /\ faults' \in Nat
    BY DEF PowerLoss, Fault, IndInv, CountOK
  <1>10. LockOK' /\ DiskOK' /\ CountOK' /\ JobInv' /\ PublishedIsOneBuild'
    BY <1>1, <1>6, <1>7, <1>8, <1>9 DEF IndInv, LockOK, DiskOK, CountOK, JobInv,
                                        PublishedIsOneBuild, server
  <1>11. LockInv' /\ StepsInv'
    <2>1. ASSUME NEW u \in Updaters
          PROVE  StepInv(u)'
      <3>1. StepInv(u)
        BY DEF IndInv, StepsInv
      <3> QED
        BY <1>5, <3>1 DEF StepInv, holding, no
    <2> QED
      BY <1>5, <2>1 DEF StepsInv, LockInv, holding
  <1>12. DiskInv'
    <2>1. ASSUME NEW u \in Updaters
          PROVE  /\ stage'[u] \in {u, foreign, no}
                 /\ stage'[u] = foreign => file'[foreign].synced
                 /\ u \in everAcs' => /\ up'[u].pc \in {"dirsync", "done", "killed"}
                                      /\ file'[u].synced
                 /\ up'[u].result = "updated" /\ acs'.now = u => acs'.disk = u
      BY <1>5, <1>6, <1>8 DEF IndInv, DiskInv, Inodes, no
    <2>2. (~raced => \A i \in {acs.now, acs.disk} :
              file[i].synced /\ (file[i].bytes = local \/ Good(file[i].bytes)))'
      <3>1. ~raced => /\ file[kept].synced /\ file'[kept] = file[kept]
                      /\ file[kept].bytes = local \/ Good(file[kept].bytes)
        BY <1>6, <1>7 DEF IndInv, DiskInv
      <3> QED
        BY <1>8, <1>9, <3>1 DEF Good, server
    <2> QED
      BY <1>7, <1>8, <2>1, <2>2 DEF DiskInv
  <1>13. OutcomeHonest'
    <2>1. ASSUME NEW u \in Updaters
          PROVE  /\ up'[u].pc # "killed" => up'[u] = up[u]
                 /\ up'[u].pc = "killed" => up'[u].result = no
      BY <1>5
    <2> QED
      BY <1>8, <1>9, <2>1 DEF IndInv, OutcomeHonest, resultHonest, stageCleaned, at, no
  <1> QED
    BY <1>4, <1>10, <1>11, <1>12, <1>13 DEF IndInv

\* A step of the release job: a published release is final, so that what updaters
\* have downloaded stays verified.
LEMMA JobStep ==
  ASSUME IndInv, UNCHANGED <<up, lockfile, disk, raced, meddles>>, faults' \in Nat, attempts' \in Nat,
         JobInv', PublishedIsOneBuild', rel.state = "published" => rel' = rel
  PROVE  IndInv'
  <1>1. UpOK' /\ LockOK' /\ DiskOK' /\ CountOK'
    BY DEF IndInv, UpOK, LockOK, DiskOK, CountOK, disk
  <1>2. LockInv' /\ OutcomeHonest'
    BY DEF IndInv, LockInv, OutcomeHonest, resultHonest, stageCleaned, at, disk
  <1>3. \A b : Good(b) => Good(b)'
    BY DEF Good
  <1>4. ASSUME NEW u \in Updaters
        PROVE  StepInv(u)'
    <2>1. StepInv(u)
      BY DEF IndInv, StepsInv
    <2>2. Good(up[u].binary) => Good(up[u].binary)'
      BY <1>3
    <2> QED
      BY <1>3, <2>1, <2>2 DEF StepInv, installedIdentity, disk
  <1>5. DiskInv'
    BY <1>3 DEF IndInv, DiskInv, disk
  <1> QED
    BY <1>1, <1>2, <1>4, <1>5 DEF IndInv, StepsInv

LEMMA NoJobIsJob == NoJob \in Job /\ NoJob.pc = "idle" /\ NoRelease \in Release
  <1>1. NoRelease \in Release
    BY DEF NoRelease, Release
  <1> QED
    BY <1>1 DEF NoJob, Job

\* An attempt that ends leaves the release to the next one.
LEMMA JobEnds ==
  ASSUME rel' \in Release, job' = NoJob, rel'.state # Absent \/ (JobInv /\ rel' = rel)
  PROVE  JobInv'
  BY NoJobIsJob DEF JobInv

LEMMA JobStartsHolds ==
  ASSUME IndInv, NEW b \in Builds, JobStarts(b)
  PROVE  IndInv'
  <1>1. job' \in Job /\ job'.pc = "plan" /\ job'.build = b /\ job'.seen = rel
    BY NoJobIsJob DEF IndInv, JobInv, Job, JobStarts, fetched
  <1>2. JobInv' /\ PublishedIsOneBuild'
    BY <1>1 DEF IndInv, JobInv, PublishedIsOneBuild, JobStarts
  <1> QED
    BY <1>2, JobStep DEF JobStarts, IndInv, CountOK

LEMMA JobPlansHolds ==
  ASSUME IndInv, JobPlans
  PROVE  IndInv'
  <1>1. /\ JobInv /\ job \in Job /\ rel \in Release /\ rel' = rel
        /\ job.seen = rel /\ job.build \in Builds /\ rel.state \in {Absent, "draft", "published"}
        /\ rel.state = Absent => rel = NoRelease
    BY DEF IndInv, JobInv, JobPlans, jobStep, Release
  <1>2. PublishedIsOneBuild'
    BY <1>1 DEF IndInv, PublishedIsOneBuild
  <1>3. \/ job' = NoJob
        \/ rel.state = Absent /\ job' = [job EXCEPT !.pc = "create"]
        \/ rel.state = "draft" /\ job' = [job EXCEPT !.pc = "upload", !.todo = Missing(rel)]
        \/ /\ rel.state = "draft" /\ job' = [job EXCEPT !.pc = "publish"]
           /\ Plan(rel, job.build) = "publish-draft"
    BY <1>1 DEF JobPlans, Plan
  <1>4. CASE job' = NoJob
    BY <1>1, <1>2, <1>4, JobEnds, JobStep DEF JobPlans, jobStep, IndInv, CountOK
  <1>5. CASE rel.state = Absent /\ job' = [job EXCEPT !.pc = "create"]
    <2>1. job' \in Job /\ job'.pc = "create" /\ job'.build = job.build /\ job'.seen = job.seen
      BY <1>1, <1>5 DEF Job
    <2>2. JobInv'
      BY <1>1, <1>5, <2>1 DEF JobInv
    <2> QED
      BY <1>2, <2>2, JobStep DEF JobPlans, jobStep, IndInv, CountOK
  <1>6. CASE rel.state = "draft" /\ job' = [job EXCEPT !.pc = "upload", !.todo = Missing(rel)]
    <2>1. Missing(rel) \in SUBSET Assets
      BY DEF Missing
    <2>2. job' \in Job /\ job'.pc = "upload" /\ job'.build = job.build /\ job'.seen = job.seen
      BY <1>1, <1>6, <2>1 DEF Job
    <2>3. JobInv'
      BY <1>1, <1>6, <2>2 DEF JobInv, Absent
    <2> QED
      BY <1>2, <2>3, JobStep DEF JobPlans, jobStep, IndInv, CountOK
  <1>7. CASE /\ rel.state = "draft" /\ job' = [job EXCEPT !.pc = "publish"]
             /\ Plan(rel, job.build) = "publish-draft"
    <2>1. job' \in Job /\ job'.pc = "publish" /\ job'.build = job.build /\ job'.seen = job.seen
      BY <1>1, <1>7 DEF Job
    <2>2. \A a \in Assets : rel.asset[a] = job.build
      <3>1. Missing(rel) = {} /\ \A a \in Assets \ Missing(rel) : rel.asset[a] = candidate(job.build)[a]
        BY <1>7 DEF Plan
      <3> QED
        BY <3>1 DEF candidate
    <2>3. JobInv'
      BY <1>1, <1>7, <2>1, <2>2 DEF JobInv, Absent
    <2> QED
      BY <1>2, <2>3, JobStep DEF JobPlans, jobStep, IndInv, CountOK
  <1> QED
    BY <1>3, <1>4, <1>5, <1>6, <1>7

LEMMA JobCreatesHolds ==
  ASSUME IndInv, JobCreates
  PROVE  IndInv'
  <1>1. rel.state = Absent /\ rel \in Release /\ job \in Job /\ job.build \in Builds
    BY DEF IndInv, JobInv, JobCreates, jobStep
  <1>2. rel' \in Release /\ rel'.state = "draft"
    BY <1>1 DEF JobCreates, Release
  <1>3. PublishedIsOneBuild'
    BY <1>2 DEF PublishedIsOneBuild
  <1>4. CASE job' = [job EXCEPT !.pc = "plan", !.seen = rel'] /\ UNCHANGED faults
    <2>1. job' \in Job /\ job'.pc = "plan" /\ job'.seen = rel' /\ job'.build = job.build
      BY <1>1, <1>2, <1>4 DEF Job
    <2>2. JobInv'
      BY <1>1, <1>2, <2>1 DEF JobInv, Absent
    <2> QED
      BY <1>1, <1>3, <1>4, <2>2, JobStep DEF JobCreates, jobStep, IndInv, CountOK, Absent
  <1>5. CASE Fault /\ job' = NoJob
    <2>1. JobInv'
      BY <1>2, <1>5, JobEnds DEF Absent
    <2> QED
      BY <1>1, <1>3, <1>5, <2>1, JobStep DEF JobCreates, jobStep, Fault, IndInv, CountOK, Absent
  <1> QED
    BY <1>4, <1>5 DEF JobCreates

LEMMA JobUploadsHolds ==
  ASSUME IndInv, JobUploads
  PROVE  IndInv'
  <1>1. rel.state = "draft" /\ rel \in Release /\ job \in Job /\ job.build \in Builds
        /\ job.pc = "upload"
    BY DEF IndInv, JobInv, JobUploads, jobStep
  <1>2. CASE /\ job' = [job EXCEPT !.pc = "plan", !.seen = fetched, !.todo = Assets]
             /\ UNCHANGED <<rel, faults>>
    <2>1. job' \in Job /\ job'.pc = "plan" /\ job'.seen = rel /\ job'.build = job.build
      BY <1>1, <1>2 DEF Job, fetched
    <2>2. JobInv' /\ PublishedIsOneBuild'
      BY <1>1, <1>2, <2>1 DEF IndInv, JobInv, PublishedIsOneBuild
    <2> QED
      BY <1>2, <2>2, JobStep DEF JobUploads, jobStep, IndInv, CountOK
  <1>3. ASSUME NEW a \in Assets, job' = [job EXCEPT !.todo = @ \ {a}], UNCHANGED faults,
               rel' = [rel EXCEPT !.asset[a] = candidate(job.build)[a]]
        PROVE  IndInv'
    <2>1. rel' \in Release /\ rel'.state = "draft"
      BY <1>1, <1>3 DEF Release, candidate
    <2>2. job' \in Job /\ job'.pc = "upload" /\ job'.build = job.build
      BY <1>1, <1>3 DEF Job
    <2>3. JobInv' /\ PublishedIsOneBuild'
      BY <1>1, <2>1, <2>2 DEF JobInv, PublishedIsOneBuild, Absent
    <2> QED
      BY <1>1, <1>3, <2>3, JobStep DEF JobUploads, jobStep, IndInv, CountOK
  <1>4. ASSUME NEW a \in Assets, Fault, job' = NoJob,
               rel' \in {rel, [rel EXCEPT !.asset[a] = "starter"],
                         [rel EXCEPT !.asset[a] = candidate(job.build)[a]]}
        PROVE  IndInv'
    <2>1. rel' \in Release /\ rel'.state = "draft"
      BY <1>1, <1>4 DEF Release, candidate
    <2>2. JobInv' /\ PublishedIsOneBuild'
      BY <1>4, <2>1, JobEnds DEF PublishedIsOneBuild, Absent
    <2> QED
      BY <1>1, <1>4, <2>2, JobStep DEF JobUploads, jobStep, Fault, IndInv, CountOK
  <1>5. job.todo \subseteq Assets
    BY <1>1 DEF Job
  <1> QED
    BY <1>2, <1>3, <1>4, <1>5 DEF JobUploads

\* Only a draft whose assets all are the candidate's is published.
LEMMA JobPublishesHolds ==
  ASSUME IndInv, JobPublishes
  PROVE  IndInv'
  <1>1. /\ rel.state = "draft" /\ rel \in Release /\ job.build \in Builds
        /\ \A a \in Assets : rel.asset[a] = job.build
    BY DEF IndInv, JobInv, JobPublishes, jobStep
  <1>2. rel' \in Release /\ rel'.state = "published" /\ rel'.asset = rel.asset
    BY <1>1 DEF JobPublishes, Release
  <1>3. JobInv'
    BY <1>2, JobEnds DEF JobPublishes, Absent
  <1>4. PublishedIsOneBuild'
    BY <1>1, <1>2 DEF PublishedIsOneBuild
  <1> QED
    BY <1>1, <1>3, <1>4, JobStep DEF JobPublishes, jobStep, IndInv, CountOK

LEMMA JobDiesHolds ==
  ASSUME IndInv, JobDies
  PROVE  IndInv'
  <1>1. JobInv' /\ PublishedIsOneBuild'
    BY JobEnds DEF IndInv, JobInv, PublishedIsOneBuild, JobDies
  <1> QED
    BY <1>1, JobStep DEF JobDies, Fault, IndInv, CountOK

\* A change by the user, at a rename, is a race.
LEMMA Meddles ==
  ASSUME IndInv, Meddle
  PROVE  /\ UNCHANGED <<server, up, faults>>
         /\ meddles' \in Nat /\ raced' \in BOOLEAN
         /\ raced => raced'
         /\ \A u \in Updaters : up[u].pc = "rename" => raced'
  <1>1. UNCHANGED <<server, up, faults>> /\ meddles' \in Nat
    BY DEF Meddle, IndInv, CountOK
  <1>2. raced' \in BOOLEAN
    BY Zenon DEF Meddle
  <1>3. raced => raced'
    BY DEF Meddle
  <1>4. \A u \in Updaters : up[u].pc = "rename" => raced'
    BY DEF Meddle, at
  <1> QED
    BY <1>1, <1>2, <1>3, <1>4

\* What the user does is seen by the checks, or recorded as a race.
LEMMA UserInstallsHolds ==
  ASSUME IndInv, UserInstalls
  PROVE  IndInv'
  <1>1. /\ file' \in [Inodes -> [bytes : Bytes, synced : BOOLEAN]]
        /\ file'[foreign] = [bytes |-> local, synced |-> TRUE]
        /\ \A i \in Inodes \ {foreign} : file'[i] = file[i]
    BY DEF UserInstalls, IndInv, DiskOK, Inodes, Bytes
  <1>2. /\ acs' = [now |-> foreign, disk |-> foreign] /\ everAcs' = everAcs \cup {foreign}
        /\ UNCHANGED <<server, up, faults, lockfile, stage>>
        /\ meddles' \in Nat /\ raced' \in BOOLEAN
        /\ raced => raced'
        /\ \A u \in Updaters : up[u].pc = "rename" => raced'
    BY Meddles DEF UserInstalls
  <1>3. foreign \in Inodes /\ \A u \in Updaters : u # foreign /\ u \in Inodes \ {foreign}
    BY NamesAssumption DEF Inodes
  <1>4. /\ UpOK' /\ LockOK' /\ DiskOK' /\ CountOK' /\ JobInv' /\ LockInv' /\ PublishedIsOneBuild'
    BY <1>1, <1>2, <1>3 DEF IndInv, UpOK, LockOK, DiskOK, CountOK, JobInv, LockInv,
                            PublishedIsOneBuild, server
  <1>5. ASSUME NEW u \in Updaters
        PROVE  StepInv(u)'
    <2>1. StepInv(u)
      BY DEF IndInv, StepsInv
    <2> QED
      BY <1>1, <1>2, <1>3, <2>1 DEF StepInv, Good, holding, server
  <1>6. DiskInv'
    BY <1>1, <1>2, <1>3 DEF IndInv, DiskInv, Good, server
  <1>7. OutcomeHonest'
    BY <1>2, <1>3 DEF IndInv, OutcomeHonest, resultHonest, stageCleaned, at
  <1> QED
    BY <1>4, <1>5, <1>6, <1>7 DEF IndInv, StepsInv

LEMMA UserRewritesHolds ==
  ASSUME IndInv, UserRewrites
  PROVE  IndInv'
  <1>1. /\ file' \in [Inodes -> [bytes : Bytes, synced : BOOLEAN]]
        /\ file'[acs.now].bytes = local
        /\ \A i \in Inodes : file'[i].synced = file[i].synced
        /\ \A i \in Inodes \ {acs.now} : file'[i] = file[i]
    BY DEF UserRewrites, IndInv, DiskOK, Inodes, Bytes
  <1>2. /\ UNCHANGED <<server, up, faults, lockfile, stage, acs, everAcs>>
        /\ meddles' \in Nat /\ raced' \in BOOLEAN
        /\ raced => raced'
        /\ \A u \in Updaters : up[u].pc = "rename" => raced'
    BY Meddles DEF UserRewrites
  <1>3. foreign \in Inodes /\ \A u \in Updaters : u \in Inodes
    BY DEF Inodes
  <1>4. /\ UpOK' /\ LockOK' /\ DiskOK' /\ CountOK' /\ JobInv' /\ LockInv' /\ PublishedIsOneBuild'
    BY <1>1, <1>2, <1>3 DEF IndInv, UpOK, LockOK, DiskOK, CountOK, JobInv, LockInv,
                            PublishedIsOneBuild, server
  <1>5. ASSUME NEW u \in Updaters
        PROVE  StepInv(u)'
    <2>1. StepInv(u) /\ (up[u].pc = "rename" => u # acs.now)
      BY DEF IndInv, StepsInv, DiskInv
    <2> QED
      BY <1>1, <1>2, <1>3, <2>1 DEF StepInv, Good, holding, server
  <1>6. DiskInv'
    <2>1. DiskInv /\ acs.now \in Inodes /\ acs.disk \in Inodes
      BY DEF IndInv, DiskOK
    <2>2. rel' = rel
      BY <1>2 DEF server
    <2>3. ASSUME ~raced', NEW i \in {acs.now, acs.disk}
          PROVE  (file[i].synced /\ (file[i].bytes = local \/ Good(file[i].bytes)))'
      <3>1. file[i].synced /\ (file[i].bytes = local \/ Good(file[i].bytes))
        BY <1>2, <2>1, <2>3 DEF DiskInv
      <3>2. CASE i = acs.now
        BY <1>1, <2>1, <3>1, <3>2
      <3>3. CASE i # acs.now
        BY <1>1, <2>1, <2>2, <3>1, <3>3 DEF Good
      <3> QED
        BY <3>2, <3>3
    <2>4. /\ acs'.now \in everAcs' /\ acs'.disk \in everAcs'
          /\ \A u \in Updaters :
                /\ stage'[u] \in {u, foreign, no}
                /\ stage'[u] = foreign => file'[foreign].synced
                /\ u \in everAcs' => up'[u].pc \in {"dirsync", "done", "killed"} /\ file'[u].synced
                /\ up'[u].result = "updated" /\ acs'.now = u => acs'.disk = u
      BY <1>1, <1>2, <1>3, <2>1 DEF DiskInv
    <2> QED
      BY <1>2, <2>3, <2>4 DEF DiskInv
  <1>7. OutcomeHonest'
    BY <1>2, <1>3 DEF IndInv, OutcomeHonest, resultHonest, stageCleaned, at
  <1> QED
    BY <1>4, <1>5, <1>6, <1>7 DEF IndInv, StepsInv

LEMMA UserSubstitutesStageHolds ==
  ASSUME IndInv, NEW u \in Updaters, UserSubstitutesStage(u)
  PROVE  IndInv'
  <1>1. /\ file' \in [Inodes -> [bytes : Bytes, synced : BOOLEAN]]
        /\ file'[foreign] = [bytes |-> local, synced |-> TRUE]
        /\ \A i \in Inodes \ {foreign} : file'[i] = file[i]
        /\ stage' \in [Updaters -> Inodes \cup {no}] /\ stage'[u] = foreign
        /\ \A v \in Updaters \ {u} : stage'[v] = stage[v]
    BY DEF UserSubstitutesStage, IndInv, DiskOK, Inodes, Bytes
  <1>2. /\ UNCHANGED <<server, up, faults, lockfile, acs, everAcs>>
        /\ meddles' \in Nat /\ raced' \in BOOLEAN
        /\ raced => raced'
        /\ \A v \in Updaters : up[v].pc = "rename" => raced'
        /\ file[foreign].bytes = torn
    BY Meddles DEF UserSubstitutesStage
  <1>3. foreign \in Inodes /\ \A v \in Updaters : v # foreign /\ v \in Inodes \ {foreign}
    BY NamesAssumption DEF Inodes
  <1>4. /\ UpOK' /\ LockOK' /\ DiskOK' /\ CountOK' /\ JobInv' /\ LockInv' /\ PublishedIsOneBuild'
    BY <1>1, <1>2, <1>3 DEF IndInv, UpOK, LockOK, DiskOK, CountOK, JobInv, LockInv,
                            PublishedIsOneBuild, server
  <1>5. ASSUME NEW v \in Updaters
        PROVE  StepInv(v)'
    <2>1. StepInv(v)
      BY DEF IndInv, StepsInv
    <2> QED
      BY <1>1, <1>2, <1>3, <2>1 DEF StepInv, Good, holding, server
  <1>6. DiskInv'
    BY <1>1, <1>2, <1>3 DEF IndInv, DiskInv, DiskOK, Good, server
  <1>7. OutcomeHonest'
    BY <1>1, <1>2, <1>3 DEF IndInv, OutcomeHonest, resultHonest, stageCleaned, at
  <1> QED
    BY <1>4, <1>5, <1>6, <1>7 DEF IndInv, StepsInv

LEMMA UserRemovesLockHolds ==
  ASSUME IndInv, UserRemovesLock
  PROVE  IndInv'
  <1>1. /\ lockfile' = [named |-> 0, gen |-> lockfile.gen,
                        torn |-> lockfile.torn \/ holders(lockfile.named) # {}]
        /\ lockfile.gen \in Nat
    BY DEF UserRemovesLock, IndInv, LockOK
  <1>2. /\ UNCHANGED <<server, up, faults, disk>>
        /\ meddles' \in Nat /\ raced' \in BOOLEAN
        /\ raced => raced'
    BY Meddles DEF UserRemovesLock
  <1>3. ~lockfile'.torn => ~lockfile.torn /\ \A u \in Updaters : up[u].pc \notin holding
    BY <1>1 DEF IndInv, LockInv, LockOK, holders
  <1>4. lockfile' \in [named : Nat, gen : Nat, torn : BOOLEAN] /\ lockfile'.named <= lockfile'.gen
        /\ lockfile'.gen = lockfile.gen
    BY <1>1 DEF IndInv, LockOK
  <1>5. /\ UpOK' /\ LockOK' /\ DiskOK' /\ CountOK' /\ JobInv' /\ PublishedIsOneBuild'
    BY <1>2, <1>4 DEF IndInv, UpOK, LockOK, DiskOK, CountOK, JobInv, PublishedIsOneBuild, server, disk
  <1>6. LockInv'
    BY <1>2, <1>3 DEF IndInv, LockInv
  <1>7. ASSUME NEW u \in Updaters
        PROVE  StepInv(u)'
    <2>1. StepInv(u)
      BY DEF IndInv, StepsInv
    <2> QED
      BY <1>2, <1>3, <2>1 DEF StepInv, Good, installedIdentity, holding, server, disk
  <1>8. DiskInv'
    BY <1>2 DEF IndInv, DiskInv, Good, server, disk
  <1>9. OutcomeHonest'
    BY <1>2 DEF IndInv, OutcomeHonest, resultHonest, stageCleaned, at, disk
  <1> QED
    BY <1>5, <1>6, <1>7, <1>8, <1>9 DEF IndInv, StepsInv

\* Every step of the system preserves the invariant.
LEMMA NextHolds == IndInv /\ [Next]_vars => IndInv'
  <1> SUFFICES ASSUME IndInv, [Next]_vars
               PROVE  IndInv'
    OBVIOUS
  <1>1. CASE UNCHANGED vars
    BY <1>1 DEF vars, server, disk, IndInv, UpOK, LockOK, DiskOK, CountOK, JobInv, LockInv, StepsInv,
       StepInv, DiskInv, Good, installedIdentity, PublishedIsOneBuild, OutcomeHonest, resultHonest,
       stageCleaned, at
  <1>2. ASSUME NEW u \in Updaters, UpdaterStep(u)
        PROVE  IndInv'
    BY <1>2, MetadataHolds, IdentityHolds, ManifestHolds, ArchiveHolds, OpenLockHolds, LockHolds,
       StageHolds, WriteHolds, SyncHolds, RecheckHolds, RenameHolds, DirSyncHolds DEF UpdaterStep
  <1> QED
    BY <1>1, <1>2, JobStartsHolds, JobPlansHolds, JobCreatesHolds, JobUploadsHolds, JobPublishesHolds,
       JobDiesHolds, StartHolds, StartCandidateHolds, StepFailsHolds, CancelHolds, KilledHolds,
       UserSubstitutesStageHolds, PowerLossHolds, UserInstallsHolds, UserRewritesHolds,
       UserRemovesLockHolds DEF Next

LEMMA InitHolds == Init => IndInv
  <1> SUFFICES ASSUME Init
               PROVE  IndInv
    OBVIOUS
  <1>1. \A u \in Updaters : up[u] = Idle /\ Idle.pc = "idle" /\ Idle.result = no
    BY DEF Init, Idle
  <1>2. UpOK /\ LockOK /\ CountOK
    <2>1. lockfile = [named |-> 0, gen |-> 0, torn |-> FALSE]
      BY DEF Init
    <2>2. Idle \in Locals(lockfile.gen)
      BY <2>1, Initial
    <2>3. UpOK
      BY <2>2 DEF Init, UpOK
    <2>4. LockOK
      BY <2>1 DEF LockOK
    <2>5. CountOK
      BY DEF Init, CountOK
    <2> QED
      BY <2>3, <2>4, <2>5
  <1>3. DiskOK
    <2>1. torn \in Bytes /\ [ver |-> Installed, build |-> "old"] \in Bytes
      BY VersionsAssumption DEF Bytes, Versions
    <2> QED
      BY <2>1 DEF Init, DiskOK, Inodes
  <1>4. JobInv
    BY NoJobIsJob DEF Init, JobInv
  <1>5. LockInv /\ StepsInv
    BY <1>1 DEF LockInv, StepsInv, StepInv, holding
  <1>6. DiskInv
    <2>1. file["first"] = [bytes |-> [ver |-> Installed, build |-> "old"], synced |-> TRUE]
      BY DEF Init, Inodes
    <2> QED
      BY <1>1, <2>1, NamesAssumption DEF Init, DiskInv, Good, no, foreign
  <1>7. PublishedIsOneBuild /\ OutcomeHonest
    BY <1>1, NamesAssumption DEF Init, NoRelease, PublishedIsOneBuild, Absent, OutcomeHonest, resultHonest,
       stageCleaned, at, no
  <1> QED
    BY <1>2, <1>3, <1>4, <1>5, <1>6, <1>7 DEF IndInv

LEMMA Inductive == Spec => []IndInv
  BY InitHolds, NextHolds, PTL DEF Spec

LEMMA Typed == IndInv => TypeOK
  BY DEF IndInv, TypeOK, UpOK, DiskOK, JobInv, Job, Release, Locals, Pc

\* For any number of updaters, builds and attempts: whatever races, fails or loses
\* power, the installed executable is complete and is the build that was published
\* or validated, and a published release is one build (Run, replaceWithStageOps,
\* plan.go).
THEOREM OnlyVerifiedBuilds == Spec => []VerifiedBuildOnly
  <1>1. IndInv => InstalledIsVerified
    BY DEF IndInv, DiskInv, Good, InstalledIsVerified
  <1>2. IndInv => VerifiedBuildOnly
    BY <1>1, Typed DEF IndInv, VerifiedBuildOnly
  <1> QED
    BY <1>2, Inductive, PTL

\* A command that returns is right about whether it replaced the file, and leaves
\* no staged file behind (replaceWithStageOps).
THEOREM OutcomesAreHonest == Spec => []OutcomeHonest
  <1>1. IndInv => OutcomeHonest
    BY DEF IndInv
  <1> QED
    BY <1>1, Inductive, PTL

\* Only the release job touches the release, and it never takes anything from it.
LEMMA ReleaseGrows == IndInv /\ Next => releasesOnlyGrow
  <1> SUFFICES ASSUME IndInv, Next
               PROVE  releasesOnlyGrow
    OBVIOUS
  <1>1. CASE JobCreates
    <2>1. rel = NoRelease
      BY <1>1 DEF IndInv, JobInv, JobCreates, jobStep
    <2> QED
      BY <2>1 DEF releasesOnlyGrow, NoRelease, Absent
  <1>2. CASE JobUploads
    <2>1. rel \in Release /\ rel.state = "draft"
      BY <1>2 DEF IndInv, JobInv, JobUploads, jobStep
    <2>2. rel' = rel \/ \E a \in job.todo : /\ rel.asset[a] = Absent
                                            /\ \/ rel' = rel
                                               \/ \E x : rel' = [rel EXCEPT !.asset[a] = x]
      BY <1>2 DEF JobUploads
    <2> QED
      BY <2>1, <2>2 DEF releasesOnlyGrow, Release
  <1>3. CASE JobPublishes
    BY <1>3 DEF IndInv, JobInv, JobPublishes, jobStep, releasesOnlyGrow, Release
  <1>4. CASE rel' = rel
    BY <1>4 DEF releasesOnlyGrow
  <1>5. ASSUME NEW u \in Updaters, UpdaterStep(u)
        PROVE  rel' = rel
    BY <1>5 DEF UpdaterStep, step, server, Metadata, Identity, Manifest, Archive, OpenLock, Lock,
       LockCancelled, Stage, Write, Sync, Recheck, Rename, DirSync
  <1> QED
    BY <1>1, <1>2, <1>3, <1>4, <1>5 DEF Next, server, JobStarts, JobPlans, JobDies, jobStep, Start,
       StartCandidate, StepFails, Cancel, Killed, UserSubstitutesStage, Meddle, PowerLoss,
       UserInstalls, UserRewrites, UserRemovesLock

\* A failure changes nothing under the name acs, except for a loss of power.
LEMMA FaultsLeaveInstalled == IndInv /\ Next /\ faults' > faults => UNCHANGED <<acs, file>> \/ PowerLoss
  <1> SUFFICES ASSUME IndInv, Next, faults' > faults
               PROVE  UNCHANGED <<acs, file>> \/ PowerLoss
    OBVIOUS
  <1>1. faults' # faults
    BY DEF IndInv, CountOK
  <1>2. \A u \in Updaters : ~UpdaterStep(u)
    BY <1>1 DEF UpdaterStep, step, Metadata, Identity, Manifest, Archive, OpenLock, Lock,
       LockCancelled, Stage, Write, Sync, Recheck, Rename, DirSync
  <1> QED
    BY <1>1, <1>2 DEF Next, disk, JobStarts, JobPlans, JobCreates, JobUploads, JobPublishes, JobDies,
       jobStep, Start, StartCandidate, StepFails, Cancel, Killed, UserSubstitutesStage, Meddle,
       UserInstalls, UserRewrites, UserRemovesLock

LEMMA SuccessSurvives == IndInv /\ Next => successSurvives
  <1> SUFFICES ASSUME IndInv, Next, NEW u \in Updaters,
                      up[u].result = "updated", acs.now = u, faults' > faults
               PROVE  acs'.now = u /\ file'[u].bytes = file[u].bytes
    BY DEF successSurvives
  <1>1. acs.disk = u /\ file[u].synced /\ u \in Inodes
    BY DEF IndInv, DiskInv, Inodes
  <1>2. CASE PowerLoss
    BY <1>1, <1>2 DEF PowerLoss
  <1> QED
    BY <1>2, FaultsLeaveInstalled

\* Nothing somebody relies on is taken back: a published release, the file found
\* when the updater looked, an update that was reported (publish-release.sh,
\* replaceWithStageOps).
THEOREM NothingTakenBack == Spec => NothingIsTakenBack
  <1>1. IndInv => noLostUpdate
    BY DEF IndInv, StepsInv, StepInv, noLostUpdate, at
  <1>2. IndInv /\ [Next]_vars => [releasesOnlyGrow /\ noLostUpdate /\ successSurvives]_vars
    BY <1>1, ReleaseGrows, SuccessSurvives
  <1> QED
    BY <1>2, Inductive, PTL DEF Spec, NothingIsTakenBack

=============================================================================
