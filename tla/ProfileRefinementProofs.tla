----------------------- MODULE ProfileRefinementProofs -----------------------
(***************************************************************************)
(* Proofs about the transaction engine for every number of processes,      *)
(* names, documents and every bound.  First ProfileTxn's own invariants:   *)
(* TypeOK together with HolderHasEvidence, which ties the step of the lock *)
(* holder to what is on disk, is inductive, and that a durable decision    *)
(* precedes every effect follows from it.                                  *)
(*                                                                         *)
(* Then that the engine keeps the promise of ProfileStore, that recovery   *)
(* never refuses what the engine itself left behind, and that reported     *)
(* outcomes stay true.  The invariant for these says what one directory    *)
(* looks like (Shape), how two directories a power loss may leave are      *)
(* related (Pair), how histories are related to directories (Events), what *)
(* was said of a transaction (Claims), and what the lock holder may rely   *)
(* on at each step (HeldInv).                                              *)
(***************************************************************************)
EXTENDS ProfileRefinement, FiniteSetTheorems, TLAPS

-----------------------------------------------------------------------------
(* Types, and the evidence the lock holder has on disk. *)

\* The part of TypeOK about storage and the part about control.
DataOK ==
    /\ dir \in DirType /\ disk \subseteq DirType
    /\ hist \in HistType /\ hdisk \subseteq HistType
    /\ txns \in 0..MaxTxns /\ faults \in 0..MaxFaults /\ crashes \in 0..MaxCrashes
    /\ effects \subseteq Ids

CtlOK ==
    /\ lock \in Procs \cup {Nil}
    /\ pc \in [Procs -> Labels]
    /\ mode \in [Procs -> {"none", "settle", "apply", "abort", "recover"}]
    /\ req \in [Procs -> Request \cup {Nil}]
    /\ mem \in [Procs -> Plan \cup {Nil}]
    /\ out \in [Procs -> States]
    /\ verdict \in [Ids -> SUBSET (States \X BOOLEAN)]

IndInv == TypeOK /\ HolderHasEvidence

\* TypeOK is its two parts.
LEMMA TypeParts == TypeOK <=> DataOK /\ CtlOK
  BY DEF TypeOK, DataOK, CtlOK

LEMMA TypePartsNext == TypeOK' <=> DataOK' /\ CtlOK'
  BY DEF TypeOK, DataOK, CtlOK

\* Writing an object or a record under a leaf of its kind keeps a directory a
\* directory.
LEMMA PutDoc ==
  ASSUME NEW d \in DirType, NEW l \in DocLeaf, NEW o \in Object \cup {Nil}
  PROVE  /\ [d EXCEPT ![l] = o] \in DirType
         /\ \A m \in MetaLeaf : [d EXCEPT ![l] = o][m] = d[m]
  BY ConstantsAssumption DEF DirType, DocLeaf, MetaLeaf, Leaf

LEMMA PutMeta ==
  ASSUME NEW d \in DirType, NEW l \in MetaLeaf, NEW o \in Plan \cup Unwritten \cup {Nil}
  PROVE  /\ [d EXCEPT ![l] = o] \in DirType
         /\ \A m \in MetaLeaf : [d EXCEPT ![l] = o][m] = IF m = l THEN o ELSE d[m]
  BY ConstantsAssumption DEF DirType, DocLeaf, MetaLeaf, Leaf

\* So does removing whatever is under a leaf.
LEMMA RemoveLeaf ==
  ASSUME NEW d \in DirType, NEW l
  PROVE  [d EXCEPT ![l] = Nil] \in DirType
  BY DEF DirType, DocLeaf, MetaLeaf, Leaf

\* Adding an element to one member of a family of subsets.
LEMMA AddTo ==
  ASSUME NEW S, NEW T, NEW f \in [S -> SUBSET T], NEW i \in S, NEW t \in T
  PROVE  [f EXCEPT ![i] = f[i] \cup {t}] \in [S -> SUBSET T]
  OBVIOUS

\* A returning process leaves every process idle.
LEMMA ReturnQuiet ==
  ASSUME CtlOK, HolderHasEvidence, NEW p \in Procs, pc[p] # "idle",
         NEW s \in States, NEW r \in BOOLEAN, Return(p, s, r)
  PROVE  CtlOK' /\ HolderHasEvidence'
  <1>1. lock = p
    BY DEF HolderHasEvidence
  <1>2. \A q \in Procs : pc'[q] = "idle"
    <2>1. \A q \in Procs : q # p => pc[q] = "idle"
      BY <1>1 DEF HolderHasEvidence
    <2>2. QED
      BY <2>1 DEF Return, CtlOK
  <1>3. HolderHasEvidence'
    BY <1>2 DEF HolderHasEvidence
  <1>4. verdict' \in [Ids -> SUBSET (States \X BOOLEAN)]
    <2>1. <<s, r>> \in States \X BOOLEAN
      OBVIOUS
    <2>2. QED
      BY <2>1 DEF Return, CtlOK
  <1>5. CtlOK'
    <2>1. "idle" \in Labels /\ "not_committed" \in States
      BY DEF Labels, States
    <2>2. QED
      BY <1>4, <2>1 DEF Return, CtlOK
  <1>6. QED
    BY <1>3, <1>5

\* A process that moves on needs its evidence at the new step only.
LEMMA ProceedHolds ==
  ASSUME CtlOK, HolderHasEvidence, NEW p \in Procs, pc[p] # "idle",
         NEW label \in Labels, Proceed(p, label)
  PROVE  /\ CtlOK'
         /\ pc'[p] = label
         /\ Holder(p)' => HolderHasEvidence'
  <1>1. lock = p /\ lock' = p
    BY DEF HolderHasEvidence, Proceed
  <1>2. \A q \in Procs : q # p => pc'[q] = "idle"
    BY <1>1 DEF HolderHasEvidence, Proceed, Goto, CtlOK
  <1>3. QED
    BY <1>1, <1>2 DEF HolderHasEvidence, Proceed, Goto, CtlOK

\* A failure either returns or turns to the abort of a preparation.
LEMMA FailHolds ==
  ASSUME CtlOK, HolderHasEvidence, NEW p \in Procs, pc[p] # "idle", Fail(p),
         pc[p] \in Preparing => dir'["decision"] = Nil
  PROVE  CtlOK' /\ HolderHasEvidence'
  <1>1. CASE pc[p] \in Preparing
    <2>1. lock = p /\ lock' = p /\ req[p] \in Request
      BY <1>1 DEF HolderHasEvidence, Holder, Fail
    <2>2. CtlOK'
      BY <1>1 DEF Fail, Goto, CtlOK, Labels, Settling
    <2>3. pc'[p] = "recover" /\ mode'[p] = "abort" /\ req' = req
      BY <1>1 DEF Fail, Goto, CtlOK
    <2>4. \A q \in Procs : q # p => pc'[q] = "idle"
      BY <1>1, <2>1 DEF HolderHasEvidence, Fail, Goto, CtlOK
    <2>5. Holder(p)'
      BY <1>1, <2>1, <2>3 DEF Holder, Preparing, Effecting
    <2>6. QED
      BY <2>1, <2>2, <2>4, <2>5 DEF HolderHasEvidence
  <1>2. CASE pc[p] \notin Preparing
    <2>1. PICK s \in States, r \in BOOLEAN : Return(p, s, r)
      BY <1>2 DEF Fail, CtlOK, States
    <2>2. QED
      BY <2>1, ReturnQuiet
  <1>3. QED
    BY <1>1, <1>2

\* A system call: it leaves a directory, and unless it went through to its
\* label the invariant already holds.
LEMMA SyscallHolds ==
  ASSUME TypeOK, HolderHasEvidence, NEW p \in Procs, pc[p] # "idle",
         NEW d \in DirType, NEW label \in Labels, Syscall(p, d, label),
         pc[p] \in Preparing => d["decision"] = Nil
  PROVE  /\ dir' \in DirType /\ disk' \subseteq DirType /\ faults' \in 0..MaxFaults
         /\ CtlOK'
         /\ \/ HolderHasEvidence'
            \/ /\ dir' = d /\ disk' = disk \cup {d}
               /\ Proceed(p, label)
  <1>1. CtlOK /\ DataOK
    BY TypeParts
  <1>2. CASE dir' = d /\ disk' = disk \cup {d} /\ Proceed(p, label) /\ UNCHANGED faults
    BY <1>1, <1>2, ProceedHolds DEF DataOK
  <1>3. CASE /\ faults < MaxFaults /\ faults' = faults + 1
             /\ dir' \in {dir, d} /\ disk' = disk \cup {dir'} /\ Fail(p)
    <2>1. pc[p] \in Preparing => dir'["decision"] = Nil
      BY <1>3 DEF HolderHasEvidence, Holder
    <2>2. CtlOK' /\ HolderHasEvidence'
      BY <1>1, <1>3, <2>1, FailHolds
    <2>3. QED
      BY <1>1, <1>3, <2>2, ConstantsAssumption DEF DataOK
  <1>4. QED
    BY <1>2, <1>3 DEF Syscall

\* The same of a synchronization.
LEMMA SyncDirHolds ==
  ASSUME TypeOK, HolderHasEvidence, NEW p \in Procs, pc[p] # "idle",
         NEW label \in Labels, SyncDir(p, label)
  PROVE  /\ dir' = dir /\ disk' \subseteq DirType /\ faults' \in 0..MaxFaults
         /\ CtlOK'
         /\ \/ HolderHasEvidence'
            \/ disk' = {dir} /\ Proceed(p, label)
  <1>1. CtlOK /\ DataOK
    BY TypeParts
  <1>2. CASE disk' = {dir} /\ Proceed(p, label) /\ UNCHANGED faults
    BY <1>1, <1>2, ProceedHolds DEF DataOK, SyncDir
  <1>3. CASE faults < MaxFaults /\ faults' = faults + 1
             /\ disk' \in {disk, {dir}} /\ Fail(p)
    <2>1. pc[p] \in Preparing => dir'["decision"] = Nil
      BY DEF HolderHasEvidence, Holder, SyncDir
    <2>2. CtlOK' /\ HolderHasEvidence'
      BY <1>1, <1>3, <2>1, FailHolds
    <2>3. QED
      BY <1>1, <1>3, <2>2, ConstantsAssumption DEF DataOK, SyncDir
  <1>4. QED
    BY <1>2, <1>3 DEF SyncDir

-----------------------------------------------------------------------------
(* One lemma per action: it keeps IndInv. *)

\* Apply and Recover take a free lock; a busy one changes no control state.
LEMMA ApplyHolds ==
  ASSUME IndInv, NEW p \in Procs, NEW c \in Change, Apply(p, c)
  PROVE  IndInv'
  <1>1. CtlOK /\ DataOK /\ HolderHasEvidence
    BY TypeParts DEF IndInv
  <1>2. txns + 1 \in Ids /\ txns' \in 0..MaxTxns
    BY <1>1, ConstantsAssumption DEF Apply, DataOK, Ids
  <1>3. DataOK'
    BY <1>1, <1>2 DEF Apply, DataOK
  <1>4. CASE lock # Nil
    <2>1. verdict' \in [Ids -> SUBSET (States \X BOOLEAN)]
      <3>1. <<"not_committed", FALSE>> \in States \X BOOLEAN
        BY DEF States
      <3>2. verdict' = [verdict EXCEPT ![txns + 1]
                          = verdict[txns + 1] \cup {<<"not_committed", FALSE>>}]
        BY <1>4 DEF Apply
      <3>3. verdict \in [Ids -> SUBSET (States \X BOOLEAN)]
        BY <1>1 DEF CtlOK
      <3>4. QED
        BY <1>2, <3>1, <3>2, <3>3, AddTo
    <2>2. CtlOK'
      BY <1>1, <1>4, <2>1 DEF Apply, CtlOK
    <2>3. HolderHasEvidence'
      BY <1>1, <1>4 DEF Apply, HolderHasEvidence, Holder
    <2>4. QED
      BY <1>3, <2>2, <2>3, TypePartsNext DEF IndInv
  <1>5. CASE lock = Nil
    <2>1. \A q \in Procs : pc[q] = "idle"
      BY <1>1, <1>5, ConstantsAssumption DEF HolderHasEvidence
    <2>2. [id |-> txns + 1, c |-> c] \in Request
      BY <1>2 DEF Request
    <2>3. "lockSync" \in Labels
      BY DEF Labels
    <2>4. CtlOK'
      BY <1>1, <1>5, <2>2, <2>3 DEF Apply, Goto, CtlOK
    <2>5. /\ lock' = p /\ pc'[p] = "lockSync" /\ mode'[p] = "settle"
          /\ \A q \in Procs : q # p => pc'[q] = "idle"
      BY <1>1, <1>5, <2>1 DEF Apply, Goto, CtlOK
    <2>6. req'[p] = [id |-> txns + 1, c |-> c]
      BY <1>1, <1>5 DEF Apply, CtlOK
    <2>7. req'[p] \in Request
      BY <2>2, <2>6
    <2>8. Holder(p)'
      BY <2>5, <2>7 DEF Holder, Preparing, Effecting
    <2>9. QED
      BY <1>3, <2>4, <2>5, <2>8, TypePartsNext DEF IndInv, HolderHasEvidence
  <1>6. QED
    BY <1>4, <1>5

LEMMA RecoverHolds ==
  ASSUME IndInv, NEW p \in Procs, Recover(p)
  PROVE  IndInv'
  <1>1. CtlOK /\ DataOK /\ HolderHasEvidence
    BY TypeParts DEF IndInv
  <1>2. DataOK'
    BY <1>1 DEF Recover, DataOK
  <1>3. \A q \in Procs : pc[q] = "idle"
    BY <1>1, ConstantsAssumption DEF HolderHasEvidence, Recover
  <1>4. CtlOK'
    BY <1>1 DEF Recover, Goto, CtlOK, Labels
  <1>5. /\ lock' = p /\ pc'[p] = "lockSync" /\ mode'[p] = "recover"
        /\ \A q \in Procs : q # p => pc'[q] = "idle"
    BY <1>1, <1>3 DEF Recover, Goto, CtlOK
  <1>6. Holder(p)'
    BY <1>5 DEF Holder, Preparing, Effecting
  <1>7. QED
    BY <1>2, <1>4, <1>5, <1>6, TypePartsNext DEF IndInv, HolderHasEvidence

\* The frame of a synchronization: what remains to show is the evidence at the
\* next step.
LEMMA SyncStep ==
  ASSUME IndInv, NEW p \in Procs, pc[p] # "idle", NEW label \in Labels,
         SyncDir(p, label), UNCHANGED <<hist, hdisk, txns, crashes, effects>>,
         dir' = dir /\ disk' = {dir} /\ Proceed(p, label) /\ pc'[p] = label => Holder(p)'
  PROVE  IndInv'
  <1>1. CtlOK /\ DataOK /\ HolderHasEvidence /\ TypeOK
    BY TypeParts DEF IndInv
  <1>2. /\ dir' = dir /\ disk' \subseteq DirType /\ faults' \in 0..MaxFaults
        /\ CtlOK'
        /\ \/ HolderHasEvidence'
           \/ disk' = {dir} /\ Proceed(p, label)
    BY <1>1, SyncDirHolds
  <1>3. DataOK'
    BY <1>1, <1>2 DEF DataOK
  <1>4. disk' = {dir} /\ Proceed(p, label) => HolderHasEvidence'
    BY <1>1, <1>2, ProceedHolds
  <1>5. QED
    BY <1>2, <1>3, <1>4, TypePartsNext DEF IndInv

\* The frame of a system call that turns the directory into d.
LEMMA SyscallStep ==
  ASSUME IndInv, NEW p \in Procs, pc[p] # "idle", NEW label \in Labels, NEW d \in DirType,
         Syscall(p, d, label), UNCHANGED <<hist, hdisk, txns, crashes>>,
         effects' \subseteq Ids,
         pc[p] \in Preparing => d["decision"] = Nil,
         dir' = d /\ disk' = disk \cup {d} /\ Proceed(p, label) /\ pc'[p] = label => Holder(p)'
  PROVE  IndInv'
  <1>1. CtlOK /\ DataOK /\ HolderHasEvidence /\ TypeOK
    BY TypeParts DEF IndInv
  <1>2. /\ dir' \in DirType /\ disk' \subseteq DirType /\ faults' \in 0..MaxFaults
        /\ CtlOK'
        /\ \/ HolderHasEvidence'
           \/ dir' = d /\ disk' = disk \cup {d} /\ Proceed(p, label)
    BY <1>1, SyscallHolds
  <1>3. DataOK'
    BY <1>1, <1>2 DEF DataOK
  <1>4. dir' = d /\ disk' = disk \cup {d} /\ Proceed(p, label) => HolderHasEvidence'
    BY <1>1, <1>2, ProceedHolds
  <1>5. QED
    BY <1>2, <1>3, <1>4, TypePartsNext DEF IndInv

\* A failing step that changes nothing but history.
LEMMA FailStep ==
  ASSUME IndInv, NEW p \in Procs, pc[p] # "idle", Fail(p),
         UNCHANGED <<dir, disk, txns, crashes, effects>>,
         hist' \in HistType, hdisk' \subseteq HistType,
         faults' = faults \/ (faults < MaxFaults /\ faults' = faults + 1)
  PROVE  IndInv'
  <1>1. CtlOK /\ DataOK /\ HolderHasEvidence /\ TypeOK
    BY TypeParts DEF IndInv
  <1>2. pc[p] \in Preparing => dir'["decision"] = Nil
    BY <1>1 DEF HolderHasEvidence, Holder
  <1>3. CtlOK' /\ HolderHasEvidence'
    BY <1>1, <1>2, FailHolds
  <1>4. DataOK'
    BY <1>1, ConstantsAssumption DEF DataOK
  <1>5. QED
    BY <1>3, <1>4, TypePartsNext DEF IndInv

\* A step that moves on and changes nothing but history.
LEMMA ProceedStep ==
  ASSUME IndInv, NEW p \in Procs, pc[p] # "idle", NEW label \in Labels,
         Proceed(p, label), UNCHANGED <<dir, disk, txns, faults, crashes, effects>>,
         hist' \in HistType, hdisk' \subseteq HistType,
         pc'[p] = label => Holder(p)'
  PROVE  IndInv'
  <1>1. CtlOK /\ DataOK /\ HolderHasEvidence /\ TypeOK
    BY TypeParts DEF IndInv
  <1>2. CtlOK' /\ HolderHasEvidence'
    BY <1>1, ProceedHolds
  <1>3. DataOK'
    BY <1>1 DEF DataOK
  <1>4. QED
    BY <1>2, <1>3, TypePartsNext DEF IndInv

\* The evidence of a process that is about to take a step.
LEMMA AtHolder ==
  ASSUME IndInv, NEW p \in Procs, pc[p] # "idle"
  PROVE  /\ Holder(p) /\ lock = p
         /\ CtlOK /\ DataOK
         /\ dir \in DirType /\ disk \subseteq DirType
         /\ hist \in HistType /\ hdisk \subseteq HistType
         /\ effects \subseteq Ids
  BY TypeParts DEF IndInv, HolderHasEvidence, DataOK

LEMMA LockSyncHolds ==
  ASSUME IndInv, NEW p \in Procs, LockSync(p)
  PROVE  IndInv'
  <1>1. pc[p] = "lockSync" /\ Holder(p)
    BY AtHolder DEF LockSync, At
  <1>2. dir' = dir /\ disk' = {dir} /\ Proceed(p, "recover") /\ pc'[p] = "recover" => Holder(p)'
    BY <1>1 DEF Holder, Proceed, Preparing, Effecting
  <1>3. QED
    BY <1>1, <1>2, SyncStep DEF LockSync, Labels, Preparing, Settling

LEMMA StageSyncHolds ==
  ASSUME IndInv, NEW p \in Procs, StageSync(p)
  PROVE  IndInv'
  <1>1. pc[p] = "stageSync" /\ Holder(p)
    BY AtHolder DEF StageSync, At
  <1>2. dir' = dir /\ disk' = {dir} /\ Proceed(p, "witness") /\ pc'[p] = "witness" => Holder(p)'
    BY <1>1 DEF Holder, Proceed, Preparing, Effecting
  <1>3. QED
    BY <1>1, <1>2, SyncStep DEF StageSync, Labels, Preparing, Settling

LEMMA PlanSyncHolds ==
  ASSUME IndInv, NEW p \in Procs, PlanSync(p)
  PROVE  IndInv'
  <1>1. pc[p] = "planSync" /\ Holder(p)
    BY AtHolder DEF PlanSync, At
  <1>2. dir' = dir /\ disk' = {dir} /\ Proceed(p, "recheck") /\ pc'[p] = "recheck" => Holder(p)'
    BY <1>1 DEF Holder, Proceed, Preparing, Effecting
  <1>3. QED
    BY <1>1, <1>2, SyncStep DEF PlanSync, Labels, Preparing, Settling

LEMMA DecisionSyncHolds ==
  ASSUME IndInv, NEW p \in Procs, DecisionSync(p)
  PROVE  IndInv'
  <1>1. pc[p] = "decisionSync" /\ Holder(p)
    BY AtHolder DEF DecisionSync, At
  <1>2. dir' = dir /\ disk' = {dir} /\ Proceed(p, "finish") /\ pc'[p] = "finish" => Holder(p)'
    BY <1>1 DEF Holder, Proceed, Preparing, Effecting
  <1>3. QED
    BY <1>1, <1>2, SyncStep DEF DecisionSync, Labels, Preparing, Settling

LEMMA DeleteSyncHolds ==
  ASSUME IndInv, NEW p \in Procs, DeleteSync(p)
  PROVE  IndInv'
  <1>1. pc[p] = "deleteSync" /\ Holder(p)
    BY AtHolder DEF DeleteSync, At
  <1>2. dir' = dir /\ disk' = {dir} /\ Proceed(p, "historyCommit") /\ pc'[p] = "historyCommit" => Holder(p)'
    BY <1>1 DEF Holder, Proceed, Preparing, Effecting
  <1>3. QED
    BY <1>1, <1>2, SyncStep DEF DeleteSync, Labels, Preparing, Settling

LEMMA CleanupSyncHolds ==
  ASSUME IndInv, NEW p \in Procs, CleanupSync(p)
  PROVE  IndInv'
  <1>1. pc[p] = "cleanupSync" /\ Holder(p)
    BY AtHolder DEF CleanupSync, At
  <1>2. dir' = dir /\ disk' = {dir} /\ Proceed(p, "cleanup") /\ pc'[p] = "cleanup" => Holder(p)'
    BY <1>1 DEF Holder, Proceed, Preparing, Effecting
  <1>3. QED
    BY <1>1, <1>2, SyncStep DEF CleanupSync, Labels, Preparing, Settling

LEMMA PublishSyncHolds ==
  ASSUME IndInv, NEW p \in Procs, PublishSync(p)
  PROVE  IndInv'
  <1>1. pc[p] = "publishSync" /\ Holder(p)
    BY AtHolder DEF PublishSync, At
  <1>2. PICK label \in {"delete", "historyCommit"} : label = afterPublish(mem[p])
    BY DEF afterPublish
  <1>3. dir' = dir /\ disk' = {dir} /\ Proceed(p, label) /\ pc'[p] = label => Holder(p)'
    BY <1>1 DEF Holder, Proceed, Preparing, Effecting
  <1>4. QED
    BY <1>1, <1>2, <1>3, SyncStep DEF PublishSync, Labels, Settling

LEMMA StageCreateHolds ==
  ASSUME IndInv, NEW p \in Procs, StageCreate(p)
  PROVE  IndInv'
  <1>1. pc[p] = "stageCreate" /\ Holder(p) /\ dir \in DirType /\ effects \subseteq Ids
    BY AtHolder DEF StageCreate, At
  <1> DEFINE d == [dir EXCEPT !["stage"] = [ino |-> req[p].id, body |-> Short]]
  <1>2. [ino |-> req[p].id, body |-> Short] \in Object
    BY <1>1 DEF Holder, Preparing, Request, Object
  <1>3. d \in DirType /\ \A m \in MetaLeaf : d[m] = dir[m]
    BY <1>1, <1>2, PutDoc DEF DocLeaf
  <1>4. dir' = d /\ disk' = disk \cup {d} /\ Proceed(p, "stageWrite") /\ pc'[p] = "stageWrite"
        => Holder(p)'
    BY <1>1, <1>2, <1>3 DEF Holder, Proceed, Preparing, Effecting, MetaLeaf
  <1>5. pc[p] \in Preparing => d["decision"] = Nil
    BY <1>1, <1>3 DEF Holder, MetaLeaf, Preparing
  <1> HIDE DEF d
  <1>6. Syscall(p, d, "stageWrite") /\ UNCHANGED <<hist, hdisk, txns, crashes, effects>>
    BY DEF StageCreate, d
  <1>7. QED
    BY <1>1, <1>3, <1>4, <1>5, <1>6, SyscallStep DEF Labels, Preparing, Settling

LEMMA StageWriteHolds ==
  ASSUME IndInv, NEW p \in Procs, StageWrite(p)
  PROVE  IndInv'
  <1>1. pc[p] = "stageWrite" /\ Holder(p) /\ dir \in DirType /\ effects \subseteq Ids
    BY AtHolder DEF StageWrite, At
  <1> DEFINE d == [dir EXCEPT !["stage"] = staged(p)]
  <1>2. staged(p) \in Object
    BY <1>1 DEF Holder, Preparing, Request, Object, Change, staged
  <1>3. d \in DirType /\ \A m \in MetaLeaf : d[m] = dir[m]
    BY <1>1, <1>2, PutDoc DEF DocLeaf
  <1>4. dir' = d /\ disk' = disk \cup {d} /\ Proceed(p, "stageSync") /\ pc'[p] = "stageSync"
        => Holder(p)'
    BY <1>1, <1>2, <1>3 DEF Holder, Proceed, Preparing, Effecting, MetaLeaf
  <1>5. pc[p] \in Preparing => d["decision"] = Nil
    BY <1>1, <1>3 DEF Holder, MetaLeaf, Preparing
  <1> HIDE DEF d
  <1>6. Syscall(p, d, "stageSync") /\ UNCHANGED <<hist, hdisk, txns, crashes, effects>>
    BY DEF StageWrite, d
  <1>7. QED
    BY <1>1, <1>3, <1>4, <1>5, <1>6, SyscallStep DEF Labels, Preparing, Settling

LEMMA PendingWriteHolds ==
  ASSUME IndInv, NEW p \in Procs, PendingWrite(p)
  PROVE  IndInv'
  <1>1. pc[p] = "pendingWrite" /\ Holder(p) /\ dir \in DirType /\ effects \subseteq Ids
    BY AtHolder DEF PendingWrite, At
  <1> DEFINE d == [dir EXCEPT !["pending"] = newPlan(p)]
  <1>2. newPlan(p) \in Plan
    BY <1>1 DEF Holder, Preparing, Request, Plan, Change, newPlan, DirType, DocLeaf
  <1>3. d \in DirType /\ \A m \in MetaLeaf : d[m] = IF m = "pending" THEN newPlan(p) ELSE dir[m]
    BY <1>1, <1>2, PutMeta DEF MetaLeaf
  <1>4. dir' = d /\ disk' = disk \cup {d} /\ Proceed(p, "planPublish") /\ pc'[p] = "planPublish"
        => Holder(p)'
    BY <1>1, <1>2, <1>3 DEF Holder, Proceed, Preparing, Effecting, MetaLeaf
  <1>5. pc[p] \in Preparing => d["decision"] = Nil
    BY <1>1, <1>3 DEF Holder, MetaLeaf, Preparing
  <1> HIDE DEF d
  <1>6. Syscall(p, d, "planPublish") /\ UNCHANGED <<hist, hdisk, txns, crashes, effects>>
    BY DEF PendingWrite, d
  <1>7. QED
    BY <1>1, <1>3, <1>4, <1>5, <1>6, SyscallStep DEF Labels, Preparing, Settling

LEMMA DecideHolds ==
  ASSUME IndInv, NEW p \in Procs, Decide(p)
  PROVE  IndInv'
  <1>1. pc[p] = "decide" /\ Holder(p) /\ dir \in DirType /\ effects \subseteq Ids
    BY AtHolder DEF Decide, At
  <1> DEFINE d == [dir EXCEPT !["decision"] = dir["plan"]]
  <1>2. dir["plan"] \in Plan
    BY <1>1 DEF Holder
  <1>3. d \in DirType /\ \A m \in MetaLeaf : d[m] = IF m = "decision" THEN dir["plan"] ELSE dir[m]
    BY <1>1, <1>2, PutMeta DEF MetaLeaf
  <1>4. dir' = d /\ disk' = disk \cup {d} /\ Proceed(p, "decisionSync") /\ pc'[p] = "decisionSync"
        => Holder(p)'
    BY <1>1, <1>2, <1>3 DEF Holder, Proceed, Preparing, Effecting, MetaLeaf
  <1>5. pc[p] \in Preparing => d["decision"] = Nil
    BY <1>1, <1>3 DEF Holder, MetaLeaf, Preparing
  <1> HIDE DEF d
  <1>6. Syscall(p, d, "decisionSync") /\ UNCHANGED <<hist, hdisk, txns, crashes, effects>>
    BY DEF Decide, d
  <1>7. QED
    BY <1>1, <1>3, <1>4, <1>5, <1>6, SyscallStep DEF Labels, Preparing, Settling

LEMMA SwapLinkHolds ==
  ASSUME IndInv, NEW p \in Procs, SwapLink(p)
  PROVE  IndInv'
  <1>1. pc[p] = "swapLink" /\ Holder(p) /\ dir \in DirType /\ effects \subseteq Ids
    BY AtHolder DEF SwapLink, At
  <1> DEFINE d == [dir EXCEPT !["swap"] = dir["stage"]]
  <1>2. dir["stage"] \in Object \cup {Nil}
    BY <1>1 DEF DirType, DocLeaf
  <1>3. d \in DirType /\ \A m \in MetaLeaf : d[m] = dir[m]
    BY <1>1, <1>2, PutDoc DEF DocLeaf
  <1>4. dir' = d /\ disk' = disk \cup {d} /\ Proceed(p, "publish") /\ pc'[p] = "publish"
        => Holder(p)'
    BY <1>1, <1>2, <1>3 DEF Holder, Proceed, Preparing, Effecting, MetaLeaf
  <1>5. pc[p] \in Preparing => d["decision"] = Nil
    BY <1>1, <1>3 DEF Holder, MetaLeaf, Preparing
  <1> HIDE DEF d
  <1>6. Syscall(p, d, "publish") /\ UNCHANGED <<hist, hdisk, txns, crashes, effects>>
    BY DEF SwapLink, d
  <1>7. QED
    BY <1>1, <1>3, <1>4, <1>5, <1>6, SyscallStep DEF Labels, Preparing, Settling

LEMMA CompletePublishHolds ==
  ASSUME IndInv, NEW p \in Procs, CompletePublish(p)
  PROVE  IndInv'
  <1>1. pc[p] = "completePublish" /\ Holder(p) /\ dir \in DirType /\ effects \subseteq Ids
    BY AtHolder DEF CompletePublish, At
  <1> DEFINE d == [dir EXCEPT !["complete"] = dir["plan"]]
  <1>2. dir["plan"] \in Plan \cup Unwritten \cup {Nil}
    BY <1>1 DEF DirType, MetaLeaf
  <1>3. d \in DirType /\ \A m \in MetaLeaf : d[m] = IF m = "complete" THEN dir["plan"] ELSE dir[m]
    BY <1>1, <1>2, PutMeta DEF MetaLeaf
  <1>4. dir' = d /\ disk' = disk \cup {d} /\ Proceed(p, "completeSync") /\ pc'[p] = "completeSync"
        => Holder(p)'
    BY <1>1, <1>2, <1>3 DEF Holder, Proceed, Preparing, Effecting, MetaLeaf
  <1>5. pc[p] \in Preparing => d["decision"] = Nil
    BY <1>1, <1>3 DEF Holder, MetaLeaf, Preparing
  <1> HIDE DEF d
  <1>6. Syscall(p, d, "completeSync") /\ UNCHANGED <<hist, hdisk, txns, crashes, effects>>
    BY DEF CompletePublish, d
  <1>7. QED
    BY <1>1, <1>3, <1>4, <1>5, <1>6, SyscallStep DEF Labels, Preparing, Settling

LEMMA PendingCreateHolds ==
  ASSUME IndInv, NEW p \in Procs, PendingCreate(p)
  PROVE  IndInv'
  <1>1. /\ pc[p] = "pendingCreate" /\ Holder(p) /\ dir \in DirType
        /\ effects \subseteq Ids
    BY AtHolder DEF PendingCreate, At
  <1>2. PICK b \in PendingCuts :
          Syscall(p, [dir EXCEPT !["pending"] = b], "pendingWrite")
    BY DEF PendingCreate
  <1> DEFINE d == [dir EXCEPT !["pending"] = b]
  <1>3. d \in DirType /\ d["decision"] = dir["decision"]
    BY <1>1, ConstantsAssumption, PutMeta DEF MetaLeaf, Unwritten
  <1>4. dir' = d /\ disk' = disk \cup {d} /\ Proceed(p, "pendingWrite")
          /\ pc'[p] = "pendingWrite" => Holder(p)'
    BY <1>1, <1>3 DEF Holder, Proceed, Preparing, Effecting
  <1>5. pc[p] \in Preparing => d["decision"] = Nil
    BY <1>1, <1>3 DEF Holder, Preparing
  <1> HIDE DEF d
  <1>6. Syscall(p, d, "pendingWrite") /\ UNCHANGED <<hist, hdisk, txns, crashes, effects>>
    BY <1>2 DEF PendingCreate, d
  <1>7. QED
    BY <1>1, <1>3, <1>4, <1>5, <1>6, SyscallStep DEF Labels, Preparing

\* A rename is two writes.
LEMMA PlanPublishHolds ==
  ASSUME IndInv, NEW p \in Procs, PlanPublish(p)
  PROVE  IndInv'
  <1>1. /\ pc[p] = "planPublish" /\ Holder(p) /\ dir \in DirType
        /\ effects \subseteq Ids
    BY AtHolder DEF PlanPublish, At
  <1> DEFINE d == [dir EXCEPT !["pending"] = Nil, !["plan"] = dir["pending"]]
  <1>2. dir["pending"] \in Plan
    BY <1>1 DEF Holder
  <1>3. d \in DirType /\ d["decision"] = dir["decision"] /\ d["plan"] = dir["pending"]
    BY <1>1, <1>2, ConstantsAssumption DEF DirType, DocLeaf, MetaLeaf, Leaf
  <1>4. dir' = d /\ disk' = disk \cup {d} /\ Proceed(p, "planSync")
          /\ pc'[p] = "planSync" => Holder(p)'
    BY <1>1, <1>2, <1>3 DEF Holder, Proceed, Preparing, Effecting
  <1>5. pc[p] \in Preparing => d["decision"] = Nil
    BY <1>1, <1>3 DEF Holder, Preparing
  <1> HIDE DEF d
  <1>6. Syscall(p, d, "planSync") /\ UNCHANGED <<hist, hdisk, txns, crashes, effects>>
    BY DEF PlanPublish, d
  <1>7. QED
    BY <1>1, <1>3, <1>4, <1>5, <1>6, SyscallStep DEF Labels, Preparing

LEMMA CheckHolds ==
  ASSUME IndInv, NEW p \in Procs, Check(p)
  PROVE  IndInv'
  <1>1. /\ pc[p] = "check" /\ Holder(p)
        /\ hist \in HistType /\ hdisk \subseteq HistType
    BY AtHolder DEF Check, At
  <1>2. CASE Proceed(p, firstStep(req[p].c)) /\ UNCHANGED faults
    <2>1. PICK label \in {"witness", "stageCreate"} :
            /\ label = firstStep(req[p].c)
            /\ label = "stageCreate" => req[p].c.op # "delete"
      BY DEF firstStep
    <2>2. pc'[p] = label => Holder(p)'
      BY <1>1, <1>2, <2>1 DEF Holder, Proceed, Preparing, Effecting, Check
    <2>3. QED
      BY <1>1, <1>2, <2>1, <2>2, ProceedStep DEF Check, Labels, Preparing
  <1>3. CASE Fail(p) /\ (UNCHANGED faults \/ (faults < MaxFaults /\ faults' = faults + 1))
    BY <1>1, <1>3, FailStep DEF Check
  <1>4. QED
    BY <1>2, <1>3 DEF Check

LEMMA RecheckHolds ==
  ASSUME IndInv, NEW p \in Procs, Recheck(p)
  PROVE  IndInv'
  <1>1. /\ pc[p] = "recheck" /\ Holder(p)
        /\ hist \in HistType /\ hdisk \subseteq HistType
    BY AtHolder DEF Recheck, At
  <1>2. CASE Proceed(p, "validate") /\ UNCHANGED faults
    <2>1. pc'[p] = "validate" => Holder(p)'
      BY <1>1, <1>2 DEF Holder, Proceed, Preparing, Effecting, Recheck
    <2>2. QED
      BY <1>1, <1>2, <2>1, ProceedStep DEF Recheck, Labels
  <1>3. CASE Fail(p) /\ (UNCHANGED faults \/ (faults < MaxFaults /\ faults' = faults + 1))
    BY <1>1, <1>3, FailStep DEF Recheck
  <1>4. QED
    BY <1>2, <1>3 DEF Recheck

\* Changing the witness of the request keeps the history a history.
LEMMA WitnessedType ==
  ASSUME hist \in HistType, NEW p \in Procs, req[p] \in Request, NEW w \in Witness
  PROVE  witnessed(p, w) \in HistType
  BY DEF HistType, witnessed, Request

LEMMA HistoryPrepareHolds ==
  ASSUME IndInv, NEW p \in Procs, HistoryPrepare(p)
  PROVE  IndInv'
  <1>1. /\ pc[p] = "witness" /\ Holder(p)
        /\ hist \in HistType /\ hdisk \subseteq HistType
    BY AtHolder DEF HistoryPrepare, At
  <1>2. \A w \in {"none", "partial"} : witnessed(p, w) \in HistType
    BY <1>1, WitnessedType DEF Holder, Preparing, Witness
  <1>3. hist' \in HistType /\ hdisk' \subseteq HistType
    BY <1>1, <1>2 DEF HistoryPrepare
  <1>4. CASE Proceed(p, "witnessReady") /\ UNCHANGED faults
    <2>1. pc'[p] = "witnessReady" => Holder(p)'
      BY <1>1, <1>4 DEF Holder, Proceed, Preparing, Effecting, HistoryPrepare
    <2>2. QED
      BY <1>1, <1>3, <1>4, <2>1, ProceedStep DEF HistoryPrepare, Labels, Preparing
  <1>5. CASE Fail(p) /\ (UNCHANGED faults \/ (faults < MaxFaults /\ faults' = faults + 1))
    BY <1>1, <1>3, <1>5, FailStep DEF HistoryPrepare
  <1>6. QED
    BY <1>4, <1>5 DEF HistoryPrepare

LEMMA HistoryReadyHolds ==
  ASSUME IndInv, NEW p \in Procs, HistoryReady(p)
  PROVE  IndInv'
  <1>1. /\ pc[p] = "witnessReady" /\ Holder(p)
        /\ hist \in HistType /\ hdisk \subseteq HistType
    BY AtHolder DEF HistoryReady, At
  <1>2. \A w \in Witness : witnessed(p, w) \in HistType
    BY <1>1, WitnessedType DEF Holder, Preparing
  <1>3. hist' \in HistType /\ hdisk' \subseteq HistType
    BY <1>1, <1>2 DEF HistoryReady, Witness
  <1>4. CASE Proceed(p, "pendingCreate") /\ UNCHANGED faults
    <2>1. pc'[p] = "pendingCreate" => Holder(p)'
      BY <1>1, <1>4 DEF Holder, Proceed, Preparing, Effecting, HistoryReady
    <2>2. QED
      BY <1>1, <1>3, <1>4, <2>1, ProceedStep DEF HistoryReady, Labels, Preparing
  <1>5. CASE Fail(p) /\ faults < MaxFaults /\ faults' = faults + 1
    BY <1>1, <1>3, <1>5, FailStep DEF HistoryReady
  <1>6. QED
    BY <1>4, <1>5 DEF HistoryReady

LEMMA FinishHolds ==
  ASSUME IndInv, NEW p \in Procs, Finish(p)
  PROVE  IndInv'
  <1>1. /\ pc[p] = "finish" /\ Holder(p)
        /\ hist \in HistType /\ hdisk \subseteq HistType
    BY AtHolder DEF Finish, At
  <1>2. resume(mem[p]) \in {"refuse", "delete", "publishSync", "swapLink", "publish"}
    BY DEF resume
  <1>3. CASE resume(mem[p]) = "refuse"
    BY <1>1, <1>3, FailStep DEF Finish
  <1>4. CASE resume(mem[p]) # "refuse"
    <2>1. PICK label \in {"delete", "publishSync", "swapLink", "publish"} :
            label = resume(mem[p])
      BY <1>2, <1>4
    <2>2. pc'[p] = label => Holder(p)'
      BY <1>1, <1>4, <2>1 DEF Holder, Proceed, Preparing, Effecting, Finish
    <2>3. QED
      BY <1>1, <1>4, <2>1, <2>2, ProceedStep DEF Finish, Labels, Settling
  <1>5. QED
    BY <1>3, <1>4

\* What an interrupted commit leaves is a history with the same witnesses.
LEMMA PartwayFacts ==
  ASSUME hist \in HistType, NEW p \in Procs, mem[p] \in Plan,
         NEW e \in {hist.events, hist.events \cup {mem[p].id}}, NEW b \in BOOLEAN,
         NEW g, g = [hist EXCEPT !.events = e, !.refuses = b]
  PROVE  /\ g \in HistType /\ g.wit = hist.wit
         /\ g.events \in {hist.events, hist.events \cup {mem[p].id}}
  <1>2. hist = [wit |-> hist.wit, events |-> hist.events, refuses |-> hist.refuses]
        /\ hist.wit \in [Ids -> Witness] /\ hist.events \subseteq Ids /\ mem[p].id \in Ids
    BY DEF HistType, Plan
  <1>3. g = [wit |-> hist.wit, events |-> e, refuses |-> b] /\ e \subseteq Ids
    BY <1>2
  <1>4. QED
    BY <1>2, <1>3 DEF HistType

LEMMA HistoryCommitHolds ==
  ASSUME IndInv, NEW p \in Procs, HistoryCommit(p)
  PROVE  IndInv'
  <1>1. /\ pc[p] = "historyCommit" /\ Holder(p)
        /\ hist \in HistType /\ hdisk \subseteq HistType
    BY AtHolder DEF HistoryCommit, At
  <1>2. \A e \in {hist.events, hist.events \cup {mem[p].id}}, b \in BOOLEAN :
           [hist EXCEPT !.events = e, !.refuses = b] \in HistType
    BY <1>1, PartwayFacts DEF Holder, Effecting
  <1>3. hist' \in HistType /\ hdisk' \subseteq HistType
    BY <1>1, <1>2 DEF HistoryCommit
  <1>4. CASE Proceed(p, "historyBind") /\ UNCHANGED faults
    <2>1. pc'[p] = "historyBind" => Holder(p)'
      BY <1>1, <1>4 DEF Holder, Proceed, Preparing, Effecting, HistoryCommit
    <2>2. QED
      BY <1>1, <1>3, <1>4, <2>1, ProceedStep DEF HistoryCommit, Labels, Settling
  <1>5. CASE Fail(p) /\ (UNCHANGED faults \/ (faults < MaxFaults /\ faults' = faults + 1))
    BY <1>1, <1>3, <1>5, FailStep DEF HistoryCommit
  <1>6. QED
    BY <1>4, <1>5 DEF HistoryCommit

LEMMA HistoryBindHolds ==
  ASSUME IndInv, NEW p \in Procs, HistoryBind(p)
  PROVE  IndInv'
  <1>1. /\ pc[p] = "historyBind" /\ Holder(p)
        /\ hist \in HistType /\ hdisk \subseteq HistType
    BY AtHolder DEF HistoryBind, At
  <1> DEFINE h == [hist EXCEPT !.events = @ \cup {mem[p].id}, !.refuses = FALSE]
  <1>2. h \in HistType
    BY <1>1 DEF HistType, Holder, Effecting, Plan
  <1>3. hist' \in HistType /\ hdisk' \subseteq HistType
    BY <1>1, <1>2 DEF HistoryBind, HistoryCall
  <1>4. CASE Proceed(p, "completePublish") /\ UNCHANGED faults
    <2>1. pc'[p] = "completePublish" => Holder(p)'
      BY <1>1, <1>4 DEF Holder, Proceed, Preparing, Effecting, HistoryBind
    <2>2. QED
      BY <1>1, <1>3, <1>4, <2>1, ProceedStep DEF HistoryBind, Labels, Settling
  <1>5. CASE Fail(p) /\ (UNCHANGED faults \/ (faults < MaxFaults /\ faults' = faults + 1))
    BY <1>1, <1>3, <1>5, FailStep DEF HistoryBind
  <1>6. QED
    BY <1>4, <1>5 DEF HistoryBind, HistoryCall

\* Changing public names, or the swap leaf, leaves the records alone.
LEMMA PublishedType ==
  ASSUME dir \in DirType, NEW pl \in Plan
  PROVE  published(pl) \in DirType /\ published(pl)["decision"] = dir["decision"]
  <1>1. dir["swap"] \in Object \cup {Nil} /\ dir["stage"] \in Object \cup {Nil}
    BY DEF DirType, DocLeaf
  <1>2. pl.src \in Names \cup {Nil} /\ pl.dst \in Names \cup {Nil}
    BY DEF Plan
  <1>3. /\ \A l \in DocLeaf : dir[l] \in Object \cup {Nil}
        /\ \A l \in MetaLeaf : dir[l] \in Plan \cup Unwritten \cup {Nil}
        /\ dir \in [Leaf -> Object \cup Plan \cup Unwritten \cup {Nil}]
    BY DEF DirType
  <1>4. "swap" \notin Names /\ "swap" \notin MetaLeaf /\ "swap" \in DocLeaf /\ "decision" \in MetaLeaf
        /\ MetaLeaf \cap Names = {} /\ Names \subseteq DocLeaf /\ Leaf = DocLeaf \cup MetaLeaf
    BY ConstantsAssumption DEF DocLeaf, MetaLeaf, Leaf
  <1>5. CASE pl.op = "replace"
    <2>1. published(pl) = [dir EXCEPT ![pl.src] = dir["swap"], !["swap"] = Nil]
      BY <1>5 DEF published
    <2>2. /\ published(pl) = [l \in Leaf |-> published(pl)[l]]
          /\ \A l \in Leaf : published(pl)[l] = 
                IF l = "swap" THEN Nil ELSE IF l = pl.src THEN dir["swap"] ELSE dir[l]
      BY ONLY <1>3, <2>1
    <2>3. \A l \in DocLeaf : published(pl)[l] \in Object \cup {Nil}
      BY ONLY <1>1, <1>3, <1>4, <2>2
    <2>4. \A l \in MetaLeaf : published(pl)[l] = dir[l]
      BY <1>2, <1>4, <2>2, ConstantsAssumption DEF MetaLeaf
    <2>5. QED
      BY <1>3, <1>4, <2>2, <2>3, <2>4 DEF DirType
  <1>6. CASE pl.op # "replace"
    <2>1. published(pl) = [dir EXCEPT ![pl.dst] = dir["stage"]]
      BY <1>6 DEF published
    <2>2. /\ published(pl) = [l \in Leaf |-> published(pl)[l]]
          /\ \A l \in Leaf : published(pl)[l] = IF l = pl.dst THEN dir["stage"] ELSE dir[l]
      BY ONLY <1>3, <2>1
    <2>3. \A l \in DocLeaf : published(pl)[l] \in Object \cup {Nil}
      BY ONLY <1>1, <1>3, <1>4, <2>2
    <2>4. \A l \in MetaLeaf : published(pl)[l] = dir[l]
      BY <1>2, <1>4, <2>2, ConstantsAssumption DEF MetaLeaf
    <2>5. QED
      BY <1>3, <1>4, <2>2, <2>3, <2>4 DEF DirType
  <1>7. QED
    BY <1>5, <1>6

LEMMA PublishHolds ==
  ASSUME IndInv, NEW p \in Procs, Publish(p)
  PROVE  IndInv'
  <1>1. /\ pc[p] = "publish" /\ Holder(p) /\ dir \in DirType /\ effects \subseteq Ids
        /\ hist \in HistType /\ hdisk \subseteq HistType
    BY AtHolder DEF Publish, At
  <1>2. mem[p] \in Plan /\ dir["decision"] = mem[p] /\ \A e \in disk : e["decision"] = mem[p]
    BY <1>1 DEF Holder, Effecting
  <1>3. CASE Fail(p) /\ UNCHANGED <<dir, disk, faults, effects>>
    BY <1>1, <1>3, FailStep DEF Publish
  <1>4. CASE /\ Syscall(p, published(mem[p]), "publishSync")
             /\ effects' = IF dir' = dir THEN effects ELSE effects \cup {mem[p].id}
    <2> DEFINE d == published(mem[p])
    <2>1. d \in DirType /\ d["decision"] = dir["decision"]
      BY <1>1, <1>2, PublishedType
    <2>2. effects' \subseteq Ids
      BY <1>1, <1>2, <1>4 DEF Plan
    <2> HIDE DEF d
    <2>3. dir' = d /\ disk' = disk \cup {d} /\ Proceed(p, "publishSync")
            /\ pc'[p] = "publishSync" => Holder(p)'
      BY <1>1, <1>2, <2>1 DEF Holder, Proceed, Preparing, Effecting
    <2>4. Syscall(p, d, "publishSync") /\ UNCHANGED <<hist, hdisk, txns, crashes>>
      BY <1>4 DEF Publish, d
    <2>5. pc[p] \notin Preparing /\ "publishSync" \in Labels
      BY <1>1 DEF Preparing, Labels, Settling
    <2>6. QED
      BY <1>1, <2>1, <2>2, <2>3, <2>4, <2>5, SyscallStep
  <1>5. QED
    BY <1>3, <1>4 DEF Publish

LEMMA DeleteHolds ==
  ASSUME IndInv, NEW p \in Procs, Delete(p)
  PROVE  IndInv'
  <1>1. /\ pc[p] = "delete" /\ Holder(p) /\ dir \in DirType /\ effects \subseteq Ids
        /\ hist \in HistType /\ hdisk \subseteq HistType
    BY AtHolder DEF Delete, At
  <1>2. mem[p] \in Plan /\ dir["decision"] = mem[p] /\ \A e \in disk : e["decision"] = mem[p]
    BY <1>1 DEF Holder, Effecting
  <1>3. CASE Fail(p) /\ UNCHANGED <<dir, disk, faults, effects>>
    BY <1>1, <1>3, FailStep DEF Delete
  <1>4. CASE /\ Syscall(p, [dir EXCEPT ![mem[p].src] = Nil], "deleteSync")
             /\ effects' = IF dir' = dir THEN effects ELSE effects \cup {mem[p].id}
    <2> DEFINE d == [dir EXCEPT ![mem[p].src] = Nil]
    <2>1. d \in DirType /\ d["decision"] = dir["decision"]
      <3>1. mem[p].src \in Names \cup {Nil}
        BY <1>2 DEF Plan
      <3>2. QED
        BY <1>1, <3>1, ConstantsAssumption DEF DirType, DocLeaf, MetaLeaf, Leaf
    <2>2. effects' \subseteq Ids
      BY <1>1, <1>2, <1>4 DEF Plan
    <2> HIDE DEF d
    <2>3. dir' = d /\ disk' = disk \cup {d} /\ Proceed(p, "deleteSync")
            /\ pc'[p] = "deleteSync" => Holder(p)'
      BY <1>1, <1>2, <2>1 DEF Holder, Proceed, Preparing, Effecting
    <2>4. Syscall(p, d, "deleteSync") /\ UNCHANGED <<hist, hdisk, txns, crashes>>
      BY <1>4 DEF Delete, d
    <2>5. pc[p] \notin Preparing /\ "deleteSync" \in Labels
      BY <1>1 DEF Preparing, Labels, Settling
    <2>6. QED
      BY <1>1, <2>1, <2>2, <2>3, <2>4, <2>5, SyscallStep
  <1>5. QED
    BY <1>3, <1>4 DEF Delete

LEMMA CleanupHolds ==
  ASSUME IndInv, NEW p \in Procs, Cleanup(p)
  PROVE  IndInv'
  <1>1. /\ pc[p] = "cleanup" /\ Holder(p) /\ dir \in DirType /\ effects \subseteq Ids
        /\ hist \in HistType /\ hdisk \subseteq HistType
    BY AtHolder DEF Cleanup, At
  <1>2. CASE artifacts(dir) = {}
    <2>1. pc'[p] = "historyAbort" => Holder(p)'
      BY <1>1, <1>2 DEF Holder, Proceed, Preparing, Effecting, Cleanup, artifacts
    <2>2. QED
      BY <1>1, <1>2, <2>1, ProceedStep DEF Cleanup, Labels, Settling
  <1>3. CASE artifacts(dir) # {}
    <2> DEFINE d == [dir EXCEPT ![nextRemoval(dir)] = Nil]
    <2>1. d \in DirType
      BY <1>1, RemoveLeaf
    <2> HIDE DEF d
    <2>2. dir' = d /\ disk' = disk \cup {d} /\ Proceed(p, "cleanupSync")
            /\ pc'[p] = "cleanupSync" => Holder(p)'
      BY <1>1 DEF Holder, Proceed, Preparing, Effecting
    <2>3. Syscall(p, d, "cleanupSync") /\ UNCHANGED <<hist, hdisk, txns, crashes, effects>>
      BY <1>3 DEF Cleanup, d
    <2>4. pc[p] \notin Preparing /\ "cleanupSync" \in Labels
      BY <1>1 DEF Preparing, Labels, Settling
    <2>5. QED
      BY <1>1, <2>1, <2>2, <2>3, <2>4, SyscallStep
  <1>4. QED
    BY <1>2, <1>3

LEMMA CompleteSyncHolds ==
  ASSUME IndInv, NEW p \in Procs, CompleteSync(p)
  PROVE  IndInv'
  <1>1. pc[p] \in {"completeSync", "completeRecoverySync"}
    BY DEF CompleteSync
  <1>2. /\ Holder(p) /\ lock = p /\ CtlOK /\ DataOK /\ HolderHasEvidence
        /\ pc[p] # "idle" /\ pc[p] \notin Preparing
    BY <1>1, AtHolder DEF IndInv, Preparing
  <1>3. DataOK'
    <2>1. /\ dir' = dir /\ disk' \in {disk, {dir}}
          /\ UNCHANGED <<hist, hdisk, txns, crashes, effects>>
          /\ faults' = faults \/ (faults < MaxFaults /\ faults' = faults + 1)
      BY DEF CompleteSync
    <2>2. QED
      BY <1>2, <2>1, ConstantsAssumption DEF DataOK
  <1>4. CASE Fail(p)
    BY <1>2, <1>3, <1>4, FailHolds, TypePartsNext DEF IndInv
  <1>5. CASE \E s \in States, r \in BOOLEAN : Return(p, s, r)
    BY <1>2, <1>3, <1>5, ReturnQuiet, TypePartsNext DEF IndInv
  <1>6. CASE /\ Goto(p, "cleanup")
             /\ out' = [out EXCEPT ![p] = "committed"]
             /\ UNCHANGED <<lock, mode, req, mem, verdict>>
    <2>1. CtlOK'
      BY <1>2, <1>6 DEF CtlOK, Goto, Labels, Settling, States
    <2>2. pc'[p] = "cleanup" /\ \A q \in Procs : q # p => pc'[q] = "idle"
      BY <1>2, <1>6 DEF Goto, CtlOK, HolderHasEvidence
    <2>3. Holder(p)'
      BY <1>2, <1>6, <2>2 DEF Holder, Preparing, Effecting
    <2>4. HolderHasEvidence'
      BY <1>2, <1>6, <2>2, <2>3 DEF HolderHasEvidence
    <2>5. QED
      BY <1>3, <2>1, <2>4, TypePartsNext DEF IndInv
  <1>7. QED
    BY <1>4, <1>5, <1>6 DEF CompleteSync, States

LEMMA HistoryAbortHolds ==
  ASSUME IndInv, NEW p \in Procs, HistoryAbort(p)
  PROVE  IndInv'
  <1>1. /\ pc[p] = "historyAbort" /\ Holder(p) /\ lock = p /\ CtlOK /\ DataOK
        /\ HolderHasEvidence /\ hist \in HistType /\ hdisk \subseteq HistType
    BY AtHolder DEF HistoryAbort, At, IndInv
  <1>2. [hist EXCEPT !.wit = [i \in Ids |-> "none"]] \in HistType
    BY <1>1 DEF HistType, Witness
  <1>3. hist' \in HistType /\ hdisk' \subseteq HistType
    BY <1>1, <1>2 DEF HistoryAbort
  <1>4. DataOK'
    BY <1>1, <1>3, ConstantsAssumption DEF HistoryAbort, DataOK
  <1>5. CASE Fail(p)
    <2>1. pc[p] \notin Preparing
      BY <1>1 DEF Preparing
    <2>2. QED
      BY <1>1, <1>4, <1>5, <2>1, FailHolds, TypePartsNext DEF IndInv
  <1>6. CASE Settled(p)
    <2>1. CASE mode[p] = "settle"
      <3>1. /\ pc'[p] = "check" /\ lock' = p
            /\ \A q \in Procs : q # p => pc'[q] = "idle"
        BY <1>1, <1>6, <2>1 DEF Settled, Goto, CtlOK, HolderHasEvidence
      <3>2. CtlOK'
        BY <1>1, <1>6, <2>1 DEF Settled, Goto, CtlOK, Labels, Preparing, States
      <3>3. dir'["decision"] = Nil
        BY <1>1 DEF Holder, artifacts, Artifact, MetaLeaf, HistoryAbort
      <3>4. Holder(p)'
        BY <1>1, <1>6, <2>1, <3>1, <3>3 DEF Holder, Settled, Preparing, Effecting
      <3>5. QED
        BY <1>4, <3>1, <3>2, <3>4, TypePartsNext DEF IndInv, HolderHasEvidence
    <2>2. CASE mode[p] # "settle"
      <3>1. PICK s \in States : Return(p, s, FALSE)
        BY <1>1, <1>6, <2>2 DEF Settled, CtlOK, States
      <3>2. QED
        BY <1>1, <1>4, <3>1, ReturnQuiet, TypePartsNext DEF IndInv
    <2>3. QED
      BY <2>1, <2>2
  <1>7. QED
    BY <1>5, <1>6 DEF HistoryAbort

LEMMA ValidateHolds ==
  ASSUME IndInv, NEW p \in Procs, Validate(p)
  PROVE  IndInv'
  <1>1. /\ pc[p] = "validate" /\ Holder(p) /\ lock = p /\ CtlOK /\ DataOK
        /\ HolderHasEvidence
    BY AtHolder DEF Validate, At, IndInv
  <1>2. DataOK'
    <2>1. /\ UNCHANGED <<dir, disk, hist, hdisk, txns, crashes, effects>>
          /\ faults' = faults \/ (faults < MaxFaults /\ faults' = faults + 1)
      BY DEF Validate
    <2>2. QED
      BY <1>1, <2>1, ConstantsAssumption DEF DataOK
  <1>3. CASE Return(p, "not_committed", TRUE)
    BY <1>1, <1>2, <1>3, ReturnQuiet, TypePartsNext DEF IndInv, States
  <1>4. CASE /\ Goto(p, "decide")
             /\ out' = [out EXCEPT ![p] = "unknown"]
             /\ mem' = [mem EXCEPT ![p] = dir["plan"]]
             /\ UNCHANGED <<lock, mode, req, verdict, faults>>
    <2>1. dir["plan"] \in Plan
      BY <1>1 DEF Holder
    <2>2. CtlOK'
      BY <1>1, <1>4, <2>1 DEF CtlOK, Goto, Labels, States
    <2>3. pc'[p] = "decide" /\ mem'[p] = dir["plan"]
          /\ \A q \in Procs : q # p => pc'[q] = "idle"
      BY <1>1, <1>4 DEF CtlOK, Goto, HolderHasEvidence
    <2>4. Holder(p)'
      BY <1>1, <1>4, <2>1, <2>3 DEF Holder, Validate, Preparing, Effecting
    <2>5. QED
      BY <1>1, <1>2, <1>4, <2>2, <2>3, <2>4, TypePartsNext DEF IndInv, HolderHasEvidence
  <1>5. QED
    BY <1>3, <1>4 DEF Validate

\* What recover learns from the class of a directory: a roll-forward works from
\* the published decision, and every other class from a decoded plan or none.
LEMMA ClassifyFacts ==
  ASSUME NEW d \in DirType, NEW h, classify(d, h) # "unsafe"
  PROVE  /\ classify(d, h) \in {"empty", "complete", "abort", "finish"}
         /\ classify(d, h) # "empty" => planOf(d) \in Plan \cup {Nil}
         /\ classify(d, h) = "empty" => artifacts(d) = {}
         /\ classify(d, h) = "finish" => planOf(d) = d["decision"] /\ d["decision"] \in Plan
  <1>1. classify(d, h) \in {"empty", "complete", "abort", "finish"}
    BY DEF classify
  <1>2. \A l \in MetaLeaf : d[l] \in Plan \cup Unwritten \cup {Nil}
    BY DEF DirType
  <1>3. record(d) \in Plan \cup Unwritten \cup {Nil}
    BY <1>2 DEF record, MetaLeaf
  <1>4. classify(d, h) # "empty" => recordSafe(d)
    BY DEF classify
  <1>5. classify(d, h) # "empty" => planOf(d) \in Plan \cup {Nil}
    BY <1>2, <1>3, <1>4 DEF recordSafe, planOf, decodes, MetaLeaf
  <1>6. classify(d, h) = "empty" => artifacts(d) = {}
    BY DEF classify
  <1>7. classify(d, h) = "finish" => d["complete"] = Nil /\ d["decision"] # Nil
    BY DEF classify
  <1>8. classify(d, h) = "finish" => planOf(d) = d["decision"] /\ d["decision"] \in Plan
    BY <1>3, <1>4, <1>7 DEF record, planOf, recordSafe, decodes
  <1>9. QED
    BY <1>1, <1>5, <1>6, <1>8

LEMMA RecoverScanHolds ==
  ASSUME IndInv, NEW p \in Procs, RecoverScan(p)
  PROVE  IndInv'
  <1> DEFINE kind == classify(dir, hist)
  <1>1. /\ pc[p] = "recover" /\ Holder(p) /\ lock = p /\ CtlOK /\ DataOK
        /\ HolderHasEvidence /\ dir \in DirType
    BY AtHolder DEF RecoverScan, At, IndInv
  <1>2. /\ UNCHANGED <<dir, disk, hist, hdisk, txns, crashes, effects>>
        /\ faults' = faults \/ (faults < MaxFaults /\ faults' = faults + 1)
    BY DEF RecoverScan
  <1>3. DataOK'
    BY <1>1, <1>2, ConstantsAssumption DEF DataOK
  <1>4. CASE Return(p, IF mode[p] = "recover" THEN "unknown" ELSE "not_committed", TRUE)
    <2>1. PICK s \in States : Return(p, s, TRUE)
      BY <1>4 DEF States
    <2>2. QED
      BY <1>1, <1>3, <2>1, ReturnQuiet, TypePartsNext DEF IndInv
  <1>5. CASE /\ kind # "unsafe"
             /\ Goto(p, path[kind])
             /\ mem' = [mem EXCEPT ![p] = IF kind = "empty" THEN Nil ELSE planOf(dir)]
             /\ out' = [out EXCEPT ![p] = IF kind \in {"empty", "abort"}
                                          THEN "not_committed" ELSE "unknown"]
             /\ UNCHANGED <<lock, mode, req, verdict, faults>>
    <2>1. /\ kind \in {"empty", "complete", "abort", "finish"}
          /\ kind # "empty" => planOf(dir) \in Plan \cup {Nil}
          /\ kind = "empty" => artifacts(dir) = {}
          /\ kind = "finish" => planOf(dir) = dir["decision"] /\ dir["decision"] \in Plan
      BY <1>1, <1>5, ClassifyFacts
    <2> HIDE DEF kind
    <2>2. /\ kind = "empty" => path[kind] = "historyAbort"
          /\ kind = "abort" => path[kind] = "cleanup"
          /\ kind = "complete" => path[kind] = "completeRecoverySync"
          /\ kind = "finish" => path[kind] = "finish"
      BY DEF path
    <2>3. path[kind] \in {"historyAbort", "cleanup", "completeRecoverySync", "finish"}
      BY <2>1, <2>2
    <2>4. CtlOK'
      <3>1. path[kind] \in Labels
        BY <2>3 DEF Labels, Settling
      <3>2. (IF kind = "empty" THEN Nil ELSE planOf(dir)) \in Plan \cup {Nil}
        BY <2>1
      <3>3. (IF kind \in {"empty", "abort"} THEN "not_committed" ELSE "unknown") \in States
        BY DEF States
      <3>4. QED
        BY <1>1, <1>5, <3>1, <3>2, <3>3 DEF CtlOK, Goto
    <2>5. /\ pc'[p] = path[kind] /\ \A q \in Procs : q # p => pc'[q] = "idle"
          /\ mem'[p] = IF kind = "empty" THEN Nil ELSE planOf(dir)
      BY <1>1, <1>5 DEF CtlOK, Goto, HolderHasEvidence
    <2>6. mode[p] = "abort" => kind # "finish"
      <3>1. mode[p] = "abort" => dir["decision"] = Nil
        BY <1>1 DEF Holder
      <3>2. kind = "finish" => dir["decision"] # Nil
        BY DEF kind, classify
      <3>3. QED
        BY <3>1, <3>2
    <2>7. CASE kind = "finish"
      <3>1. disk = {dir}
        BY <1>1, <2>6, <2>7 DEF Holder
      <3>2. QED
        <4>1. Holder(p)'
          BY <1>1, <1>2, <1>5, <2>1, <2>2, <2>5, <2>7, <3>1 DEF Holder, Preparing, Effecting
        <4>2. QED
          BY <1>1, <1>3, <1>5, <2>4, <2>5, <4>1, TypePartsNext DEF IndInv, HolderHasEvidence
    <2>8. CASE kind # "finish"
      <3>1. artifacts(dir) = artifacts(dir')
        BY <1>2
      <3>2. pc'[p] \in {"historyAbort", "cleanup", "completeRecoverySync"}
            /\ (pc'[p] = "historyAbort" => artifacts(dir') = {})
        BY <2>1, <2>2, <2>3, <2>5, <2>8, <3>1
      <3>3. Holder(p)'
        BY <1>1, <1>5, <3>2 DEF Holder, Preparing, Effecting
      <3>4. QED
        BY <1>1, <1>3, <1>5, <2>4, <2>5, <3>3, TypePartsNext DEF IndInv, HolderHasEvidence
    <2>9. QED
      BY <2>7, <2>8
  <1>6. QED
    BY <1>4, <1>5 DEF RecoverScan

-----------------------------------------------------------------------------
(* Death leaves every process idle. *)

LEMMA CrashHolds ==
  ASSUME IndInv, NEW p \in Procs, Crash(p)
  PROVE  IndInv'
  <1>1. CtlOK /\ DataOK /\ HolderHasEvidence
    BY TypeParts DEF IndInv
  <1>2. DataOK'
    BY <1>1, ConstantsAssumption DEF Crash, DataOK
  <1>3. CtlOK'
    BY <1>1 DEF Crash, CtlOK, Labels, States
  <1>4. \A q \in Procs : pc'[q] = "idle"
    <2>1. \A q \in Procs : q # p => pc[q] = "idle"
      BY <1>1 DEF HolderHasEvidence, Crash
    <2>2. QED
      BY <1>1, <2>1 DEF Crash, CtlOK
  <1>5. QED
    BY <1>2, <1>3, <1>4, TypePartsNext DEF IndInv, HolderHasEvidence

LEMMA PowerLossHolds ==
  ASSUME IndInv, PowerLoss
  PROVE  IndInv'
  <1>1. CtlOK /\ DataOK /\ HolderHasEvidence
    BY TypeParts DEF IndInv
  <1>2. DataOK'
    BY <1>1, ConstantsAssumption DEF PowerLoss, DataOK
  <1>3. CtlOK'
    BY <1>1 DEF PowerLoss, CtlOK, Labels, States
  <1>4. \A q \in Procs : pc'[q] = "idle"
    BY DEF PowerLoss
  <1>5. QED
    BY <1>2, <1>3, <1>4, TypePartsNext DEF IndInv, HolderHasEvidence

\* Every settled repository satisfies the invariant.
LEMMA InitHolds == Init => IndInv
  <1> SUFFICES ASSUME Init PROVE IndInv
    OBVIOUS
  <1>1. dir \in DirType
    <2>1. PICK present \in [Names -> Docs \cup {Nil}] :
            dir = [l \in Leaf |-> IF l \in Names /\ present[l] # Nil
                                  THEN [ino |-> l, body |-> present[l]] ELSE Nil]
      BY DEF Init
    <2>2. \A l \in Leaf : dir[l] \in Object \cup {Nil}
      BY <2>1 DEF Object
    <2>3. \A l \in MetaLeaf : dir[l] = Nil
      BY <2>1, ConstantsAssumption DEF MetaLeaf, Leaf
    <2>4. QED
      BY <2>1, <2>2, <2>3 DEF DirType, DocLeaf, Leaf
  <1>2. hist \in HistType
    BY DEF Init, HistType, Witness
  <1>3. DataOK
    BY <1>1, <1>2, ConstantsAssumption DEF Init, DataOK
  <1>4. CtlOK
    BY DEF Init, CtlOK, Labels, States
  <1>5. HolderHasEvidence
    BY DEF Init, HolderHasEvidence
  <1>6. QED
    BY <1>3, <1>4, <1>5, TypeParts DEF IndInv

\* Every step, and every stutter, keeps the invariant.
LEMMA NextHolds == IndInv /\ [Next]_vars => IndInv'
  <1> SUFFICES ASSUME IndInv, [Next]_vars PROVE IndInv'
    OBVIOUS
  <1>1. CASE UNCHANGED vars
    BY <1>1 DEF vars, IndInv, TypeOK, HolderHasEvidence, Holder, artifacts
  <1>2. CASE PowerLoss
    BY <1>2, PowerLossHolds
  <1>3. ASSUME NEW p \in Procs,
               (\E c \in Change : Apply(p, c)) \/ Recover(p) \/ Crash(p)
        PROVE  IndInv'
    BY <1>3, ApplyHolds, RecoverHolds, CrashHolds
  <1>4. ASSUME NEW p \in Procs, Step(p)
        PROVE  IndInv'
    BY <1>4, LockSyncHolds, RecoverScanHolds, CheckHolds, StageCreateHolds, StageWriteHolds,
       StageSyncHolds, HistoryPrepareHolds, HistoryReadyHolds, PendingCreateHolds,
       PendingWriteHolds, PlanPublishHolds, PlanSyncHolds, RecheckHolds, ValidateHolds,
       DecideHolds, DecisionSyncHolds, FinishHolds, SwapLinkHolds, PublishHolds,
       PublishSyncHolds, DeleteHolds, DeleteSyncHolds, HistoryCommitHolds, HistoryBindHolds,
       CompletePublishHolds, CompleteSyncHolds, CleanupHolds, CleanupSyncHolds,
       HistoryAbortHolds DEF Step
  <1>5. QED
    BY <1>1, <1>2, <1>3, <1>4 DEF Next

-----------------------------------------------------------------------------
(* The theorems. *)

\* The inductive invariant holds throughout.
LEMMA Inductive == Spec => []IndInv
  BY InitHolds, NextHolds, PTL DEF Spec

\* Every variable keeps its type, for any number of processes, names, documents
\* and failures: every file of the profiles directory is a document object under
\* a document leaf or a plan record under a record leaf.
THEOREM TypeCorrect == Spec => []TypeOK
  <1>1. IndInv => TypeOK
    BY DEF IndInv
  <1>2. QED
    BY <1>1, Inductive, PTL

\* The lock holder's evidence is where its step expects it, whatever failures,
\* deaths and power losses preceded (Apply, recover and finish).
THEOREM EvidenceHeld == Spec => []HolderHasEvidence
  <1>1. IndInv => HolderHasEvidence
    BY DEF IndInv
  <1>2. QED
    BY <1>1, Inductive, PTL

\* cleanup removes artifacts only.
LEMMA RemovesArtifact ==
  ASSUME NEW d, artifacts(d) # {}
  PROVE  nextRemoval(d) \in Artifact
  <1> DEFINE first(i) == /\ d[cleanupOrder[i]] # Nil
                         /\ \A j \in 1..(i - 1) : d[cleanupOrder[j]] = Nil
  <1>1. /\ cleanupOrder[1] = "pending" /\ cleanupOrder[2] = "swap"
        /\ cleanupOrder[3] = "stage" /\ cleanupOrder[4] = "decision"
        /\ cleanupOrder[5] = "plan" /\ cleanupOrder[6] = "complete"
    BY DEF cleanupOrder
  <1>2. \E i \in 1..6 : d[cleanupOrder[i]] # Nil
    <2>1. PICK l \in Artifact : d[l] # Nil
      BY DEF artifacts
    <2>2. QED
      BY <1>1, <2>1 DEF Artifact, MetaLeaf
  <1>3. \E i \in 1..6 : first(i)
    <2>1. 1 \in 1..6 /\ 2 \in 1..6 /\ 3 \in 1..6 /\ 4 \in 1..6 /\ 5 \in 1..6 /\ 6 \in 1..6
      OBVIOUS
    <2>2. first(1) \/ first(2) \/ first(3) \/ first(4) \/ first(5) \/ first(6)
      <3>1. \A i \in 1..6 : i \in {1, 2, 3, 4, 5, 6}
        OBVIOUS
      <3>2. /\ 1..(1-1) = {} /\ 1..(2-1) = {1} /\ 1..(3-1) = {1, 2} /\ 1..(4-1) = {1, 2, 3}
            /\ 1..(5-1) = {1, 2, 3, 4} /\ 1..(6-1) = {1, 2, 3, 4, 5}
        OBVIOUS
      <3>3. QED
        BY <1>2, <3>1, <3>2
    <2>3. QED
      BY <2>1, <2>2
  <1>4. nextRemoval(d) = cleanupOrder[CHOOSE i \in 1..6 : first(i)]
    BY DEF nextRemoval
  <1>5. PICK k \in 1..6 : nextRemoval(d) = cleanupOrder[k]
    <2> HIDE DEF first
    <2>1. (CHOOSE i \in 1..6 : first(i)) \in 1..6
      BY <1>3
    <2>2. QED
      BY <1>4, <2>1
  <1>6. k \in {1, 2, 3, 4, 5, 6}
    OBVIOUS
  <1>7. QED
    BY <1>1, <1>5, <1>6 DEF Artifact, MetaLeaf

\* A system call under an artifact leaf leaves the public names alone.
LEMMA ArtifactOnly ==
  ASSUME dir \in DirType, NEW p, NEW l \in Artifact, NEW o, NEW label,
         Syscall(p, [dir EXCEPT ![l] = o], label), NEW n \in Names
  PROVE  dir'[n] = dir[n]
  <1>1. dir' \in {dir, [dir EXCEPT ![l] = o]}
    BY DEF Syscall
  <1>2. n # l /\ n \in Leaf
    BY ConstantsAssumption DEF Artifact, MetaLeaf, Leaf, DocLeaf
  <1>3. QED
    BY <1>1, <1>2 DEF DirType

\* A step that changes a public name is a decided writer's.
LEMMA WriterDecided ==
  ASSUME IndInv, NEW p \in Procs, Step(p), NEW n \in Names, dir'[n] # dir[n]
  PROVE  DecidedWriter
  <1>1. dir \in DirType
    BY DEF IndInv, TypeOK
  <1>2. dir' # dir
    OBVIOUS
  <1>3. {"stage", "swap", "pending", "plan", "decision", "complete"} \subseteq Artifact
    BY DEF Artifact, MetaLeaf
  <1>4. CASE Publish(p) \/ Delete(p)
    <2>1. pc[p] \in Effecting /\ pc[p] # "idle"
      BY <1>4 DEF Publish, Delete, At, Effecting
    <2>2. QED
      BY <2>1, AtHolder DEF Holder, DecidedWriter
  <1>5. CASE StageCreate(p) \/ StageWrite(p) \/ PendingCreate(p) \/ PendingWrite(p)
             \/ Decide(p) \/ SwapLink(p) \/ CompletePublish(p)
    BY <1>1, <1>3, <1>5, ArtifactOnly
       DEF StageCreate, StageWrite, PendingCreate, PendingWrite, Decide, SwapLink, CompletePublish
  <1>6. CASE PlanPublish(p)
    <2>1. dir' \in {dir, [dir EXCEPT !["pending"] = Nil, !["plan"] = dir["pending"]]}
      BY <1>6 DEF PlanPublish, Syscall
    <2>2. n # "pending" /\ n # "plan" /\ n \in Leaf
      BY ConstantsAssumption DEF Leaf, DocLeaf
    <2>3. QED
      BY <1>1, <2>1, <2>2 DEF DirType
  <1>7. CASE Cleanup(p)
    <2>1. artifacts(dir) # {}
      BY <1>2, <1>7 DEF Cleanup
    <2>2. Syscall(p, [dir EXCEPT ![nextRemoval(dir)] = Nil], "cleanupSync")
      BY <1>7, <2>1 DEF Cleanup
    <2>3. nextRemoval(dir) \in Artifact
      BY <2>1, RemovesArtifact
    <2>4. QED
      BY <1>1, <2>2, <2>3, ArtifactOnly
  <1>8. CASE LockSync(p) \/ StageSync(p) \/ PlanSync(p) \/ DecisionSync(p)
             \/ PublishSync(p) \/ DeleteSync(p) \/ CleanupSync(p) \/ CompleteSync(p)
    BY <1>2, <1>8 DEF LockSync, StageSync, PlanSync, DecisionSync, PublishSync, DeleteSync,
                      CleanupSync, CompleteSync, SyncDir
  <1>9. CASE RecoverScan(p) \/ Check(p) \/ HistoryPrepare(p) \/ HistoryReady(p) \/ Recheck(p)
             \/ Validate(p) \/ Finish(p) \/ HistoryCommit(p) \/ HistoryBind(p) \/ HistoryAbort(p)
    BY <1>2, <1>9 DEF RecoverScan, Check, HistoryPrepare, HistoryReady, Recheck, Validate,
                      Finish, HistoryCommit, HistoryBind, HistoryAbort
  <1>10. QED
    BY <1>4, <1>5, <1>6, <1>7, <1>8, <1>9 DEF Step

\* No step changes a public document before the decision it acts for is durable:
\* finish publishes, and removes sources, only for a decision that no power loss
\* can take back.
THEOREM DurableDecisionFirst == Spec => DecisionPrecedesEffect
  <1> DEFINE A == \A n \in Names : dir'[n] # dir[n] => DecidedWriter \/ crashes' # crashes
  <1>1. ASSUME IndInv, [Next]_vars
        PROVE  [A]_vars
    <2>1. CASE UNCHANGED vars
      BY <2>1
    <2>2. CASE PowerLoss \/ \E p \in Procs : Crash(p)
      <3>1. crashes' # crashes
        BY <1>1, <2>2 DEF PowerLoss, Crash, IndInv, TypeOK
      <3>2. QED
        BY <3>1
    <2>3. CASE \E p \in Procs : Recover(p) \/ \E c \in Change : Apply(p, c)
      BY <2>3 DEF Recover, Apply
    <2>4. CASE \E p \in Procs : Step(p)
      BY <1>1, <2>4, WriterDecided
    <2>5. QED
      BY <1>1, <2>1, <2>2, <2>3, <2>4 DEF Next
  <1>2. QED
    BY <1>1, Inductive, PTL DEF Spec, DecisionPrecedesEffect

-----------------------------------------------------------------------------
(* The invariant of the refinement. *)

\* The fields of a plan fit its operation.
Sound(P) ==
    /\ P.stage = Nil <=> P.op = "delete"
    /\ P.before = Nil <=> P.op = "create"
    /\ P.src = Nil <=> P.op = "create"
    /\ P.dst = Nil <=> P.op \in {"replace", "delete"}
    /\ P.src # P.dst
    /\ P.stage # Nil => P.stage.ino = P.id /\ P.stage.body \in Docs
    /\ P.before # Nil => P.before.body \in Docs
    /\ P.before # P.stage

\* The public names before the effect of a plan, after it, and in a rename that
\* has published its destination only.
Before(d, P) ==
    /\ P.src # Nil => d[P.src] = P.before
    /\ P.dst # Nil => d[P.dst] = Nil
After(d, P) ==
    /\ P.stage # Nil => d[target(P)] = P.stage
    /\ P.op \in {"delete", "rename"} => d[P.src] = Nil
    /\ P.op = "clone" => d[P.src] = P.before
Both(d, P) == P.op = "rename" /\ d[P.src] = P.before /\ d[P.dst] = P.stage

\* Public names hold whole documents, each a file of its own.
Public(d) ==
    /\ \A n \in Names : d[n] # Nil => d[n].body \in Docs
    /\ \A n, m \in Names : d[n] = d[m] /\ d[n] # Nil => n = m

\* A directory carries no decision, an unfinished one, or a receipt.
Open(d) == d["decision"] = Nil /\ d["complete"] = Nil
Active(d) == d["decision"] # Nil /\ d["complete"] = Nil

OpenShape(d) ==
    /\ d["swap"] = Nil
    /\ d["plan"] \in Plan \cup {Nil}
    /\ d["plan"] # Nil => d["pending"] = Nil
    /\ d["stage"] # Nil => \A n \in Names : d[n] # d["stage"]
    /\ planOf(d) # Nil => Sound(planOf(d)) /\ d["stage"] \in {Nil, planOf(d).stage}
ActiveShape(d) ==
    LET P == d["decision"] IN
    /\ P \in Plan /\ Sound(P)
    /\ d["plan"] = P /\ d["pending"] = Nil /\ d["stage"] = P.stage
    /\ d["swap"] # Nil => P.op = "replace" /\ d["swap"] = P.stage /\ d[P.src] = P.before
    /\ Before(d, P) \/ Both(d, P) \/ After(d, P)
    /\ P.stage # Nil => \A n \in Names \ {target(P)} : d[n] # P.stage
CompleteShape(d) ==
    LET P == d["complete"] IN
    /\ P \in Plan /\ Sound(P)
    /\ d["plan"] \in {Nil, P} /\ d["decision"] \in {Nil, P}
    /\ d["pending"] = Nil /\ d["swap"] = Nil /\ d["stage"] \in {Nil, P.stage}
    /\ After(d, P)
Shape(d) ==
    /\ Public(d)
    /\ Open(d) => OpenShape(d)
    /\ Active(d) => ActiveShape(d)
    /\ d["complete"] # Nil => CompleteShape(d)
    /\ PendingCuts \subseteq {Short} => d["pending"] # Torn

\* Two directories a power loss may leave show the same documents, unless both
\* carry the same unfinished decision; then they differ in its names only.
Same(d, e) == \A n \in Names : d[n] = e[n]
Pair(d, e) ==
    /\ ~Active(d) \/ ~Active(e) => Same(d, e)
    /\ Active(d) /\ Active(e) =>
          /\ d["decision"] = e["decision"]
          /\ \A n \in Names \ {d["decision"].src, d["decision"].dst} : d[n] = e[n]
    /\ Active(d) /\ e["complete"] # Nil =>
          e["complete"] = d["decision"] /\ e["decision"] = d["decision"]
    /\ Active(d) /\ Open(e) => Before(d, d["decision"])

Directories ==
    /\ dir \in disk
    /\ \A d \in disk : Shape(d)
    /\ \A d, e \in disk : Pair(d, e)

\* What the history h owes to a directory: the witness of its plan, the event of
\* its receipt, and no event of a plan that was never decided.
Owes(d, h) ==
    /\ planOf(d) # Nil => h.wit[planOf(d).id] = "ready"
    /\ d["complete"] # Nil => d["complete"].id \in h.events
    /\ Open(d) /\ planOf(d) # Nil => planOf(d).id \notin h.events

\* Histories differ only in the event of the decision every directory carries.
Events ==
    /\ hist \in hdisk
    /\ \A g, h \in hdisk, i \in Ids :
          i \in g.events /\ i \notin h.events => \A d \in disk : Active(d) /\ d["decision"].id = i
    /\ \A d \in disk, h \in hdisk : Owes(d, h)
    /\ \A d, e \in disk, h \in hdisk : Active(d) /\ Open(e) => d["decision"].id \notin h.events

StoreInv == Directories /\ Events

\* The transaction i left nothing outside directories, and nothing in d.
Absent(i) == i \notin effects /\ \A h \in hdisk : i \notin h.events
Without(d, i) ==
    /\ \A l \in DocLeaf : d[l] # Nil => d[l].ino # i
    /\ \A l \in MetaLeaf : d[l] \in Plan => d[l].id # i

Fresh ==
    \A i \in Ids : i > txns => Absent(i) /\ verdict[i] = {} /\ \A d \in disk : Without(d, i)

\* What is true of a transaction reported as not committed, or as committed.
Denied(i) ==
    /\ Absent(i)
    /\ \A d \in disk : /\ Active(d) => d["decision"].id # i
                       /\ d["complete"] # Nil => d["complete"].id # i
Confirmed(i) ==
    /\ \A h \in hdisk : i \in h.events
    /\ \A d \in disk : record(d) # Nil /\ record(d).id = i => d["complete"] # Nil
Claims ==
    /\ EffectsAreDecided
    /\ \A i \in Ids : /\ "not_committed" \in said(i) => Denied(i)
                      /\ "committed" \in said(i) => Confirmed(i)

\* The steps of a request before its decision, and those that clean up.
Undone == {"validate", "decide"} \cup Preparing
Undecided == {"decisionSync"} \cup Undone
Retiring == {"cleanup", "cleanupSync", "historyAbort"}
\* Those at which nothing is unsynchronized.
Synced == {"check", "stageCreate", "witness", "witnessReady", "pendingCreate", "recheck",
           "validate", "decide", "finish", "swapLink", "delete", "historyCommit",
           "historyBind", "completePublish", "completeRecoverySync", "historyAbort"}

NoArtifacts(d) == \A l \in Artifact : d[l] = Nil

\* Why a process runs, and what is known of its request.
ModeInv(p) ==
    /\ mode[p] # "none"
    /\ pc[p] \in Undecided => mode[p] = "apply"
    /\ pc[p] \in {"lockSync", "recover"} => mode[p] # "apply"
    /\ mode[p] = "abort" => pc[p] \in {"recover"} \cup Retiring
    /\ pc[p] \in {"lockSync", "recover"} /\ mode[p] = "recover" => mem[p] = Nil
    /\ mem[p] # Nil => mem[p].id <= txns
    /\ mode[p] = "apply" /\ mem[p] # Nil => mem[p].id = req[p].id
    /\ mode[p] \in {"settle", "apply", "abort"} =>
          req[p] \in Request /\ req[p].id <= txns /\ verdict[req[p].id] = {}
    /\ mode[p] \in {"settle", "abort"} \/ pc[p] \in Undecided => Absent(req[p].id)
    /\ mode[p] = "settle" => \A d \in disk : Without(d, req[p].id)
    /\ pc[p] \in Undone \/ mode[p] = "abort" => \A d \in disk : Open(d)

\* When no unsynchronized directory is left.
SyncInv(p) ==
    /\ pc[p] \in Synced => disk = {dir}
    /\ pc[p] \in {"recover", "cleanup"} /\ mode[p] # "abort" => disk = {dir}
    /\ pc[p] = "publish" /\ mem[p].op # "replace" => disk = {dir}
    /\ pc[p] \in Undone \cup {"recover", "cleanup"} /\ NoArtifacts(dir) => disk = {dir}

\* What is prepared.
PrepInv(p) ==
    LET r == req[p] IN
    /\ pc[p] \in {"check", "stageCreate"} => NoArtifacts(dir)
    /\ pc[p] \in Undone => \A n \in Names : dir[n] # Nil => dir[n].ino # r.id
    /\ pc[p] \in Undone \ {"check"} => (r.c.src # Nil => dir[r.c.src] # Nil)
    /\ pc[p] = "stageWrite" => dir["stage"] # Nil
    /\ pc[p] \in {"stageWrite", "stageSync", "witness", "witnessReady", "pendingCreate"} =>
          \A d \in disk : d["plan"] = Nil /\ d["pending"] = Nil
    /\ pc[p] \in {"stageSync", "witness", "witnessReady", "pendingCreate", "pendingWrite"} =>
          dir["stage"] = IF r.c.op = "delete" THEN Nil ELSE staged(p)
    /\ pc[p] \in {"pendingCreate", "pendingWrite"} => \A h \in hdisk : h.wit[r.id] = "ready"
    /\ pc[p] = "pendingWrite" => dir["pending"] # Nil /\ dir["plan"] = Nil
    /\ pc[p] = "planPublish" => dir["pending"].id = r.id /\ dir["stage"] = dir["pending"].stage
    /\ pc[p] \in {"planSync", "recheck", "validate", "decide"} =>
          dir["plan"].id = r.id /\ dir["stage"] = dir["plan"].stage
    /\ pc[p] \in {"validate", "decide"} => Before(dir, dir["plan"])

\* How far a decision is rolled forward.
FinishInv(p) ==
    LET P == mem[p] IN
    /\ pc[p] = "decisionSync" => dir["complete"] = Nil
    /\ pc[p] \in Effecting \ {"completeSync"} => \A d \in disk : d["complete"] = Nil
    /\ pc[p] = "swapLink" => P.op = "replace" /\ Before(dir, P)
    /\ pc[p] = "publish" =>
          P.op # "delete" /\ Before(dir, P) /\ (P.op = "replace" => dir["swap"] = P.stage)
    /\ pc[p] = "publishSync" => P.op # "delete" /\ dir[target(P)] = P.stage
    /\ pc[p] = "delete" => P.op \in {"delete", "rename"} /\ (P.op = "rename" => dir[P.dst] = P.stage)
    /\ pc[p] \in {"publishSync", "delete", "deleteSync", "historyCommit", "historyBind",
                 "completePublish"} =>
          dir["swap"] = Nil
    /\ pc[p] \in {"deleteSync", "historyCommit", "historyBind", "completePublish"} => After(dir, P)
    /\ pc[p] = "completePublish" => \A h \in hdisk : P.id \in h.events
    /\ pc[p] \in {"completeSync", "completeRecoverySync"} => P # Nil /\ dir["complete"] = P

\* What a process would report, and that it is true.
OutInv(p) ==
    /\ pc[p] \in Effecting \cup {"decide", "decisionSync", "completeRecoverySync"} => out[p] = "unknown"
    /\ pc[p] \in Retiring => out[p] # "unknown"
    /\ pc[p] \in Retiring /\ mode[p] = "apply" => out[p] = "committed"
    /\ pc[p] \in Retiring /\ out[p] = "not_committed" =>
          /\ \A d \in disk : Open(d)
          /\ mem[p] # Nil => Absent(mem[p].id)
    /\ pc[p] \in Retiring /\ out[p] = "committed" =>
          /\ mem[p] # Nil /\ \A h \in hdisk : mem[p].id \in h.events
          /\ \A d \in disk : record(d) # Nil => d["complete"] = mem[p]

HeldInv ==
    /\ lock # Nil => pc[lock] # "idle"
    /\ \A p \in Procs : pc[p] = "idle" => mem[p] = Nil
    /\ \A p \in Procs : pc[p] # "idle" =>
          ModeInv(p) /\ SyncInv(p) /\ PrepInv(p) /\ FinishInv(p) /\ OutInv(p)

FullInv == IndInv /\ StoreInv /\ Fresh /\ Claims /\ HeldInv

\* What a step keeps of the repository, whatever its process does next.
Kept ==
    /\ StoreInv'
    /\ EffectsAreDecided'
    /\ \A i \in Ids : i > txns => Absent(i)' /\ \A d \in disk' : Without(d, i)
    /\ \A i \in Ids : /\ "not_committed" \in said(i) => Denied(i)'
                      /\ "committed" \in said(i) => Confirmed(i)'

\* What a step of p keeps about the request of p.
Own(p) ==
    \A i \in Ids : i = req[p].id =>
        /\ mode[p] \in {"settle", "abort"} \/ pc[p] \in Undecided => Absent(i)'
        /\ mode[p] = "settle" => \A d \in disk' : Without(d, i)

\* d carries the decision of i.
Carries(d, i) ==
    /\ record(d) # Nil /\ record(d).id = i
    /\ d["decision"] # Nil \/ d["complete"] # Nil

\* d may be added to the directories a power loss may leave behind.
Admissible(p, d) ==
    /\ Shape(d)
    /\ \A e \in disk : Pair(d, e) /\ Pair(e, d)
    /\ \A h \in hdisk : Owes(d, h)
    /\ \A g, h \in hdisk, i \in Ids :
          i \in g.events /\ i \notin h.events => Active(d) /\ d["decision"].id = i
    /\ \A e \in disk, h \in hdisk :
          /\ Active(d) /\ Open(e) => d["decision"].id \notin h.events
          /\ Active(e) /\ Open(d) => e["decision"].id \notin h.events
    /\ \A i \in effects : (\A e \in disk : Carries(e, i))
                          => Carries(d, i) \/ \A h \in hdisk : i \in h.events
    /\ \A i \in Ids :
          /\ Without(dir, i) /\ ~(pc[p] \in Undone /\ i = req[p].id) => Without(d, i)
          /\ "not_committed" \in said(i) => /\ Active(d) => d["decision"].id # i
                                            /\ d["complete"] # Nil => d["complete"].id # i
          /\ "committed" \in said(i) =>
                (record(d) # Nil /\ record(d).id = i => d["complete"] # Nil)

-----------------------------------------------------------------------------
(* The values of a directory. *)

\* A value written under one leaf is read back there and nowhere else.
LEMMA Write ==
  ASSUME NEW d \in DirType, NEW l \in Leaf, NEW v
  PROVE  /\ [d EXCEPT ![l] = v][l] = v
         /\ \A m \in Leaf : m # l => [d EXCEPT ![l] = v][m] = d[m]
  BY DEF DirType

\* The private leaves are no names, and no two of them are the same.
LEMMA LeafFacts ==
  /\ Leaf = Names \cup Artifact
  /\ Names \cap Artifact = {}
  /\ Nil \notin Names
  BY ConstantsAssumption, ValuesAssumption DEF Leaf, DocLeaf, MetaLeaf, Artifact

\* Writing a private leaf leaves the names and the other private leaves alone.
LEMMA WriteArtifact ==
  ASSUME NEW d \in DirType, NEW l \in Artifact, NEW v
  PROVE  /\ [d EXCEPT ![l] = v][l] = v
         /\ \A n \in Names : [d EXCEPT ![l] = v][n] = d[n]
         /\ \A m \in Artifact : m # l => [d EXCEPT ![l] = v][m] = d[m]
  BY Write, LeafFacts

\* Writing a name leaves the other names and the private leaves alone.
LEMMA WriteName ==
  ASSUME NEW d \in DirType, NEW n \in Names, NEW v
  PROVE  /\ [d EXCEPT ![n] = v][n] = v
         /\ \A m \in Names : m # n => [d EXCEPT ![n] = v][m] = d[m]
         /\ \A m \in Artifact : [d EXCEPT ![n] = v][m] = d[m]
  BY Write, LeafFacts

\* Absence is not an object, a plan or interrupted bytes; plans are written whole.
LEMMA ValueFacts ==
  /\ Nil \notin Object /\ Nil \notin Plan /\ Nil \notin Unwritten
  /\ Short # Nil /\ Torn # Nil /\ Short # Torn
  /\ \A b \in Unwritten : b \notin Plan /\ b \notin Object
  /\ \A P \in Plan : decodes(P) /\ P # Nil
  BY ValuesAssumption DEF Unwritten, decodes

-----------------------------------------------------------------------------
(* What a step keeps of the repository. *)

\* Fewer directories and histories that a power loss may leave.
LEMMA Shrink ==
  ASSUME FullInv, dir' \in disk', disk' \subseteq disk, hist' \in hdisk', hdisk' \subseteq hdisk,
         effects' = effects
  PROVE  /\ Kept
         /\ \A i \in Ids : Absent(i) => Absent(i)'
  <1>1. StoreInv /\ Fresh /\ Claims
    BY DEF FullInv
  <1>2. StoreInv'
    BY <1>1 DEF StoreInv, Directories, Events
  <1>3. EffectsAreDecided'
    BY <1>1 DEF Claims, EffectsAreDecided
  <1>4. \A i \in Ids : /\ Absent(i) => Absent(i)'
                       /\ Denied(i) => Denied(i)'
                       /\ Confirmed(i) => Confirmed(i)'
    BY DEF Absent, Denied, Confirmed
  <1>5. Kept
    BY <1>1, <1>2, <1>3, <1>4 DEF Kept, Fresh, Claims
  <1>6. QED
    BY <1>4, <1>5

\* A step of p that drops directories and histories keeps what is owed to its request.
LEMMA KeptShrink ==
  ASSUME FullInv, NEW p \in Procs, pc[p] # "idle",
         dir' \in disk', disk' \subseteq disk, hist' \in hdisk', hdisk' \subseteq hdisk,
         effects' = effects
  PROVE  Kept /\ Own(p)
  <1>1. Kept /\ \A i \in Ids : Absent(i) => Absent(i)'
    BY Shrink
  <1>2. ModeInv(p)
    BY DEF FullInv, HeldInv
  <1>3. Own(p)
    BY <1>1, <1>2 DEF Own, ModeInv
  <1>4. QED
    BY <1>1, <1>3

\* Histories with the same events, at no expense of a directory.
LEMMA KeptWitness ==
  ASSUME FullInv, NEW p \in Procs, pc[p] # "idle",
         UNCHANGED <<dir, disk, effects>>, hist' \in hdisk',
         \A h \in hdisk' : h \in hdisk \/ (h.events = hist.events /\ \A d \in disk : Owes(d, h))
  PROVE  Kept /\ Own(p)
  <1>1. StoreInv /\ Fresh /\ Claims /\ ModeInv(p)
    BY DEF FullInv, HeldInv
  <1>2. \A h \in hdisk' : \E g \in hdisk : g.events = h.events
    BY <1>1 DEF StoreInv, Events
  <1>3. StoreInv'
    <2>1. Directories'
      BY <1>1 DEF StoreInv, Directories
    <2>2. \A d \in disk, h \in hdisk' : Owes(d, h)
      BY <1>1 DEF StoreInv, Events
    <2>3. \A g, h \in hdisk', i \in Ids :
            i \in g.events /\ i \notin h.events => \A d \in disk : Active(d) /\ d["decision"].id = i
      BY <1>1, <1>2 DEF StoreInv, Events
    <2>4. \A d, e \in disk, h \in hdisk' : Active(d) /\ Open(e) => d["decision"].id \notin h.events
      BY <1>1, <1>2 DEF StoreInv, Events
    <2>5. QED
      BY <2>1, <2>2, <2>3, <2>4 DEF StoreInv, Events
  <1>4. EffectsAreDecided'
    BY <1>1, <1>2 DEF Claims, EffectsAreDecided
  <1>5. \A i \in Ids : /\ Absent(i) => Absent(i)'
                       /\ Denied(i) => Denied(i)'
                       /\ Confirmed(i) => Confirmed(i)'
    BY <1>2 DEF Absent, Denied, Confirmed
  <1>6. Kept
    BY <1>1, <1>3, <1>4, <1>5 DEF Kept, Fresh, Claims
  <1>7. Own(p)
    BY <1>1, <1>5 DEF Own, ModeInv
  <1>8. QED
    BY <1>6, <1>7

\* One more directory.
LEMMA KeptAdd ==
  ASSUME FullInv, NEW p \in Procs, pc[p] # "idle", NEW d, Admissible(p, d),
         dir' \in {dir, d}, disk' = disk \cup {dir'}, UNCHANGED <<hist, hdisk>>,
         \/ effects' = effects
         \/ /\ effects' = effects \cup {mem[p].id}
            /\ pc[p] \in {"publish", "delete"} /\ Active(d) /\ d["decision"] = mem[p]
  PROVE  Kept /\ Own(p)
  <1>1. StoreInv /\ Fresh /\ Claims /\ ModeInv(p) /\ FinishInv(p)
    BY DEF FullInv, HeldInv
  <1>2. dir \in disk /\ disk' \subseteq disk \cup {d} /\ dir' \in disk'
    BY <1>1 DEF StoreInv, Directories
  <1>3. StoreInv'
    <2>1. Pair(d, d)
      BY DEF Pair, Same, Active, Open
    <2>2. Directories'
      BY <1>1, <1>2, <2>1 DEF Admissible, StoreInv, Directories
    <2>3. \A g, h \in hdisk, i \in Ids :
            i \in g.events /\ i \notin h.events
            => \A e \in disk' : Active(e) /\ e["decision"].id = i
      BY <1>1, <1>2 DEF Admissible, StoreInv, Events
    <2>4. \A e \in disk', h \in hdisk : Owes(e, h)
      BY <1>1, <1>2 DEF Admissible, StoreInv, Events
    <2>5. ~(Active(d) /\ Open(d))
      BY DEF Active, Open
    <2>6. \A e, f \in disk', h \in hdisk :
            Active(e) /\ Open(f) => e["decision"].id \notin h.events
      BY <1>1, <1>2, <2>5 DEF Admissible, StoreInv, Events
    <2>7. hist \in hdisk
      BY <1>1 DEF StoreInv, Events
    <2>8. QED
      BY <2>2, <2>3, <2>4, <2>6, <2>7 DEF StoreInv, Events
  <1>4. effects' = effects \/ (/\ \A e \in disk' : Active(e) /\ e["decision"] = mem[p]
                               /\ effects' = effects \cup {mem[p].id})
    <2>1. CASE effects' # effects
      <3>1. pc[p] \in Effecting \ {"completeSync"}
        BY <2>1 DEF Effecting
      <3>2. Holder(p)
        BY AtHolder DEF FullInv
      <3>3. \A e \in disk : e["complete"] = Nil /\ e["decision"] = mem[p] /\ mem[p] \in Plan
        BY <1>1, <3>1, <3>2 DEF FinishInv, Holder
      <3>4. QED
        BY <1>2, <2>1, <3>3, ValueFacts DEF Active
    <2>2. QED
      BY <2>1
  <1>5. EffectsAreDecided'
    <2> SUFFICES ASSUME NEW i \in effects'
                 PROVE  (\A e \in disk' : Carries(e, i)) \/ \A h \in hdisk : i \in h.events
      BY DEF EffectsAreDecided, Carries
    <2>1. CASE i \in effects
      BY <1>1, <1>2, <2>1 DEF Claims, EffectsAreDecided, Admissible, Carries
    <2>2. CASE i \notin effects
      BY <1>4, <2>2 DEF Carries, Active, record
    <2>3. QED
      BY <2>1, <2>2
  <1>6. \A i \in Ids : Absent(i) /\ ~(effects' # effects /\ i = mem[p].id) => Absent(i)'
    BY <1>4 DEF Absent
  <1>7. \A i \in Ids : i > txns =>
           ~(effects' # effects /\ i = mem[p].id) /\ ~(pc[p] \in Undone /\ i = req[p].id)
    <2>1. txns \in Nat
      BY ConstantsAssumption DEF FullInv, IndInv, TypeOK
    <2>2. effects' # effects => dir["decision"] = mem[p] /\ dir["decision"] # Nil
      BY <1>1, <1>2, <1>4 DEF Active
    <2>3. pc[p] \in Undone => req[p].id <= txns
      BY <1>1 DEF ModeInv, Undone, Undecided
    <2>4. effects' # effects => mem[p].id <= txns
      BY <1>1, <2>2 DEF ModeInv
    <2>5. pc[p] \in Undone => req[p] \in Request
      BY <1>1 DEF ModeInv, Undone, Undecided
    <2>6. effects' # effects => mem[p] \in Plan
      BY <1>4, <2>2 DEF FullInv, IndInv, TypeOK
    <2>7. QED
      BY <2>1, <2>3, <2>4, <2>5, <2>6 DEF Ids, Request, Plan
  <1>8. \A i \in Ids : "not_committed" \in said(i) => Denied(i)'
    <2> SUFFICES ASSUME NEW i \in Ids, "not_committed" \in said(i)
                 PROVE  Denied(i)'
      OBVIOUS
    <2>1. Denied(i)
      BY <1>1 DEF Claims
    <2>2. ~(effects' # effects /\ i = mem[p].id)
      BY <1>2, <1>4, <2>1 DEF Denied
    <2>3. Absent(i)'
      BY <1>6, <2>1, <2>2 DEF Denied
    <2>4. QED
      BY <1>2, <2>1, <2>3 DEF Admissible, Denied
  <1>9. \A i \in Ids : "committed" \in said(i) => Confirmed(i)'
    BY <1>1, <1>2 DEF Claims, Confirmed, Admissible
  <1>10. \A i \in Ids : i > txns => Absent(i)' /\ \A e \in disk' : Without(e, i)
    BY <1>1, <1>2, <1>6, <1>7 DEF Fresh, Admissible
  <1>11. Kept
    BY <1>3, <1>5, <1>8, <1>9, <1>10 DEF Kept
  <1>12. Own(p)
    <2> SUFFICES ASSUME NEW i \in Ids, i = req[p].id
                 PROVE  /\ mode[p] \in {"settle", "abort"} \/ pc[p] \in Undecided => Absent(i)'
                        /\ mode[p] = "settle" => \A e \in disk' : Without(e, i)
      BY DEF Own
    <2>1. pc[p] \in Undone => mode[p] = "apply"
      BY <1>1 DEF ModeInv, Undecided
    <2>2. mode[p] = "settle" => \A e \in disk' : Without(e, i)
      BY <1>1, <1>2, <2>1 DEF ModeInv, Admissible
    <2>3. effects' # effects => pc[p] \in {"publish", "delete"}
      OBVIOUS
    <2>4. pc[p] \in {"publish", "delete"} => pc[p] \notin Undecided /\ mode[p] # "abort"
      BY <1>1 DEF ModeInv, Undecided, Undone, Preparing, Retiring
    <2>5. effects' # effects => mem[p] \in Plan /\ dir["decision"] = mem[p]
      BY <1>2, <1>4 DEF FullInv, IndInv, TypeOK, Active
    <2>6. mode[p] = "settle" /\ effects' # effects => i # mem[p].id
      BY <1>1, <1>2, <2>5 DEF ModeInv, Without, MetaLeaf
    <2>7. QED
      BY <1>1, <1>6, <2>2, <2>3, <2>4, <2>6 DEF ModeInv
  <1>13. QED
    BY <1>11, <1>12

-----------------------------------------------------------------------------
(* Directories that may be added. *)

\* While nothing is decided: the same documents under another preparation.
LEMMA AdmitOpen ==
  ASSUME FullInv, NEW p \in Procs, pc[p] # "idle", NEW d,
         \A e \in disk : Open(e), Open(d), Same(d, dir), Shape(d),
         \A h \in hdisk : Owes(d, h),
         \/ record(d) \in {Nil, record(dir)}
         \/ record(d).id = req[p].id /\ mode[p] = "apply",
         \A i \in Ids : Without(dir, i) /\ ~(pc[p] \in Undone /\ i = req[p].id) => Without(d, i)
  PROVE  Admissible(p, d)
  <1>1. StoreInv /\ Claims /\ ModeInv(p) /\ dir \in disk
    BY DEF FullInv, HeldInv, StoreInv, Directories
  <1>2. ~Active(d) /\ d["complete"] = Nil /\ \A e \in disk : ~Active(e) /\ e["complete"] = Nil
    BY DEF Open, Active
  <1>3. \A e \in disk : Pair(d, e) /\ Pair(e, d)
    <2>1. \A e \in disk : Same(dir, e) /\ Same(e, dir)
      BY <1>1, <1>2 DEF StoreInv, Directories, Pair
    <2>2. \A e \in disk : Same(d, e) /\ Same(e, d)
      BY <2>1 DEF Same
    <2>3. QED
      BY <1>2, <2>2 DEF Pair
  <1>4. \A g, h \in hdisk, i \in Ids : ~(i \in g.events /\ i \notin h.events)
    BY <1>1, <1>2 DEF StoreInv, Events
  <1>5. \A i : ~Carries(dir, i)
    BY <1>1 DEF Carries, Open
  <1>6. \A i \in Ids : "committed" \in said(i) => ~(record(d) # Nil /\ record(d).id = i)
    <2> SUFFICES ASSUME NEW i \in Ids, "committed" \in said(i), record(d) # Nil, record(d).id = i
                 PROVE  FALSE
      OBVIOUS
    <2>1. CASE record(d) = record(dir)
      BY <1>1, <1>2, <2>1 DEF Claims, Confirmed
    <2>2. CASE record(d).id = req[p].id /\ mode[p] = "apply"
      <3>1. verdict[i] = {}
        BY <1>1, <2>2 DEF ModeInv
      <3>2. QED
        BY <3>1 DEF said
    <2>3. QED
      BY <2>1, <2>2
  <1>7. \A i \in effects : (\A e \in disk : Carries(e, i))
                          => Carries(d, i) \/ \A h \in hdisk : i \in h.events
    BY <1>1, <1>5
  <1>8. QED
    BY <1>2, <1>3, <1>4, <1>6, <1>7 DEF Admissible

\* While a decision takes effect: its names may differ.
LEMMA AdmitActive ==
  ASSUME FullInv, NEW p \in Procs, pc[p] \in {"swapLink", "publish", "delete"}, NEW d,
         \A l \in MetaLeaf : d[l] = dir[l],
         \A n \in Names \ {mem[p].src, mem[p].dst} : d[n] = dir[n],
         Shape(d), \A i \in Ids : Without(dir, i) => Without(d, i)
  PROVE  Admissible(p, d)
  <1>1. StoreInv /\ Claims /\ ModeInv(p) /\ FinishInv(p) /\ dir \in disk
    BY DEF FullInv, HeldInv, StoreInv, Directories
  <1>2. \A e \in disk : e["complete"] = Nil /\ e["decision"] = mem[p] /\ mem[p] \in Plan
    <2>1. pc[p] \in Effecting \ {"completeSync"} /\ pc[p] # "idle"
      BY DEF Effecting
    <2>2. Holder(p)
      BY <2>1, AtHolder DEF FullInv
    <2>3. QED
      BY <1>1, <2>1, <2>2 DEF FinishInv, Holder
  <1>3. /\ d["plan"] = dir["plan"] /\ d["pending"] = dir["pending"]
        /\ d["decision"] = mem[p] /\ d["complete"] = Nil
    BY <1>1, <1>2 DEF MetaLeaf
  <1>4. \A e \in disk : Active(e) /\ ~Open(e)
    BY <1>2, ValueFacts DEF Active, Open
  <1>5. Active(d) /\ ~Open(d)
    BY <1>3, <1>2, <1>1, ValueFacts DEF Active, Open
  <1>6. \A e \in disk : Pair(d, e) /\ Pair(e, d)
    <2>1. \A e \in disk, n \in Names \ {mem[p].src, mem[p].dst} : dir[n] = e[n]
      BY <1>1, <1>2, <1>4 DEF StoreInv, Directories, Pair
    <2>2. QED
      BY <1>2, <1>3, <1>4, <1>5, <2>1 DEF Pair
  <1>7. record(d) = record(dir) /\ planOf(d) = planOf(dir)
    BY <1>1, <1>2, <1>3 DEF record, planOf
  <1>8. \A h \in hdisk : Owes(d, h)
    BY <1>1, <1>3, <1>5, <1>7 DEF StoreInv, Events, Owes
  <1>9. \A g, h \in hdisk, i \in Ids :
          i \in g.events /\ i \notin h.events => Active(d) /\ d["decision"].id = i
    BY <1>1, <1>2, <1>3, <1>5 DEF StoreInv, Events
  <1>10. \A i : Carries(dir, i) => Carries(d, i)
    BY <1>1, <1>2, <1>3, <1>7 DEF Carries
  <1>11. \A i \in Ids :
           /\ "not_committed" \in said(i) => /\ Active(d) => d["decision"].id # i
                                             /\ d["complete"] # Nil => d["complete"].id # i
           /\ "committed" \in said(i) =>
                 (record(d) # Nil /\ record(d).id = i => d["complete"] # Nil)
    BY <1>1, <1>2, <1>3, <1>4, <1>7 DEF Claims, Denied, Confirmed
  <1>12. QED
    BY <1>1, <1>4, <1>5, <1>6, <1>8, <1>9, <1>10, <1>11 DEF Admissible

-----------------------------------------------------------------------------
(* What a step does to control. *)

\* The parts of the invariant after a step, but IndInv.
StepInv == StoreInv /\ Fresh /\ Claims /\ HeldInv

\* A step that ends with every process idle and tells nobody anything new.
LEMMA Quiet ==
  ASSUME FullInv, Kept, txns' = txns, verdict' = verdict, lock' = Nil,
         \A q \in Procs : pc'[q] = "idle" /\ mem'[q] = Nil
  PROVE  StepInv'
  <1>1. Fresh /\ StoreInv'
    BY DEF FullInv, Kept
  <1>2. Fresh'
    BY <1>1 DEF Fresh, Kept
  <1>3. Claims'
    BY DEF Claims, Kept, said
  <1>4. HeldInv'
    BY DEF HeldInv
  <1>5. QED
    BY <1>1, <1>2, <1>3, <1>4 DEF StepInv

\* A process that returns leaves every process idle, and what it said is true.
LEMMA Returns ==
  ASSUME FullInv, NEW p \in Procs, pc[p] # "idle", NEW s \in States, NEW r \in BOOLEAN,
         Return(p, s, r), Kept, txns' = txns,
         \A i \in Ids : i \in subject(p) => /\ s = "not_committed" => Denied(i)'
                                            /\ s = "committed" => Confirmed(i)'
  PROVE  StepInv'
  <1>1. StoreInv /\ Fresh /\ Claims /\ ModeInv(p) /\ lock = p /\ CtlOK
    BY AtHolder DEF FullInv, HeldInv
  <1>2. \A i \in Ids : said(i)' = IF i \in subject(p) THEN said(i) \cup {s} ELSE said(i)
    <2> SUFFICES ASSUME NEW i \in Ids
                 PROVE  said(i)' = IF i \in subject(p) THEN said(i) \cup {s} ELSE said(i)
      OBVIOUS
    <2>1. verdict'[i] = IF i \in subject(p) THEN verdict[i] \cup {<<s, r>>} ELSE verdict[i]
      BY DEF Return
    <2>2. CASE i \in subject(p)
      <3>1. <<s, r>>[1] = s /\ verdict'[i] = verdict[i] \cup {<<s, r>>}
        BY <2>1, <2>2
      <3>2. {v[1] : v \in verdict'[i]} = {v[1] : v \in verdict[i]} \cup {s}
        BY <3>1
      <3>3. QED
        BY <2>2, <3>2 DEF said
    <2>3. CASE i \notin subject(p)
      BY <2>1, <2>3 DEF said
    <2>4. QED
      BY <2>2, <2>3
  <1>3. \A i \in Ids : i > txns => i \notin subject(p)
    <2>1. txns \in Nat
      BY ConstantsAssumption DEF FullInv, IndInv, TypeOK
    <2>2. mode[p] = "recover" /\ mem[p] # Nil => mem[p] \in Plan /\ mem[p].id <= txns
      BY <1>1 DEF ModeInv, CtlOK
    <2>3. mode[p] # "recover" => req[p] \in Request /\ req[p].id <= txns
      BY <1>1 DEF ModeInv, CtlOK
    <2>4. QED
      BY <2>1, <2>2, <2>3 DEF subject, Ids, Plan, Request
  <1>4. Fresh'
    BY <1>1, <1>3 DEF Fresh, Kept, Return
  <1>5. Claims'
    BY <1>2 DEF Claims, Kept
  <1>6. HeldInv'
    <2>1. \A q \in Procs : q # p => pc[q] = "idle" /\ mem[q] = Nil
      BY <1>1 DEF FullInv, HeldInv, IndInv, HolderHasEvidence
    <2>2. \A q \in Procs : pc'[q] = "idle" /\ mem'[q] = Nil
      BY <1>1, <2>1 DEF Return, CtlOK
    <2>3. QED
      BY <2>2 DEF HeldInv, Return
  <1>7. QED
    BY <1>4, <1>5, <1>6 DEF StepInv, Kept

\* A process that goes on keeps what is known of its request.
LEMMA Proceeds ==
  ASSUME FullInv, NEW p \in Procs, pc[p] # "idle", NEW label, Proceed(p, label),
         Kept, Own(p), txns' = txns,
         label \in Undecided => pc[p] \in Undecided,
         label \notin {"idle", "lockSync"}, label = "recover" => pc[p] = "lockSync",
         mode[p] = "abort" => label \in Retiring,
         label \in Undone \/ mode[p] = "abort" => \A d \in disk' : Open(d),
         pc'[p] = label => SyncInv(p)' /\ PrepInv(p)' /\ FinishInv(p)' /\ OutInv(p)'
  PROVE  StepInv'
  <1>1. StoreInv /\ Fresh /\ Claims /\ ModeInv(p) /\ lock = p /\ CtlOK
    BY AtHolder DEF FullInv, HeldInv
  <1>2. Fresh' /\ Claims'
    BY <1>1 DEF Fresh, Claims, Kept, Proceed, said
  <1>3. pc'[p] = label /\ \A q \in Procs : q # p => pc'[q] = "idle"
    BY <1>1 DEF Proceed, Goto, FullInv, IndInv, HolderHasEvidence, CtlOK
  <1>4. /\ mode' = mode /\ mem' = mem /\ req' = req /\ verdict' = verdict /\ lock' = lock
    BY DEF Proceed
  <1>5. mode[p] \in {"settle", "abort"} \/ label \in Undecided => Absent(req[p].id)'
    <2>1. mode[p] \in {"settle", "abort"} \/ label \in Undecided => req[p] \in Request
      BY <1>1 DEF ModeInv, Undecided
    <2>2. req[p] \in Request => req[p].id \in Ids
      BY DEF Request
    <2>3. QED
      BY <1>4, <2>1, <2>2 DEF Own, Absent
  <1>6. mode[p] = "settle" => \A d \in disk' : Without(d, req[p].id)
    BY <1>1 DEF Own, ModeInv, Request
  <1>7. ModeInv(p)'
    BY <1>1, <1>3, <1>4, <1>5, <1>6 DEF ModeInv, Undecided
  <1>8. HeldInv'
    <2>1. \A q \in Procs : pc'[q] # "idle" => q = p
      BY <1>3
    <2>2. lock' # Nil => pc'[lock'] # "idle"
      BY <1>1, <1>3, <1>4, <1>7
    <2>3. \A q \in Procs : pc'[q] = "idle" => mem'[q] = Nil
      BY <1>1, <1>3, <1>4 DEF FullInv, HeldInv, IndInv, HolderHasEvidence
    <2>4. QED
      BY <1>3, <1>7, <2>1, <2>2, <2>3 DEF HeldInv
  <1>9. QED
    BY <1>2, <1>8 DEF StepInv, Kept

\* What is true of a request that left nothing behind.
LEMMA SettleTrue ==
  ASSUME NEW p \in Procs, mode[p] = "settle", Kept, Own(p), NEW i \in Ids, i = req[p].id
  PROVE  Denied(i)'
  <1>1. Absent(i)' /\ \A d \in disk' : Without(d, i)
    BY DEF Own
  <1>2. \A d \in disk' : Active(d) \/ d["complete"] # Nil
                         => /\ Active(d) => d["decision"] \in Plan
                            /\ d["complete"] # Nil => d["complete"] \in Plan
    BY DEF Kept, StoreInv, Directories, Shape, ActiveShape, CompleteShape
  <1>3. QED
    BY <1>1, <1>2 DEF Denied, Without, MetaLeaf

\* An undecided plan that left nothing is truly not committed.
LEMMA OpenTrue ==
  ASSUME NEW i \in Ids, Absent(i)', \A d \in disk' : Open(d)
  PROVE  Denied(i)'
  BY DEF Denied, Open, Active

\* A process that retires artifacts reports what happened.
LEMMA OutcomeTrue ==
  ASSUME FullInv, NEW p \in Procs, pc[p] \in Retiring, mode[p] \in {"apply", "recover"},
         out[p] = "not_committed" =>
            /\ \A d \in disk' : Open(d)
            /\ \A i \in Ids : mem[p] # Nil /\ i = mem[p].id => Absent(i)',
         out[p] = "committed" =>
            \A i \in Ids : mem[p] # Nil /\ i = mem[p].id => Confirmed(i)'
  PROVE  \A i \in Ids : i \in subject(p) => /\ out[p] = "not_committed" => Denied(i)'
                                            /\ out[p] = "committed" => Confirmed(i)'
  <1>1. pc[p] # "idle" /\ ModeInv(p) /\ OutInv(p) /\ CtlOK
    BY AtHolder DEF FullInv, HeldInv, Retiring
  <1>2. mode[p] = "apply" => out[p] = "committed"
    BY <1>1 DEF OutInv
  <1>3. \A i \in Ids : i \in subject(p) =>
           \/ mem[p] # Nil /\ i = mem[p].id
           \/ mode[p] = "apply" /\ i = req[p].id
    BY DEF subject
  <1>4. out[p] = "committed" => mem[p] # Nil
    BY <1>1 DEF OutInv
  <1>5. mode[p] = "apply" /\ mem[p] # Nil => mem[p].id = req[p].id
    BY <1>1 DEF ModeInv
  <1>6. \A i \in Ids : i \in subject(p) => mem[p] # Nil /\ i = mem[p].id
    BY <1>2, <1>3, <1>4, <1>5
  <1>7. QED
    BY <1>6, OpenTrue

\* An error keeps what is known of its request, or tells the truth about it.
LEMMA Fails ==
  ASSUME FullInv, NEW p \in Procs, pc[p] \notin {"idle", "recover", "validate"}, Fail(p),
         Kept, Own(p), txns' = txns,
         pc[p] \in Preparing \/ mode[p] = "abort" => \A d \in disk' : Open(d),
         pc[p] \in Preparing => (NoArtifacts(dir') => disk' = {dir'}),
         pc[p] \in Retiring /\ out[p] = "not_committed" =>
            /\ \A d \in disk' : Open(d)
            /\ \A i \in Ids : mem[p] # Nil /\ i = mem[p].id => Absent(i)',
         pc[p] \in Retiring /\ out[p] = "committed" =>
            \A i \in Ids : mem[p] # Nil /\ i = mem[p].id => Confirmed(i)'
  PROVE  StepInv'
  <1>1. /\ StoreInv /\ Fresh /\ Claims /\ ModeInv(p) /\ OutInv(p) /\ lock = p /\ CtlOK
        /\ \A q \in Procs : q # p => pc[q] = "idle"
    BY AtHolder DEF FullInv, HeldInv, IndInv, HolderHasEvidence
  <1>2. CASE pc[p] \in Preparing
    <2>1. /\ pc'[p] = "recover" /\ mode'[p] = "abort" /\ lock' = p
          /\ \A q \in Procs : q # p => pc'[q] = "idle"
          /\ req' = req /\ mem' = mem /\ out' = out /\ verdict' = verdict
      BY <1>1, <1>2 DEF Fail, Goto, CtlOK
    <2>2. Fresh' /\ Claims'
      BY <1>1, <2>1 DEF Fresh, Claims, Kept, said
    <2>3. mode[p] = "apply"
      BY <1>1, <1>2 DEF ModeInv, Undecided, Undone
    <2>4. Absent(req[p].id)'
      BY <1>1, <1>2, <2>1, <2>3 DEF Own, ModeInv, Request, Undecided, Undone, Absent
    <2>5. ModeInv(p)'
      BY <1>1, <1>2, <2>1, <2>3, <2>4 DEF ModeInv, Undecided, Undone, Preparing
    <2>6. SyncInv(p)'
      BY <1>2, <2>1 DEF SyncInv, Synced
    <2>7. PrepInv(p)' /\ FinishInv(p)' /\ OutInv(p)'
      BY <2>1 DEF PrepInv, FinishInv, OutInv, Undone, Preparing, Effecting, Retiring
    <2>8. HeldInv'
      <3>1. \A q \in Procs : pc'[q] = "idle" => mem'[q] = Nil
        BY <1>1, <2>1 DEF FullInv, HeldInv
      <3>2. QED
        BY <2>1, <2>5, <2>6, <2>7, <3>1 DEF HeldInv
    <2>9. QED
      BY <2>2, <2>8 DEF StepInv, Kept
  <1>3. CASE pc[p] \notin Preparing
    <2> DEFINE s == IF mode[p] \in {"settle", "abort"} THEN "not_committed" ELSE out[p]
    <2>1. Return(p, s, pc[p] # "lockSync") /\ s \in States
      BY <1>1, <1>3 DEF Fail, CtlOK, States
    <2>2. mode[p] \in {"settle", "apply", "abort", "recover"}
      BY <1>1 DEF ModeInv, CtlOK
    <2>3. CASE mode[p] = "settle"
      <3>1. \A i \in Ids : i = req[p].id => Denied(i)'
        BY <2>3, SettleTrue
      <3>2. \A i \in Ids : i \in subject(p) => i = req[p].id
        BY <2>3 DEF subject
      <3>3. s = "not_committed"
        BY <2>3
      <3>4. QED
        BY <2>1, <3>1, <3>2, <3>3, Returns
    <2>4. CASE mode[p] = "abort"
      <3>1. \A i \in Ids : i = req[p].id => Denied(i)'
        BY <2>4, OpenTrue DEF Own
      <3>2. \A i \in Ids : i \in subject(p) => i = req[p].id
        BY <2>4 DEF subject
      <3>3. s = "not_committed"
        BY <2>4
      <3>4. QED
        BY <2>1, <3>1, <3>2, <3>3, Returns
    <2>5. CASE mode[p] \in {"apply", "recover"}
      <3>1. s = out[p]
        BY <2>5
      <3>2. CASE pc[p] \in Retiring
        <4>1. \A i \in Ids : i \in subject(p) => /\ out[p] = "not_committed" => Denied(i)'
                                                 /\ out[p] = "committed" => Confirmed(i)'
          BY <2>5, <3>2, OutcomeTrue
        <4>2. QED
          BY <2>1, <3>1, <4>1, Returns
      <3>3. CASE pc[p] = "lockSync"
        <4>1. mode[p] = "recover" /\ mem[p] = Nil
          BY <1>1, <2>5, <3>3 DEF ModeInv
        <4>2. subject(p) = {}
          BY <4>1 DEF subject
        <4>3. QED
          BY <2>1, <4>2, Returns
      <3>4. CASE pc[p] \in Effecting \cup {"decide", "decisionSync", "completeRecoverySync"}
        <4>1. out[p] = "unknown"
          BY <1>1, <3>4 DEF OutInv
        <4>2. QED
          BY <2>1, <3>1, <4>1, Returns
      <3>5. pc[p] \in Labels
        BY <1>1 DEF CtlOK
      <3>6. QED
        BY <1>3, <3>2, <3>3, <3>4, <3>5 DEF Labels, Settling, Effecting, Retiring
    <2>6. QED
      BY <2>2, <2>3, <2>4, <2>5
  <1>4. QED
    BY <1>2, <1>3

\* What a process that is about to take a step may rely on.
LEMMA Acting ==
  ASSUME FullInv, NEW p \in Procs, pc[p] # "idle"
  PROVE  /\ StoreInv /\ Fresh /\ Claims
         /\ ModeInv(p) /\ SyncInv(p) /\ PrepInv(p) /\ FinishInv(p) /\ OutInv(p) /\ Holder(p)
         /\ lock = p /\ CtlOK /\ txns \in Nat
         /\ dir \in DirType /\ disk \subseteq DirType /\ dir \in disk /\ Shape(dir)
         /\ hist \in HistType /\ hdisk \subseteq HistType /\ hist \in hdisk
  <1>1. IndInv /\ StoreInv
    BY DEF FullInv
  <1>2. txns \in Nat
    BY <1>1, ConstantsAssumption DEF IndInv, TypeOK
  <1>3. QED
    BY <1>1, <1>2, AtHolder DEF FullInv, HeldInv, StoreInv, Directories, Events

\* An outcome stays true when nothing is added.
LEMMA OutcomeStays ==
  ASSUME FullInv, NEW p \in Procs, pc[p] \in Retiring, disk' \subseteq disk, effects' = effects,
         \A h \in hdisk' : \E g \in hdisk : g.events = h.events
  PROVE  /\ out[p] = "not_committed" =>
               /\ \A d \in disk' : Open(d)
               /\ \A i \in Ids : mem[p] # Nil /\ i = mem[p].id => Absent(i)'
         /\ out[p] = "committed" =>
               \A i \in Ids : mem[p] # Nil /\ i = mem[p].id => Confirmed(i)'
  <1>1. OutInv(p)
    BY Acting DEF Retiring
  <1>2. \A i \in Ids : Absent(i) => Absent(i)'
    BY DEF Absent
  <1>3. ASSUME out[p] = "committed", NEW i \in Ids, i = mem[p].id
        PROVE  Confirmed(i)'
    <2>1. \A h \in hdisk' : i \in h.events
      BY <1>1, <1>3 DEF OutInv
    <2>2. \A d \in disk' : record(d) # Nil => d["complete"] # Nil
      BY <1>1, <1>3 DEF OutInv
    <2>3. QED
      BY <2>1, <2>2 DEF Confirmed
  <1>4. QED
    BY <1>1, <1>2, <1>3 DEF OutInv

\* An error that leaves the repository as it was, but for its witnesses.
LEMMA FailsInPlace ==
  ASSUME FullInv, NEW p \in Procs, pc[p] \notin {"idle", "recover", "validate"}, Fail(p),
         Kept, Own(p), txns' = txns, dir' = dir, disk' \in {disk, {dir}}, effects' = effects,
         \A h \in hdisk' : \E g \in hdisk : g.events = h.events
  PROVE  StepInv'
  <1>1. ModeInv(p) /\ SyncInv(p) /\ OutInv(p) /\ dir \in disk
    BY Acting
  <1>2. disk' \subseteq disk
    BY <1>1
  <1>3. pc[p] \in Preparing \/ mode[p] = "abort" => \A d \in disk' : Open(d)
    BY <1>1, <1>2 DEF ModeInv, Undone
  <1>4. pc[p] \in Preparing => (NoArtifacts(dir') => disk' = {dir'})
    BY <1>1 DEF SyncInv, Undone
  <1>5. pc[p] \in Retiring /\ out[p] = "not_committed" =>
            /\ \A d \in disk' : Open(d)
            /\ \A i \in Ids : mem[p] # Nil /\ i = mem[p].id => Absent(i)'
    BY <1>2, OutcomeStays
  <1>6. pc[p] \in Retiring /\ out[p] = "committed" =>
            \A i \in Ids : mem[p] # Nil /\ i = mem[p].id => Confirmed(i)'
    BY <1>2, OutcomeStays
  <1>7. QED
    BY <1>3, <1>4, <1>5, <1>6, Fails

\* An error while a decision is rolled forward says that the outcome is unknown.
LEMMA FailsForward ==
  ASSUME FullInv, NEW p \in Procs,
         pc[p] \in Effecting \cup {"decide", "decisionSync", "completeRecoverySync"},
         Fail(p), Kept, Own(p), txns' = txns
  PROVE  StepInv'
  <1>1. pc[p] \notin {"idle", "recover", "validate"} \cup Preparing \cup Retiring
    BY DEF Effecting, Preparing, Retiring
  <1>2. ModeInv(p)
    BY <1>1, Acting
  <1>3. mode[p] # "abort"
    BY <1>1, <1>2 DEF ModeInv
  <1>4. QED
    BY <1>1, <1>3, Fails

\* A system call adds one directory, and goes on or fails.
LEMMA SyscallParts ==
  ASSUME NEW p, NEW d, NEW label, Syscall(p, d, label)
  PROVE  /\ dir' \in {dir, d} /\ disk' = disk \cup {dir'}
         /\ (dir' = d /\ Proceed(p, label)) \/ Fail(p)
  BY DEF Syscall

\* A synchronization keeps the repository, and goes on or fails.
LEMMA SyncKeeps ==
  ASSUME FullInv, NEW p \in Procs, pc[p] # "idle", NEW label, SyncDir(p, label),
         UNCHANGED <<hist, hdisk, effects>>
  PROVE  /\ Kept /\ Own(p) /\ dir' = dir /\ disk' \in {disk, {dir}}
         /\ \A h \in hdisk' : \E g \in hdisk : g.events = h.events
         /\ (disk' = {dir} /\ Proceed(p, label)) \/ Fail(p)
  <1>1. dir \in disk /\ hist \in hdisk
    BY Acting
  <1>2. dir' = dir /\ disk' \in {disk, {dir}} /\ ((disk' = {dir} /\ Proceed(p, label)) \/ Fail(p))
    BY DEF SyncDir
  <1>3. Kept /\ Own(p)
    BY <1>1, <1>2, KeptShrink
  <1>4. QED
    BY <1>2, <1>3

\* A synchronization whose next step finds what it needs.
LEMMA SyncGoes ==
  ASSUME FullInv, NEW p \in Procs, pc[p] \notin {"idle", "recover", "validate"},
         NEW label, SyncDir(p, label), UNCHANGED <<hist, hdisk, effects, txns>>,
         label \in Undecided => pc[p] \in Undecided, label \in Undone => pc[p] \in Undone,
         label \notin {"idle", "lockSync"}, label = "recover" => pc[p] = "lockSync",
         mode[p] = "abort" => label \in Retiring,
         disk' = {dir} /\ Proceed(p, label) /\ pc'[p] = label
            => PrepInv(p)' /\ FinishInv(p)' /\ OutInv(p)'
  PROVE  StepInv'
  <1>1. ModeInv(p) /\ dir \in disk
    BY Acting
  <1>2. /\ Kept /\ Own(p) /\ dir' = dir /\ disk' \in {disk, {dir}}
        /\ \A h \in hdisk' : \E g \in hdisk : g.events = h.events
        /\ (disk' = {dir} /\ Proceed(p, label)) \/ Fail(p)
    BY SyncKeeps
  <1>3. CASE disk' = {dir} /\ Proceed(p, label)
    <2>1. label \in Undone \/ mode[p] = "abort" => \A d \in disk' : Open(d)
      BY <1>1, <1>3 DEF ModeInv
    <2>2. SyncInv(p)'
      BY <1>2, <1>3 DEF SyncInv
    <2>3. QED
      BY <1>2, <1>3, <2>1, <2>2, Proceeds
  <1>4. CASE Fail(p)
    BY <1>2, <1>4, FailsInPlace
  <1>5. QED
    BY <1>2, <1>3, <1>4

-----------------------------------------------------------------------------
(* The synchronizations. *)

\* The synchronization that ends taking the lock.
LEMMA LockSyncKeeps ==
  ASSUME FullInv, NEW p \in Procs, LockSync(p)
  PROVE  StepInv'
  <1>1. pc[p] = "lockSync"
    BY DEF LockSync, At
  <1>2. ModeInv(p) /\ Holder(p)
    BY <1>1, Acting
  <1>3. mode[p] # "abort"
    BY <1>1, <1>2 DEF Holder
  <1>4. pc'[p] = "recover" => PrepInv(p)' /\ FinishInv(p)' /\ OutInv(p)'
    BY DEF PrepInv, FinishInv, OutInv, Undone, Preparing, Effecting, Retiring
  <1>5. SyncDir(p, "recover") /\ UNCHANGED <<hist, hdisk, effects, txns>>
    BY DEF LockSync
  <1>6. "recover" \notin Undecided
    BY DEF Undecided, Undone, Preparing
  <1>7. "recover" \notin Undone
    BY <1>6 DEF Undecided
  <1>8. QED
    BY <1>1, <1>3, <1>4, <1>5, <1>6, <1>7, SyncGoes

\* The stage is synchronized before its witness is written.
LEMMA StageSyncKeeps ==
  ASSUME FullInv, NEW p \in Procs, StageSync(p)
  PROVE  StepInv'
  <1>1. pc[p] = "stageSync" /\ pc[p] \in Undone /\ pc[p] \in Undecided
    BY DEF StageSync, At, Undecided, Undone, Preparing
  <1>2. ModeInv(p) /\ PrepInv(p) /\ dir \in disk
    BY <1>1, Acting
  <1>3. mode[p] = "apply" /\ mode[p] # "abort"
    BY <1>1, <1>2 DEF ModeInv
  <1>4. ASSUME disk' = {dir}, Proceed(p, "witness"), pc'[p] = "witness", dir' = dir
        PROVE  PrepInv(p)' /\ FinishInv(p)' /\ OutInv(p)'
    <2>1. PrepInv(p)'
      BY <1>1, <1>2, <1>4 DEF PrepInv, Proceed, Undone, Preparing, staged
    <2>2. FinishInv(p)' /\ OutInv(p)'
      BY <1>4 DEF FinishInv, OutInv, Effecting, Retiring
    <2>3. QED
      BY <2>1, <2>2
  <1>5. SyncDir(p, "witness") /\ UNCHANGED <<hist, hdisk, effects, txns>>
    BY DEF StageSync
  <1>6. QED
    BY <1>1, <1>3, <1>4, <1>5, SyncGoes DEF SyncDir

\* The plan record is synchronized before it is rechecked.
LEMMA PlanSyncKeeps ==
  ASSUME FullInv, NEW p \in Procs, PlanSync(p)
  PROVE  StepInv'
  <1>1. pc[p] = "planSync" /\ pc[p] \in Undone /\ pc[p] \in Undecided
    BY DEF PlanSync, At, Undecided, Undone, Preparing
  <1>2. ModeInv(p) /\ PrepInv(p) /\ dir \in disk
    BY <1>1, Acting
  <1>3. mode[p] = "apply" /\ mode[p] # "abort"
    BY <1>1, <1>2 DEF ModeInv
  <1>4. ASSUME disk' = {dir}, Proceed(p, "recheck"), pc'[p] = "recheck", dir' = dir
        PROVE  PrepInv(p)' /\ FinishInv(p)' /\ OutInv(p)'
    <2>1. PrepInv(p)'
      BY <1>1, <1>2, <1>4 DEF PrepInv, Proceed, Undone, Preparing
    <2>2. FinishInv(p)' /\ OutInv(p)'
      BY <1>4 DEF FinishInv, OutInv, Effecting, Retiring
    <2>3. QED
      BY <2>1, <2>2
  <1>5. SyncDir(p, "recheck") /\ UNCHANGED <<hist, hdisk, effects, txns>>
    BY DEF PlanSync
  <1>6. QED
    BY <1>1, <1>3, <1>4, <1>5, SyncGoes DEF SyncDir

\* The decision becomes durable; only now may a public name change.
LEMMA DecisionSyncKeeps ==
  ASSUME FullInv, NEW p \in Procs, DecisionSync(p)
  PROVE  StepInv'
  <1>1. pc[p] = "decisionSync" /\ pc[p] \in Undecided
    BY DEF DecisionSync, At, Undecided
  <1>2. ModeInv(p) /\ FinishInv(p) /\ OutInv(p)
    BY <1>1, Acting
  <1>3. mode[p] # "abort"
    BY <1>1, <1>2 DEF ModeInv
  <1>4. ASSUME disk' = {dir}, Proceed(p, "finish"), pc'[p] = "finish", dir' = dir
        PROVE  PrepInv(p)' /\ FinishInv(p)' /\ OutInv(p)'
    <2>1. PrepInv(p)'
      BY <1>4 DEF PrepInv, Undone, Preparing
    <2>2. FinishInv(p)'
      BY <1>1, <1>2, <1>4 DEF FinishInv
    <2>3. OutInv(p)'
      BY <1>1, <1>2, <1>4 DEF OutInv, Proceed, Effecting, Retiring
    <2>4. QED
      BY <2>1, <2>2, <2>3
  <1>5. SyncDir(p, "finish") /\ UNCHANGED <<hist, hdisk, effects, txns>>
    BY DEF DecisionSync
  <1>6. "finish" \notin Undecided /\ "finish" \notin Undone
    BY DEF Undecided, Undone, Preparing
  <1>7. QED
    BY <1>1, <1>3, <1>4, <1>5, <1>6, SyncGoes DEF SyncDir

\* What the receipt will stand for: after the last effect of P its documents are
\* the final ones.
LEMMA WholeEffect ==
  ASSUME NEW d, NEW P \in Plan, ActiveShape(d), d["decision"] = P,
         P.op \notin {"delete", "rename"}, d[target(P)] = P.stage
  PROVE  After(d, P)
  <1>1. Sound(P) /\ P.stage # Nil
    BY DEF ActiveShape, Sound
  <1>2. CASE P.op = "clone"
    BY <1>1, <1>2 DEF ActiveShape, Before, Both, After, Sound, target
  <1>3. CASE P.op # "clone"
    BY <1>3 DEF After
  <1>4. QED
    BY <1>2, <1>3

\* The published name becomes durable.
LEMMA PublishSyncKeeps ==
  ASSUME FullInv, NEW p \in Procs, PublishSync(p)
  PROVE  StepInv'
  <1>1. pc[p] = "publishSync" /\ pc[p] \notin Retiring
    BY DEF PublishSync, At, Retiring
  <1>2. /\ ModeInv(p) /\ FinishInv(p) /\ OutInv(p) /\ Holder(p) /\ Shape(dir)
        /\ dir \in disk
    BY <1>1, Acting
  <1>3. mode[p] # "abort"
    BY <1>1, <1>2 DEF ModeInv
  <1> DEFINE label == afterPublish(mem[p])
  <1>4. /\ mem[p].op = "rename" => label = "delete"
        /\ mem[p].op # "rename" => label = "historyCommit"
    BY DEF afterPublish
  <1> HIDE DEF label
  <1>5. /\ mem[p] \in Plan /\ dir["decision"] = mem[p] /\ dir["complete"] = Nil
        /\ \A d \in disk : d["complete"] = Nil
        /\ mem[p].op # "delete" /\ dir[target(mem[p])] = mem[p].stage /\ dir["swap"] = Nil
    BY <1>1, <1>2 DEF FinishInv, Holder, Effecting
  <1>6. ActiveShape(dir)
    BY <1>2, <1>5, ValueFacts DEF Shape, Active
  <1>7. mem[p].op # "rename" => After(dir, mem[p])
    BY <1>5, <1>6, WholeEffect
  <1>8. ASSUME disk' = {dir}, Proceed(p, label), pc'[p] = label, dir' = dir
        PROVE  PrepInv(p)' /\ FinishInv(p)' /\ OutInv(p)'
    <2>1. PrepInv(p)'
      BY <1>4, <1>8 DEF PrepInv, Undone, Preparing
    <2>2. FinishInv(p)'
      <3>1. mem' = mem
        BY <1>8 DEF Proceed
      <3>2. CASE mem[p].op = "rename"
        BY <1>4, <1>5, <1>8, <3>1, <3>2 DEF FinishInv, target
      <3>3. CASE mem[p].op # "rename"
        BY <1>4, <1>5, <1>7, <1>8, <3>1, <3>3 DEF FinishInv, After, target
      <3>4. QED
        BY <3>2, <3>3
    <2>3. OutInv(p)'
      BY <1>1, <1>2, <1>4, <1>8 DEF OutInv, Proceed, Effecting, Retiring
    <2>4. QED
      BY <2>1, <2>2, <2>3
  <1>9. SyncDir(p, label) /\ UNCHANGED <<hist, hdisk, effects, txns>>
    BY DEF PublishSync, label
  <1>10. label \notin Undecided /\ label \notin Undone
    BY <1>4 DEF Undecided, Undone, Preparing
  <1>11. QED
    BY <1>1, <1>3, <1>4, <1>8, <1>9, <1>10, SyncGoes DEF SyncDir

\* The removal of the source becomes durable.
LEMMA DeleteSyncKeeps ==
  ASSUME FullInv, NEW p \in Procs, DeleteSync(p)
  PROVE  StepInv'
  <1>1. pc[p] = "deleteSync" /\ pc[p] \notin Retiring
    BY DEF DeleteSync, At, Retiring
  <1>2. ModeInv(p) /\ FinishInv(p) /\ OutInv(p) /\ dir \in disk
    BY <1>1, Acting
  <1>3. mode[p] # "abort"
    BY <1>1, <1>2 DEF ModeInv
  <1>4. ASSUME disk' = {dir}, Proceed(p, "historyCommit"), pc'[p] = "historyCommit", dir' = dir
        PROVE  PrepInv(p)' /\ FinishInv(p)' /\ OutInv(p)'
    <2>1. PrepInv(p)'
      BY <1>4 DEF PrepInv, Undone, Preparing
    <2>2. FinishInv(p)'
      <3>1. mem' = mem
        BY <1>4 DEF Proceed
      <3>2. dir["swap"] = Nil /\ After(dir, mem[p]) /\ dir["complete"] = Nil
        BY <1>1, <1>2 DEF FinishInv, Effecting
      <3>3. After(dir, mem[p])'
        BY <1>4, <3>1, <3>2 DEF After, target
      <3>4. QED
        BY <1>4, <3>1, <3>2, <3>3 DEF FinishInv
    <2>3. OutInv(p)'
      BY <1>1, <1>2, <1>4 DEF OutInv, Proceed, Effecting, Retiring
    <2>4. QED
      BY <2>1, <2>2, <2>3
  <1>5. SyncDir(p, "historyCommit") /\ UNCHANGED <<hist, hdisk, effects, txns>>
    BY DEF DeleteSync
  <1>6. "historyCommit" \notin Undecided /\ "historyCommit" \notin Undone
    BY DEF Undecided, Undone, Preparing
  <1>7. QED
    BY <1>1, <1>3, <1>4, <1>5, <1>6, SyncGoes DEF SyncDir

\* The removal of an artifact becomes durable.
LEMMA CleanupSyncKeeps ==
  ASSUME FullInv, NEW p \in Procs, CleanupSync(p)
  PROVE  StepInv'
  <1>1. pc[p] = "cleanupSync" /\ pc[p] \in Retiring
    BY DEF CleanupSync, At, Retiring
  <1>2. ModeInv(p) /\ OutInv(p) /\ dir \in disk
    BY <1>1, Acting
  <1>3. ASSUME disk' = {dir}, Proceed(p, "cleanup"), pc'[p] = "cleanup", dir' = dir,
               UNCHANGED <<hdisk, effects>>
        PROVE  PrepInv(p)' /\ FinishInv(p)' /\ OutInv(p)'
    <2>1. PrepInv(p)' /\ FinishInv(p)'
      BY <1>3 DEF PrepInv, FinishInv, Undone, Preparing, Effecting
    <2>2. mem' = mem /\ mode' = mode /\ out' = out
      BY <1>3 DEF Proceed
    <2>3. OutInv(p)'
      BY <1>1, <1>2, <1>3, <2>2 DEF OutInv, Effecting, Retiring, Absent
    <2>4. QED
      BY <2>1, <2>3
  <1>4. SyncDir(p, "cleanup") /\ UNCHANGED <<hist, hdisk, effects, txns>>
    BY DEF CleanupSync
  <1>5. "cleanup" \notin Undecided /\ "cleanup" \notin Undone /\ "cleanup" \in Retiring
    BY DEF Undecided, Undone, Preparing, Retiring
  <1>6. QED
    BY <1>1, <1>3, <1>4, <1>5, SyncGoes DEF SyncDir

-----------------------------------------------------------------------------
(* The steps that change nothing but history and control. *)

\* A step that leaves the repository alone.
LEMMA KeptSame ==
  ASSUME FullInv, NEW p \in Procs, pc[p] # "idle", UNCHANGED <<dir, disk, hist, hdisk, effects>>
  PROVE  /\ Kept /\ Own(p)
         /\ \A h \in hdisk' : \E g \in hdisk : g.events = h.events
  <1>1. dir \in disk /\ hist \in hdisk
    BY Acting
  <1>2. QED
    BY <1>1, KeptShrink

\* HeldInv speaks of the one process that is not idle.
LEMMA Held ==
  ASSUME NEW p \in Procs, lock' = p, pc'[p] # "idle",
         \A q \in Procs : q # p => pc'[q] = "idle" /\ mem'[q] = Nil,
         ModeInv(p)', SyncInv(p)', PrepInv(p)', FinishInv(p)', OutInv(p)'
  PROVE  HeldInv'
  BY DEF HeldInv

\* The conditions of the request hold before anything is prepared, or it is aborted.
LEMMA CheckKeeps ==
  ASSUME FullInv, NEW p \in Procs, Check(p)
  PROVE  StepInv'
  <1>1. /\ pc[p] = "check" /\ pc[p] \in Undone /\ pc[p] \in Undecided
        /\ UNCHANGED <<dir, disk, hist, hdisk, effects, txns>>
    BY DEF Check, At, Undecided, Undone, Preparing
  <1>2. ModeInv(p) /\ PrepInv(p) /\ SyncInv(p)
    BY <1>1, Acting
  <1>3. mode[p] = "apply" /\ mode[p] # "abort" /\ \A d \in disk' : Open(d)
    BY <1>1, <1>2 DEF ModeInv
  <1>4. Kept /\ Own(p) /\ \A h \in hdisk' : \E g \in hdisk : g.events = h.events
    BY <1>1, KeptSame
  <1>5. CASE conditionsHold(req[p].c) /\ Proceed(p, firstStep(req[p].c))
    <2>1. PICK label \in {"witness", "stageCreate"} :
            /\ label = firstStep(req[p].c)
            /\ label = "witness" => req[p].c.op = "delete"
      BY DEF firstStep
    <2>2. disk = {dir} /\ NoArtifacts(dir)
      BY <1>1, <1>2 DEF SyncInv, PrepInv, Synced
    <2>3. dir["stage"] = Nil /\ dir["plan"] = Nil /\ dir["pending"] = Nil
      BY <2>2 DEF NoArtifacts, Artifact, MetaLeaf
    <2>4. ASSUME pc'[p] = label
          PROVE  SyncInv(p)' /\ PrepInv(p)' /\ FinishInv(p)' /\ OutInv(p)'
      <3>1. SyncInv(p)'
        BY <1>1, <2>1, <2>2, <2>4 DEF SyncInv
      <3>2. req' = req
        BY <1>5 DEF Proceed
      <3>3. req[p].c.src # Nil => dir[req[p].c.src] # Nil
        BY <1>5 DEF conditionsHold
      <3>4. PrepInv(p)'
        BY <1>1, <1>2, <2>1, <2>2, <2>3, <2>4, <3>2, <3>3 DEF PrepInv, Undone, Preparing
      <3>5. FinishInv(p)' /\ OutInv(p)'
        BY <2>1, <2>4 DEF FinishInv, OutInv, Effecting, Retiring
      <3>6. QED
        BY <3>1, <3>4, <3>5
    <2>5. QED
      BY <1>1, <1>3, <1>4, <1>5, <2>1, <2>4, Proceeds
  <1>6. CASE Fail(p)
    BY <1>1, <1>4, <1>6, FailsInPlace
  <1>7. QED
    BY <1>5, <1>6 DEF Check

\* The conditions hold again under the written plan.
LEMMA RecheckKeeps ==
  ASSUME FullInv, NEW p \in Procs, Recheck(p)
  PROVE  StepInv'
  <1>1. /\ pc[p] = "recheck" /\ pc[p] \in Undone /\ pc[p] \in Undecided
        /\ UNCHANGED <<dir, disk, hist, hdisk, effects, txns>>
    BY DEF Recheck, At, Undecided, Undone, Preparing
  <1>2. ModeInv(p) /\ PrepInv(p) /\ SyncInv(p)
    BY <1>1, Acting
  <1>3. mode[p] = "apply" /\ mode[p] # "abort" /\ \A d \in disk' : Open(d)
    BY <1>1, <1>2 DEF ModeInv
  <1>4. Kept /\ Own(p) /\ \A h \in hdisk' : \E g \in hdisk : g.events = h.events
    BY <1>1, KeptSame
  <1>5. CASE Before(dir, dir["plan"]) /\ Proceed(p, "validate")
    <2>1. disk = {dir}
      BY <1>1, <1>2 DEF SyncInv, Synced
    <2>2. ASSUME pc'[p] = "validate"
          PROVE  SyncInv(p)' /\ PrepInv(p)' /\ FinishInv(p)' /\ OutInv(p)'
      <3>1. SyncInv(p)'
        BY <1>1, <2>1 DEF SyncInv
      <3>2. req' = req
        BY <1>5 DEF Proceed
      <3>3. PrepInv(p)'
        BY <1>1, <1>2, <1>5, <2>2, <3>2 DEF PrepInv, Before, Undone, Preparing
      <3>4. FinishInv(p)' /\ OutInv(p)'
        BY <2>2 DEF FinishInv, OutInv, Effecting, Retiring
      <3>5. QED
        BY <3>1, <3>3, <3>4
    <2>3. "validate" \in Undone
      BY DEF Undone
    <2>4. QED
      BY <1>1, <1>3, <1>4, <1>5, <2>2, Proceeds
  <1>6. CASE Fail(p)
    BY <1>1, <1>4, <1>6, FailsInPlace
  <1>7. QED
    BY <1>5, <1>6 DEF Recheck, Before

\* A directory without a plan owes nothing to a witness.
LEMMA OwesNothing ==
  ASSUME NEW d, Open(d), d["plan"] = Nil, d["pending"] = Nil, NEW h
  PROVE  Owes(d, h)
  BY DEF Owes, Open, planOf, record, decodes

\* A half-written witness belongs to no plan yet.
LEMMA HistoryPrepareKeeps ==
  ASSUME FullInv, NEW p \in Procs, HistoryPrepare(p)
  PROVE  StepInv'
  <1>1. /\ pc[p] = "witness" /\ pc[p] \in Undone /\ pc[p] \in Undecided
        /\ UNCHANGED <<dir, disk, effects, txns>>
    BY DEF HistoryPrepare, At, Undecided, Undone, Preparing
  <1>2. /\ ModeInv(p) /\ PrepInv(p) /\ SyncInv(p)
        /\ hist \in HistType /\ hist \in hdisk
    BY <1>1, Acting
  <1>3. mode[p] = "apply" /\ mode[p] # "abort" /\ \A d \in disk : Open(d)
    BY <1>1, <1>2 DEF ModeInv
  <1>4. \A w : witnessed(p, w).events = hist.events
    BY <1>2 DEF witnessed, HistType
  <1>5. \A h \in hdisk' : h \in hdisk \/ \E w : h = witnessed(p, w)
    BY DEF HistoryPrepare
  <1>6. hist' \in hdisk'
    BY <1>2 DEF HistoryPrepare
  <1>7. \A d \in disk : \A h : Owes(d, h)
    BY <1>1, <1>2, <1>3, OwesNothing DEF PrepInv
  <1>8. \A h \in hdisk' : \E g \in hdisk : g.events = h.events
    BY <1>2, <1>4, <1>5
  <1>9. Kept /\ Own(p)
    BY <1>1, <1>4, <1>5, <1>6, <1>7, KeptWitness
  <1>10. CASE Proceed(p, "witnessReady")
    <2>1. disk = {dir}
      BY <1>1, <1>2 DEF SyncInv, Synced
    <2>2. ASSUME pc'[p] = "witnessReady"
          PROVE  SyncInv(p)' /\ PrepInv(p)' /\ FinishInv(p)' /\ OutInv(p)'
      <3>1. SyncInv(p)'
        BY <1>1, <2>1 DEF SyncInv
      <3>2. req' = req
        BY <1>10 DEF Proceed
      <3>3. PrepInv(p)'
        BY <1>1, <1>2, <2>2, <3>2 DEF PrepInv, Undone, Preparing, staged
      <3>4. FinishInv(p)' /\ OutInv(p)'
        BY <2>2 DEF FinishInv, OutInv, Effecting, Retiring
      <3>5. QED
        BY <3>1, <3>3, <3>4
    <2>3. QED
      BY <1>1, <1>3, <1>9, <1>10, <2>2, Proceeds
  <1>11. CASE Fail(p)
    BY <1>1, <1>8, <1>9, <1>11, FailsInPlace
  <1>12. QED
    BY <1>10, <1>11 DEF HistoryPrepare

\* The witness is complete before the plan that needs it exists.
LEMMA HistoryReadyKeeps ==
  ASSUME FullInv, NEW p \in Procs, HistoryReady(p)
  PROVE  StepInv'
  <1>1. /\ pc[p] = "witnessReady" /\ pc[p] \in Undone /\ pc[p] \in Undecided
        /\ UNCHANGED <<dir, disk, effects, txns>>
    BY DEF HistoryReady, At, Undecided, Undone, Preparing
  <1>2. /\ ModeInv(p) /\ PrepInv(p) /\ SyncInv(p)
        /\ hist \in HistType /\ hist \in hdisk
    BY <1>1, Acting
  <1>3. /\ mode[p] = "apply" /\ mode[p] # "abort" /\ \A d \in disk : Open(d)
        /\ req[p].id \in Ids
    BY <1>1, <1>2 DEF ModeInv, Request
  <1>4. \A w : witnessed(p, w).events = hist.events /\ witnessed(p, w).wit[req[p].id] = w
    BY <1>2, <1>3 DEF witnessed, HistType
  <1>5. \A h \in hdisk' : h \in hdisk \/ \E w : h = witnessed(p, w)
    BY DEF HistoryReady
  <1>6. hist' \in hdisk'
    BY <1>2 DEF HistoryReady
  <1>7. \A d \in disk : \A h : Owes(d, h)
    BY <1>1, <1>2, <1>3, OwesNothing DEF PrepInv
  <1>8. \A h \in hdisk' : \E g \in hdisk : g.events = h.events
    BY <1>2, <1>4, <1>5
  <1>9. Kept /\ Own(p)
    BY <1>1, <1>4, <1>5, <1>6, <1>7, KeptWitness
  <1>10. CASE hist' = witnessed(p, "ready") /\ hdisk' = {hist'} /\ Proceed(p, "pendingCreate")
    <2>1. disk = {dir}
      BY <1>1, <1>2 DEF SyncInv, Synced
    <2>2. ASSUME pc'[p] = "pendingCreate"
          PROVE  SyncInv(p)' /\ PrepInv(p)' /\ FinishInv(p)' /\ OutInv(p)'
      <3>1. SyncInv(p)'
        BY <1>1, <2>1 DEF SyncInv
      <3>2. req' = req
        BY <1>10 DEF Proceed
      <3>3. \A h \in hdisk' : h.wit[req[p].id] = "ready"
        BY <1>4, <1>10
      <3>4. PrepInv(p)'
        BY <1>1, <1>2, <2>2, <3>2, <3>3 DEF PrepInv, Undone, Preparing, staged
      <3>5. FinishInv(p)' /\ OutInv(p)'
        BY <2>2 DEF FinishInv, OutInv, Effecting, Retiring
      <3>6. QED
        BY <3>1, <3>4, <3>5
    <2>3. QED
      BY <1>1, <1>3, <1>9, <1>10, <2>2, Proceeds
  <1>11. CASE Fail(p)
    BY <1>1, <1>8, <1>9, <1>11, FailsInPlace
  <1>12. QED
    BY <1>10, <1>11 DEF HistoryReady

\* The decision is about the plan, and a refusal here denies the request.
LEMMA ValidateKeeps ==
  ASSUME FullInv, NEW p \in Procs, Validate(p)
  PROVE  StepInv'
  <1>1. /\ pc[p] = "validate" /\ pc[p] \in Undone /\ pc[p] \in Undecided /\ pc[p] # "idle"
        /\ UNCHANGED <<dir, disk, hist, hdisk, effects, txns>>
    BY DEF Validate, At, Undecided, Undone
  <1>2. /\ ModeInv(p) /\ PrepInv(p) /\ SyncInv(p) /\ Fresh /\ Claims /\ Holder(p)
        /\ lock = p /\ CtlOK /\ dir \in disk
    BY <1>1, Acting
  <1>3. mode[p] = "apply" /\ req[p].id \in Ids /\ Absent(req[p].id) /\ \A d \in disk : Open(d)
    BY <1>1, <1>2 DEF ModeInv, Request
  <1>4. Kept /\ Own(p)
    BY <1>1, KeptSame
  <1>5. CASE /\ Goto(p, "decide") /\ out' = [out EXCEPT ![p] = "unknown"]
             /\ mem' = [mem EXCEPT ![p] = dir["plan"]] /\ UNCHANGED <<lock, mode, req, verdict>>
    <2>1. /\ pc'[p] = "decide" /\ mem'[p] = dir["plan"] /\ out'[p] = "unknown" /\ lock' = p
          /\ \A q \in Procs : q # p => pc'[q] = "idle" /\ mem'[q] = Nil
      BY <1>2, <1>5 DEF Goto, CtlOK, FullInv, HeldInv, IndInv, HolderHasEvidence
    <2>2. dir["plan"] \in Plan /\ dir["plan"].id = req[p].id
      BY <1>1, <1>2 DEF PrepInv, Holder
    <2>3. ModeInv(p)'
      BY <1>1, <1>2, <1>3, <1>5, <2>1, <2>2 DEF ModeInv, Absent, Undecided, Undone, Preparing
    <2>4. SyncInv(p)'
      BY <1>1, <1>2, <2>1 DEF SyncInv, Synced
    <2>5. PrepInv(p)'
      BY <1>1, <1>2, <1>5, <2>1 DEF PrepInv, Undone, Preparing
    <2>6. FinishInv(p)' /\ OutInv(p)'
      BY <2>1 DEF FinishInv, OutInv, Effecting, Retiring
    <2>7. HeldInv'
      BY <2>1, <2>3, <2>4, <2>5, <2>6, Held
    <2>8. Fresh' /\ Claims'
      BY <1>1, <1>2, <1>4, <1>5 DEF Fresh, Claims, Kept, said
    <2>9. QED
      BY <1>4, <2>7, <2>8 DEF StepInv, Kept
  <1>6. CASE Return(p, "not_committed", TRUE)
    <2>1. \A i \in Ids : i \in subject(p) => Denied(i)'
      <3>1. subject(p) = {req[p].id}
        BY <1>3 DEF subject
      <3>2. \A i \in Ids : Absent(i) => Denied(i)'
        BY <1>1, <1>3 DEF Absent, Denied, Open, Active
      <3>3. QED
        BY <1>3, <3>1, <3>2
    <2>2. QED
      BY <1>1, <1>4, <1>6, <2>1, Returns DEF States
  <1>7. QED
    BY <1>5, <1>6 DEF Validate

\* What the evidence allows a roll-forward to do next.
LEMMA ResumeFacts ==
  ASSUME NEW P \in Plan, dir["decision"] = P, dir["complete"] = Nil, ActiveShape(dir),
         resume(P) # "refuse"
  PROVE  /\ resume(P) \in {"delete", "publishSync", "swapLink", "publish"}
         /\ resume(P) = "delete" => P.op = "delete" /\ dir["swap"] = Nil
         /\ resume(P) = "publishSync" =>
               P.op # "delete" /\ dir[target(P)] = P.stage /\ dir["swap"] = Nil
         /\ resume(P) = "swapLink" => P.op = "replace" /\ Before(dir, P)
         /\ resume(P) = "publish" =>
               P.op # "delete" /\ Before(dir, P) /\ (P.op = "replace" => dir["swap"] = P.stage)
  <1>1. Sound(P) /\ (dir["swap"] # Nil => P.op = "replace" /\ dir["swap"] = P.stage
                                          /\ dir[P.src] = P.before)
    BY DEF ActiveShape
  <1>2. resume(P) \in {"delete", "publishSync", "swapLink", "publish"}
    BY DEF resume
  <1>3. resume(P) = "delete" => P.op = "delete" /\ dir["swap"] = Nil
    BY <1>1 DEF resume
  <1>4. resume(P) = "publishSync" =>
               P.op # "delete" /\ dir[target(P)] = P.stage /\ dir["swap"] = Nil
    BY <1>1 DEF resume, alreadyPublished, target, Sound
  <1>5. resume(P) = "swapLink" => P.op = "replace" /\ Before(dir, P)
    BY <1>1 DEF resume, target, Sound, Before
  <1>6. resume(P) = "publish" =>
               P.op # "delete" /\ Before(dir, P) /\ (P.op = "replace" => dir["swap"] = P.stage)
    BY <1>1 DEF resume, target, Sound, Before
  <1>7. QED
    BY <1>2, <1>3, <1>4, <1>5, <1>6

\* finish goes on where the evidence says an earlier process stopped.
LEMMA FinishKeeps ==
  ASSUME FullInv, NEW p \in Procs, Finish(p)
  PROVE  StepInv'
  <1>1. /\ pc[p] = "finish" /\ pc[p] # "idle" /\ pc[p] \in Effecting
        /\ UNCHANGED <<dir, disk, hist, hdisk, effects, txns>>
    BY DEF Finish, At, Effecting
  <1>2. /\ ModeInv(p) /\ SyncInv(p) /\ FinishInv(p) /\ OutInv(p) /\ Holder(p)
        /\ Shape(dir) /\ dir \in disk
    BY <1>1, Acting
  <1>3. /\ mode[p] # "abort" /\ disk = {dir} /\ out[p] = "unknown" /\ mem[p] \in Plan
        /\ dir["decision"] = mem[p] /\ \A d \in disk : d["complete"] = Nil
    BY <1>1, <1>2 DEF ModeInv, SyncInv, FinishInv, OutInv, Holder, Effecting, Retiring, Synced
  <1>4. Kept /\ Own(p)
    BY <1>1, KeptSame
  <1>5. CASE resume(mem[p]) # "refuse" /\ Proceed(p, resume(mem[p]))
    <2>1. ActiveShape(dir)
      BY <1>2, <1>3, ValueFacts DEF Shape, Active
    <2> DEFINE label == resume(mem[p])
    <2>2. /\ label \in {"delete", "publishSync", "swapLink", "publish"}
          /\ label = "delete" => mem[p].op = "delete" /\ dir["swap"] = Nil
          /\ label = "publishSync" =>
                mem[p].op # "delete" /\ dir[target(mem[p])] = mem[p].stage /\ dir["swap"] = Nil
          /\ label = "swapLink" => mem[p].op = "replace" /\ Before(dir, mem[p])
          /\ label = "publish" => /\ mem[p].op # "delete" /\ Before(dir, mem[p])
                                  /\ mem[p].op = "replace" => dir["swap"] = mem[p].stage
      BY <1>3, <1>5, <2>1, ResumeFacts
    <2> HIDE DEF label
    <2>3. label \notin Undecided /\ label \notin Undone
      BY <2>2 DEF Undecided, Undone, Preparing
    <2>4. ASSUME pc'[p] = label
          PROVE  SyncInv(p)' /\ PrepInv(p)' /\ FinishInv(p)' /\ OutInv(p)'
      <3>1. mem' = mem /\ out' = out /\ mode' = mode
        BY <1>5 DEF Proceed
      <3>2. SyncInv(p)'
        BY <1>1, <1>3 DEF SyncInv
      <3>3. PrepInv(p)'
        BY <2>2, <2>4 DEF PrepInv, Undone, Preparing
      <3>4. Before(dir, mem[p])' <=> Before(dir, mem[p])
        BY <1>1, <3>1 DEF Before
      <3>5. FinishInv(p)'
        BY <1>1, <1>3, <2>2, <2>4, <3>1, <3>4 DEF FinishInv, target
      <3>6. OutInv(p)'
        BY <1>3, <2>2, <2>4, <3>1 DEF OutInv, Effecting, Retiring
      <3>7. QED
        BY <3>2, <3>3, <3>5, <3>6
    <2>5. Proceed(p, label)
      BY <1>5 DEF label
    <2>6. QED
      BY <1>1, <1>3, <1>4, <2>2, <2>3, <2>4, <2>5, Proceeds
  <1>6. CASE Fail(p)
    BY <1>1, <1>4, <1>6, FailsForward
  <1>7. QED
    BY <1>5, <1>6 DEF Finish

\* The event of the decision every directory carries.
LEMMA KeptCommit ==
  ASSUME FullInv, NEW p \in Procs, pc[p] \in {"historyCommit", "historyBind"},
         UNCHANGED <<dir, disk, effects>>,
         NEW g, g.wit = hist.wit, g.events \in {hist.events, hist.events \cup {mem[p].id}},
         hist' \in hdisk', hdisk' \subseteq hdisk \cup {g}
  PROVE  Kept /\ Own(p)
  <1>1. /\ StoreInv /\ Fresh /\ Claims /\ ModeInv(p) /\ SyncInv(p) /\ FinishInv(p) /\ Holder(p)
        /\ hist \in HistType /\ hist \in hdisk /\ dir \in disk /\ txns \in Nat
    BY Acting
  <1>2. /\ disk = {dir} /\ dir["decision"] = mem[p] /\ dir["complete"] = Nil
        /\ mem[p] \in Plan /\ mem[p].id <= txns
    BY <1>1, ValueFacts DEF SyncInv, FinishInv, ModeInv, Holder, Effecting, Synced
  <1>3. Active(dir) /\ ~Open(dir) /\ planOf(dir) = mem[p] /\ mem[p].id \in Ids
    BY <1>2, ValueFacts DEF Active, Open, planOf, record, Plan
  <1>4. hist.events \subseteq g.events /\ g.events \subseteq hist.events \cup {mem[p].id}
    OBVIOUS
  <1>5. StoreInv'
    <2>1. Directories'
      BY <1>1 DEF StoreInv, Directories
    <2>2. \A d \in disk, h \in hdisk' : Owes(d, h)
      <3>1. Owes(dir, hist)
        BY <1>1 DEF StoreInv, Events
      <3>2. Owes(dir, g)
        BY <1>2, <1>3, <1>4, <3>1 DEF Owes
      <3>3. QED
        BY <1>1, <1>2, <3>2 DEF StoreInv, Events
    <2>3. \A f, h \in hdisk', i \in Ids :
            i \in f.events /\ i \notin h.events => \A d \in disk : Active(d) /\ d["decision"].id = i
      <3> SUFFICES ASSUME NEW f \in hdisk', NEW h \in hdisk', NEW i \in Ids,
                          i \in f.events, i \notin h.events
                   PROVE  Active(dir) /\ dir["decision"].id = i
        BY <1>2
      <3>1. CASE i = mem[p].id
        BY <1>2, <1>3, <3>1
      <3>2. CASE i # mem[p].id
        <4>1. \E e \in hdisk : i \in e.events
          BY <1>1, <1>4, <3>2
        <4>2. \E e \in hdisk : i \notin e.events
          BY <1>1, <1>4, <3>2
        <4>3. QED
          BY <1>1, <4>1, <4>2 DEF StoreInv, Events
      <3>3. QED
        BY <3>1, <3>2
    <2>4. QED
      BY <1>2, <1>3, <2>1, <2>2, <2>3 DEF StoreInv, Events
  <1>6. EffectsAreDecided'
    BY <1>1, <1>4 DEF Claims, EffectsAreDecided
  <1>7. \A i \in Ids : Absent(i) /\ i # mem[p].id => Absent(i)'
    BY <1>1, <1>4 DEF Absent
  <1>8. \A i \in Ids : "not_committed" \in said(i) => Denied(i)'
    BY <1>1, <1>2, <1>3, <1>7 DEF Claims, Denied
  <1>9. \A i \in Ids : "committed" \in said(i) => Confirmed(i)'
    BY <1>1, <1>4 DEF Claims, Confirmed
  <1>10. \A i \in Ids : i > txns => i # mem[p].id
    BY <1>1, <1>2, <1>3 DEF Ids
  <1>11. Kept
    BY <1>1, <1>5, <1>6, <1>7, <1>8, <1>9, <1>10 DEF Kept, Fresh
  <1>12. Own(p)
    <2>1. mode[p] # "abort" /\ pc[p] \notin Undecided
      BY <1>1 DEF ModeInv, Undecided, Undone, Preparing, Retiring
    <2>2. mode[p] = "settle" => req[p].id # mem[p].id
      BY <1>1, <1>2 DEF ModeInv, Without, MetaLeaf
    <2>3. QED
      BY <1>1, <1>7, <2>1, <2>2 DEF Own, ModeInv
  <1>13. QED
    BY <1>11, <1>12

\* The event is begun after the whole effect.
LEMMA HistoryCommitKeeps ==
  ASSUME FullInv, NEW p \in Procs, HistoryCommit(p)
  PROVE  StepInv'
  <1>1. /\ pc[p] = "historyCommit" /\ pc[p] # "idle" /\ pc[p] \in Effecting
        /\ UNCHANGED <<dir, disk, effects, txns>>
    BY DEF HistoryCommit, At, Effecting
  <1>2. /\ ModeInv(p) /\ SyncInv(p) /\ FinishInv(p) /\ OutInv(p) /\ Holder(p)
        /\ hist \in HistType /\ hist \in hdisk /\ dir \in disk
    BY <1>1, Acting
  <1>3. /\ mode[p] # "abort" /\ disk = {dir} /\ out[p] = "unknown"
        /\ dir["swap"] = Nil /\ After(dir, mem[p]) /\ \A d \in disk : d["complete"] = Nil
    BY <1>1, <1>2 DEF ModeInv, SyncInv, FinishInv, OutInv, Effecting, Retiring, Synced
  <1> DEFINE writing == \E e \in {hist.events, hist.events \cup {mem[p].id}}, b \in BOOLEAN :
                           hist' = [hist EXCEPT !.events = e, !.refuses = b]
  <1>4. writing => hist'.wit = hist.wit
                   /\ hist'.events \in {hist.events, hist.events \cup {mem[p].id}}
    <2>1. mem[p] \in Plan
      BY <1>1, <1>2 DEF Holder
    <2> SUFFICES ASSUME writing
                 PROVE  hist'.wit = hist.wit
                        /\ hist'.events \in {hist.events, hist.events \cup {mem[p].id}}
      OBVIOUS
    <2>2. PICK e \in {hist.events, hist.events \cup {mem[p].id}}, b \in BOOLEAN :
            hist' = [hist EXCEPT !.events = e, !.refuses = b]
      OBVIOUS
    <2>3. QED
      BY <1>2, <2>1, <2>2, PartwayFacts
  <1> HIDE DEF writing
  <1>5. CASE writing /\ hdisk' = hdisk \cup {hist'}
    <2>1. Kept /\ Own(p)
      BY <1>1, <1>4, <1>5, KeptCommit
    <2>2. CASE Proceed(p, "historyBind")
      <3>1. ASSUME pc'[p] = "historyBind"
            PROVE  SyncInv(p)' /\ PrepInv(p)' /\ FinishInv(p)' /\ OutInv(p)'
        <4>1. mem' = mem /\ out' = out /\ mode' = mode
          BY <2>2 DEF Proceed
        <4>2. SyncInv(p)'
          BY <1>1, <1>3 DEF SyncInv
        <4>3. PrepInv(p)'
          BY <3>1 DEF PrepInv, Undone, Preparing
        <4>4. After(dir, mem[p])'
          BY <1>1, <1>3, <4>1 DEF After, target
        <4>5. FinishInv(p)'
          BY <1>1, <1>3, <3>1, <4>1, <4>4 DEF FinishInv
        <4>6. OutInv(p)'
          BY <1>3, <3>1, <4>1 DEF OutInv, Effecting, Retiring
        <4>7. QED
          BY <4>2, <4>3, <4>5, <4>6
      <3>2. "historyBind" \notin Undecided /\ "historyBind" \notin Undone
        BY DEF Undecided, Undone, Preparing
      <3>3. QED
        BY <1>1, <1>3, <2>1, <2>2, <3>1, <3>2, Proceeds
    <2>3. CASE Fail(p)
      BY <1>1, <2>1, <2>3, FailsForward
    <2>4. QED
      BY <1>1, <1>5, <2>2, <2>3 DEF HistoryCommit, writing
  <1>6. CASE Fail(p) /\ UNCHANGED <<hist, hdisk>>
    <2>1. Kept /\ Own(p)
      BY <1>1, <1>6, KeptSame
    <2>2. QED
      BY <1>1, <1>6, <2>1, FailsForward
  <1>7. QED
    BY <1>5, <1>6 DEF HistoryCommit, writing

\* The event is published when its bindings and retention are through.
LEMMA HistoryBindKeeps ==
  ASSUME FullInv, NEW p \in Procs, HistoryBind(p)
  PROVE  StepInv'
  <1>1. /\ pc[p] = "historyBind" /\ pc[p] # "idle" /\ pc[p] \in Effecting
        /\ UNCHANGED <<dir, disk, effects, txns>>
    BY DEF HistoryBind, At, Effecting
  <1>2. /\ ModeInv(p) /\ SyncInv(p) /\ FinishInv(p) /\ OutInv(p) /\ Holder(p)
        /\ hist \in HistType /\ hist \in hdisk /\ dir \in disk
    BY <1>1, Acting
  <1>3. /\ mode[p] # "abort" /\ disk = {dir} /\ out[p] = "unknown"
        /\ dir["swap"] = Nil /\ After(dir, mem[p]) /\ \A d \in disk : d["complete"] = Nil
    BY <1>1, <1>2 DEF ModeInv, SyncInv, FinishInv, OutInv, Effecting, Retiring, Synced
  <1> DEFINE g == [hist EXCEPT !.events = @ \cup {mem[p].id}, !.refuses = FALSE]
  <1>4. /\ mem[p].id \in g.events /\ g.wit = hist.wit
        /\ g.events = hist.events \cup {mem[p].id}
    BY <1>2 DEF HistType
  <1> HIDE DEF g
  <1>5. CASE HistoryCall(p, g, "completePublish")
    <2>1. hist' \in hdisk' /\ hdisk' \subseteq hdisk \cup {g}
      BY <1>2, <1>5 DEF HistoryCall
    <2>2. Kept /\ Own(p)
      BY <1>1, <1>4, <2>1, KeptCommit
    <2>3. CASE hdisk' = {g} /\ Proceed(p, "completePublish")
      <3>1. ASSUME pc'[p] = "completePublish"
            PROVE  SyncInv(p)' /\ PrepInv(p)' /\ FinishInv(p)' /\ OutInv(p)'
        <4>1. mem' = mem /\ out' = out /\ mode' = mode
          BY <2>3 DEF Proceed
        <4>2. SyncInv(p)'
          BY <1>1, <1>3 DEF SyncInv
        <4>3. PrepInv(p)'
          BY <3>1 DEF PrepInv, Undone, Preparing
        <4>4. After(dir, mem[p])'
          BY <1>1, <1>3, <4>1 DEF After, target
        <4>5. FinishInv(p)'
          BY <1>1, <1>3, <1>4, <2>3, <3>1, <4>1, <4>4 DEF FinishInv
        <4>6. OutInv(p)'
          BY <1>3, <3>1, <4>1 DEF OutInv, Effecting, Retiring
        <4>7. QED
          BY <4>2, <4>3, <4>5, <4>6
      <3>2. "completePublish" \notin Undecided /\ "completePublish" \notin Undone
        BY DEF Undecided, Undone, Preparing
      <3>3. QED
        BY <1>1, <1>3, <2>2, <2>3, <3>1, <3>2, Proceeds
    <2>4. CASE Fail(p)
      BY <1>1, <2>2, <2>4, FailsForward
    <2>5. QED
      BY <1>5, <2>3, <2>4 DEF HistoryCall
  <1>6. QED
    BY <1>5 DEF HistoryBind, g

\* The receipt becomes durable, and the transaction is committed.
LEMMA CompleteSyncKeeps ==
  ASSUME FullInv, NEW p \in Procs, CompleteSync(p)
  PROVE  StepInv'
  <1>1. /\ pc[p] \in {"completeSync", "completeRecoverySync"} /\ pc[p] # "idle"
        /\ pc[p] \in Effecting \cup {"completeRecoverySync"}
        /\ UNCHANGED <<dir, hist, hdisk, effects, txns>>
    BY DEF CompleteSync, Effecting
  <1>2. /\ StoreInv /\ Fresh /\ Claims /\ ModeInv(p) /\ FinishInv(p) /\ Holder(p) /\ CtlOK
        /\ lock = p /\ Shape(dir) /\ dir \in disk /\ hist \in hdisk
    BY <1>1, Acting
  <1>3. mem[p] # Nil /\ dir["complete"] = mem[p] /\ mode[p] # "abort"
    BY <1>1, <1>2 DEF FinishInv, ModeInv, Retiring
  <1>4. mem[p] \in Plan /\ mem[p].id \in Ids
    BY <1>2, <1>3 DEF CtlOK, Plan
  <1>5. disk' \subseteq disk /\ dir' \in disk'
    BY <1>1, <1>2 DEF CompleteSync
  <1>6. Kept /\ Own(p)
    BY <1>1, <1>2, <1>5, KeptShrink
  <1>7. \A h \in hdisk' : mem[p].id \in h.events
    BY <1>1, <1>2, <1>3 DEF StoreInv, Events, Owes
  <1>8. CASE disk' = {dir} /\ Goto(p, "cleanup") /\ out' = [out EXCEPT ![p] = "committed"]
             /\ UNCHANGED <<lock, mode, req, mem, verdict>>
    <2>1. /\ pc'[p] = "cleanup" /\ out'[p] = "committed" /\ lock' = p
          /\ \A q \in Procs : q # p => pc'[q] = "idle" /\ mem'[q] = Nil
      BY <1>2, <1>8 DEF Goto, CtlOK, FullInv, HeldInv, IndInv, HolderHasEvidence
    <2>2. ModeInv(p)'
      <3>1. mode[p] = "settle" => Absent(req[p].id)'
        BY <1>2, <1>8, <1>6 DEF ModeInv, Own, Request, Absent
      <3>2. mode[p] = "settle" => \A d \in disk' : Without(d, req[p].id)
        BY <1>2, <1>5 DEF ModeInv
      <3>3. pc'[p] \notin Undecided /\ pc'[p] \notin Undone
        BY <2>1 DEF Undecided, Undone, Preparing
      <3>4. mode' = mode /\ mem' = mem /\ req' = req /\ verdict' = verdict /\ txns' = txns
        BY <1>1, <1>8
      <3>5. QED
        BY <1>2, <1>3, <2>1, <3>1, <3>2, <3>3, <3>4 DEF ModeInv
    <2>3. SyncInv(p)'
      BY <1>1, <1>8 DEF SyncInv
    <2>4. PrepInv(p)' /\ FinishInv(p)'
      BY <2>1 DEF PrepInv, FinishInv, Undone, Preparing, Effecting
    <2>5. OutInv(p)'
      <3>1. \A d \in disk' : record(d) # Nil => d["complete"] = mem[p]
        BY <1>3, <1>8
      <3>2. QED
        BY <1>3, <1>7, <1>8, <2>1, <3>1 DEF OutInv, Effecting
    <2>6. HeldInv'
      BY <2>1, <2>2, <2>3, <2>4, <2>5, Held
    <2>7. Fresh' /\ Claims'
      BY <1>1, <1>2, <1>6, <1>8 DEF Fresh, Claims, Kept, said
    <2>8. QED
      BY <1>6, <2>6, <2>7 DEF StepInv, Kept
  <1>9. CASE disk' = {dir}
             /\ Return(p, IF mode[p] = "settle" THEN "not_committed" ELSE "committed", TRUE)
    <2>1. CASE mode[p] = "settle"
      <3>1. \A i \in Ids : i \in subject(p) => Denied(i)'
        BY <1>6, <2>1, SettleTrue DEF subject
      <3>2. Return(p, "not_committed", TRUE)
        BY <1>9, <2>1
      <3>3. QED
        BY <1>1, <1>6, <3>1, <3>2, Returns DEF States
    <2>2. CASE mode[p] # "settle"
      <3>1. \A i \in Ids : i \in subject(p) => i = mem[p].id
        BY <1>2, <1>3, <2>2 DEF ModeInv, subject, CtlOK
      <3>2. \A i \in Ids : i = mem[p].id => Confirmed(i)'
        <4>1. \A d \in disk' : d["complete"] # Nil
          BY <1>3, <1>9
        <4>2. QED
          BY <1>7, <4>1 DEF Confirmed
      <3>3. Return(p, "committed", TRUE)
        BY <1>9, <2>2
      <3>4. QED
        BY <1>1, <1>6, <3>1, <3>2, <3>3, Returns DEF States
    <2>3. QED
      BY <2>1, <2>2
  <1>10. CASE Fail(p)
    BY <1>1, <1>6, <1>10, FailsForward
  <1>11. QED
    BY <1>8, <1>9, <1>10 DEF CompleteSync

\* Witnesses go after the artifacts, and the caller is told.
LEMMA HistoryAbortKeeps ==
  ASSUME FullInv, NEW p \in Procs, HistoryAbort(p)
  PROVE  StepInv'
  <1>1. /\ pc[p] = "historyAbort" /\ pc[p] # "idle" /\ pc[p] \in Retiring
        /\ UNCHANGED <<dir, disk, effects, txns>>
    BY DEF HistoryAbort, At, Retiring
  <1>2. /\ ModeInv(p) /\ SyncInv(p) /\ OutInv(p) /\ Holder(p) /\ CtlOK /\ Fresh /\ Claims
        /\ lock = p /\ hist \in HistType /\ hist \in hdisk /\ dir \in disk
    BY <1>1, Acting
  <1>3. disk = {dir} /\ NoArtifacts(dir)
    BY <1>1, <1>2 DEF SyncInv, Synced, Holder, NoArtifacts, artifacts
  <1>4. Open(dir) /\ dir["plan"] = Nil /\ dir["pending"] = Nil
    BY <1>3 DEF NoArtifacts, Open, Artifact, MetaLeaf
  <1> DEFINE h == [hist EXCEPT !.wit = [i \in Ids |-> "none"]]
  <1>5. h.events = hist.events
    BY <1>2 DEF HistType
  <1> HIDE DEF h
  <1>6. hist' \in hdisk' /\ \A g \in hdisk' : g \in hdisk \/ g = h
    BY <1>2 DEF HistoryAbort, h
  <1>7. \A d \in disk : \A g : Owes(d, g)
    BY <1>3, <1>4, OwesNothing
  <1>8. \A g \in hdisk' : \E f \in hdisk : f.events = g.events
    BY <1>2, <1>5, <1>6
  <1>9. Kept /\ Own(p)
    BY <1>1, <1>5, <1>6, <1>7, KeptWitness
  <1>10. CASE Settled(p) /\ mode[p] = "settle"
    <2>1. /\ pc'[p] = "check" /\ mode'[p] = "apply" /\ mem'[p] = Nil /\ lock' = p
          /\ out'[p] = "not_committed" /\ req' = req /\ verdict' = verdict
          /\ \A q \in Procs : q # p => pc'[q] = "idle" /\ mem'[q] = Nil
      BY <1>2, <1>10 DEF Settled, Goto, CtlOK, FullInv, HeldInv, IndInv, HolderHasEvidence
    <2>2. ModeInv(p)'
      <3>1. /\ req[p] \in Request /\ req[p].id <= txns /\ verdict[req[p].id] = {}
            /\ Absent(req[p].id)'
        BY <1>2, <1>9, <1>10, <2>1 DEF ModeInv, Own, Request, Absent
      <3>2. QED
        BY <1>1, <1>3, <1>4, <2>1, <3>1 DEF ModeInv
    <2>3. SyncInv(p)'
      BY <1>1, <1>3 DEF SyncInv
    <2>4. PrepInv(p)'
      <3>1. \A n \in Names : dir[n] # Nil => dir[n].ino # req[p].id
        BY <1>2, <1>10 DEF ModeInv, Without, DocLeaf
      <3>2. QED
        BY <1>1, <1>3, <2>1, <3>1 DEF PrepInv
    <2>5. FinishInv(p)' /\ OutInv(p)'
      BY <2>1 DEF FinishInv, OutInv, Effecting, Retiring
    <2>6. HeldInv'
      BY <2>1, <2>2, <2>3, <2>4, <2>5, Held
    <2>7. Fresh' /\ Claims'
      BY <1>1, <1>2, <1>9, <2>1 DEF Fresh, Claims, Kept, said
    <2>8. QED
      BY <1>9, <2>6, <2>7 DEF StepInv, Kept
  <1>11. CASE Settled(p) /\ mode[p] = "abort"
    <2>1. \A i \in Ids : i \in subject(p) => Denied(i)'
      BY <1>1, <1>3, <1>4, <1>9, <1>11, OpenTrue DEF subject, Own
    <2>2. Return(p, "not_committed", FALSE)
      BY <1>11 DEF Settled
    <2>3. QED
      BY <1>1, <1>9, <2>1, <2>2, Returns DEF States
  <1>12. CASE Settled(p) /\ mode[p] \in {"apply", "recover"}
    <2>1. \A i \in Ids : i \in subject(p) => /\ out[p] = "not_committed" => Denied(i)'
                                             /\ out[p] = "committed" => Confirmed(i)'
      BY <1>1, <1>8, <1>12, OutcomeStays, OutcomeTrue
    <2>2. Return(p, out[p], FALSE) /\ out[p] \in States
      BY <1>2, <1>12 DEF Settled, CtlOK
    <2>3. QED
      BY <1>1, <1>9, <2>1, <2>2, Returns
  <1>13. CASE Fail(p)
    BY <1>1, <1>8, <1>9, <1>13, FailsInPlace
  <1>14. mode[p] \in {"settle", "abort", "apply", "recover"}
    BY <1>2 DEF ModeInv, CtlOK
  <1>15. QED
    BY <1>10, <1>11, <1>12, <1>13, <1>14 DEF HistoryAbort

\* The plan recovery finds was made by a transaction that has begun.
LEMMA PlanBegun ==
  ASSUME FullInv, planOf(dir) \in Plan
  PROVE  planOf(dir).id <= txns
  <1>1. Fresh /\ dir \in disk /\ txns \in Nat
    BY ConstantsAssumption DEF FullInv, StoreInv, Directories, IndInv, TypeOK
  <1>2. \E l \in MetaLeaf : planOf(dir) = dir[l]
    <2>1. planOf(dir) # Nil
      BY ValueFacts
    <2>2. QED
      BY <2>1 DEF planOf, record, MetaLeaf
  <1>3. PICK l \in MetaLeaf : planOf(dir) = dir[l]
    BY <1>2
  <1>4. planOf(dir).id \in Ids
    BY DEF Plan
  <1>5. planOf(dir).id > txns => Without(dir, planOf(dir).id)
    BY <1>1, <1>4 DEF Fresh
  <1>6. ~Without(dir, planOf(dir).id)
    BY <1>3 DEF Without
  <1>7. QED
    BY <1>1, <1>4, <1>5, <1>6 DEF Ids

\* Nothing of an undecided plan is outside the directory.
LEMMA UndecidedAbsent ==
  ASSUME FullInv, Open(dir), planOf(dir) \in Plan
  PROVE  Absent(planOf(dir).id)
  <1>1. StoreInv /\ EffectsAreDecided /\ dir \in disk /\ hist \in hdisk
    BY DEF FullInv, StoreInv, Directories, Events, Claims
  <1>2. \A h \in hdisk : planOf(dir).id \notin h.events
    BY <1>1, ValueFacts DEF StoreInv, Events, Owes
  <1>3. planOf(dir).id \notin effects
    BY <1>1, <1>2 DEF EffectsAreDecided, Open
  <1>4. QED
    BY <1>2, <1>3 DEF Absent

\* What recovery chooses fits the evidence it found.
LEMMA RecoverScanKeeps ==
  ASSUME FullInv, NEW p \in Procs, RecoverScan(p)
  PROVE  StepInv'
  <1> DEFINE kind == classify(dir, hist)
  <1>1. /\ pc[p] = "recover" /\ pc[p] # "idle"
        /\ UNCHANGED <<dir, disk, hist, hdisk, txns, effects>>
    BY DEF RecoverScan, At
  <1>2. /\ ModeInv(p) /\ SyncInv(p) /\ CtlOK /\ Fresh /\ Claims /\ Shape(dir)
        /\ lock = p /\ dir \in DirType /\ dir \in disk
    BY <1>1, Acting
  <1>3. mode[p] \in {"settle", "abort", "recover"}
    BY <1>1, <1>2 DEF ModeInv, CtlOK
  <1>4. Kept /\ Own(p)
    BY <1>1, KeptSame
  <1>5. CASE Return(p, IF mode[p] = "recover" THEN "unknown" ELSE "not_committed", TRUE)
    <2>1. CASE mode[p] = "recover"
      BY <1>1, <1>4, <1>5, <2>1, Returns DEF States
    <2>2. CASE mode[p] = "settle"
      <3>1. \A i \in Ids : i \in subject(p) => Denied(i)'
        BY <1>4, <2>2, SettleTrue DEF subject
      <3>2. QED
        BY <1>1, <1>4, <1>5, <2>2, <3>1, Returns DEF States
    <2>3. CASE mode[p] = "abort"
      <3>1. \A d \in disk' : Open(d)
        BY <1>1, <1>2, <2>3 DEF ModeInv
      <3>2. \A i \in Ids : i \in subject(p) => Denied(i)'
        BY <1>4, <2>3, <3>1, OpenTrue DEF subject, Own
      <3>3. QED
        BY <1>1, <1>4, <1>5, <2>3, <3>2, Returns DEF States
    <2>4. QED
      BY <1>3, <2>1, <2>2, <2>3
  <1>6. CASE /\ kind # "unsafe"
             /\ Goto(p, path[kind])
             /\ mem' = [mem EXCEPT ![p] = IF kind = "empty" THEN Nil ELSE planOf(dir)]
             /\ out' = [out EXCEPT ![p] = IF kind \in {"empty", "abort"}
                                          THEN "not_committed" ELSE "unknown"]
             /\ UNCHANGED <<lock, mode, req, verdict>>
    <2>1. /\ kind \in {"empty", "complete", "abort", "finish"}
          /\ kind # "empty" => planOf(dir) \in Plan \cup {Nil}
          /\ kind = "empty" => NoArtifacts(dir)
          /\ kind = "finish" => planOf(dir) = dir["decision"]
      BY <1>2, <1>6, ClassifyFacts DEF NoArtifacts, artifacts
    <2>2. /\ kind = "abort" => dir["decision"] = Nil /\ dir["complete"] = Nil
          /\ kind = "complete" => dir["complete"] # Nil
          /\ kind = "finish" => dir["decision"] # Nil /\ dir["complete"] = Nil
      BY DEF classify
    <2> HIDE DEF kind
    <2>3. /\ kind = "empty" => path[kind] = "historyAbort"
          /\ kind = "abort" => path[kind] = "cleanup"
          /\ kind = "complete" => path[kind] = "completeRecoverySync"
          /\ kind = "finish" => path[kind] = "finish"
      BY DEF path
    <2>4. /\ pc'[p] = path[kind] /\ lock' = p
          /\ \A q \in Procs : q # p => pc'[q] = "idle" /\ mem'[q] = Nil
          /\ mem'[p] = IF kind = "empty" THEN Nil ELSE planOf(dir)
          /\ out'[p] = IF kind \in {"empty", "abort"} THEN "not_committed" ELSE "unknown"
      BY <1>2, <1>6 DEF Goto, CtlOK, FullInv, HeldInv, IndInv, HolderHasEvidence
    <2>5. kind \in {"empty", "abort"} => Open(dir)
      BY <2>1, <2>2 DEF NoArtifacts, Open, Artifact, MetaLeaf
    <2>6. mode[p] = "abort" => \A d \in disk : Open(d)
      BY <1>2 DEF ModeInv
    <2>7. mode[p] # "abort" => disk = {dir}
      BY <1>1, <1>2 DEF SyncInv
    <2>8. kind \in {"empty", "abort"} => \A d \in disk : Open(d)
      BY <2>5, <2>6, <2>7
    <2>9. kind \in {"complete", "finish"} => mode[p] # "abort" /\ disk = {dir}
      BY <1>2, <2>2, <2>6, <2>7 DEF Open
    <2>10. kind = "complete" => mem'[p] = dir["complete"] /\ mem'[p] # Nil
      BY <2>2, <2>4 DEF planOf, record
    <2>11. kind = "finish" => mem'[p] = dir["decision"] /\ mem'[p] # Nil
      BY <2>1, <2>2, <2>4
    <2>12. mem'[p] # Nil => mem'[p] \in Plan /\ mem'[p] = planOf(dir)
      BY <2>1, <2>4
    <2>13. mem'[p] # Nil => mem'[p].id <= txns
      BY <2>12, PlanBegun
    <2>14. ModeInv(p)'
      <3>1. pc'[p] \notin Undecided /\ pc'[p] \notin Undone /\ pc'[p] \notin {"lockSync", "recover"}
        BY <2>1, <2>3, <2>4 DEF Undecided, Undone, Preparing
      <3>2. mode[p] = "abort" => pc'[p] \in Retiring
        BY <2>1, <2>3, <2>4, <2>9 DEF Retiring
      <3>3. mode[p] \in {"settle", "abort"} => Absent(req[p].id)'
        BY <1>1, <1>2, <1>6 DEF ModeInv, Absent
      <3>4. QED
        BY <1>1, <1>2, <1>3, <1>6, <2>6, <2>13, <3>1, <3>2, <3>3 DEF ModeInv
    <2>15. SyncInv(p)'
      BY <1>1, <1>2, <1>6, <2>1, <2>3, <2>4, <2>7, <2>9 DEF SyncInv, Synced, Undone, Preparing
    <2>16. PrepInv(p)'
      BY <2>1, <2>3, <2>4 DEF PrepInv, Undone, Preparing
    <2>17. FinishInv(p)'
      <3>1. CASE kind \in {"empty", "abort"}
        BY <2>3, <2>4, <3>1 DEF FinishInv, Effecting
      <3>2. CASE kind = "complete"
        BY <1>1, <2>3, <2>4, <2>10, <3>2 DEF FinishInv, Effecting
      <3>3. CASE kind = "finish"
        BY <1>1, <2>2, <2>3, <2>4, <2>9, <3>3 DEF FinishInv
      <3>4. QED
        BY <2>1, <3>1, <3>2, <3>3
    <2>18. OutInv(p)'
      <3>1. CASE kind \in {"empty", "abort"}
        <4>1. mem'[p] # Nil => Absent(mem[p].id)'
          BY <1>1, <2>5, <2>12, <3>1, UndecidedAbsent DEF Absent
        <4>2. QED
          BY <1>1, <1>3, <1>6, <2>3, <2>4, <2>8, <3>1, <4>1 DEF OutInv, Effecting, Retiring
      <3>2. CASE kind \in {"complete", "finish"}
        BY <2>3, <2>4, <3>2 DEF OutInv, Effecting, Retiring
      <3>3. QED
        BY <2>1, <3>1, <3>2
    <2>19. pc'[p] # "idle"
      BY <2>1, <2>3, <2>4
    <2>20. HeldInv'
      BY <2>4, <2>14, <2>15, <2>16, <2>17, <2>18, <2>19, Held
    <2>21. Fresh' /\ Claims'
      BY <1>1, <1>2, <1>4, <1>6 DEF Fresh, Claims, Kept, said
    <2>22. QED
      BY <1>4, <2>20, <2>21 DEF StepInv, Kept
  <1>7. QED
    BY <1>5, <1>6 DEF RecoverScan

-----------------------------------------------------------------------------
(* Beginnings and deaths. *)

\* A new request takes the lock, or is told that it is busy.
LEMMA ApplyKeeps ==
  ASSUME FullInv, NEW p \in Procs, NEW c \in Change, Apply(p, c)
  PROVE  StepInv'
  <1>1. /\ StoreInv /\ Fresh /\ Claims /\ HeldInv /\ CtlOK /\ txns \in Nat
        /\ \A q \in Procs : pc[q] # "idle" => lock = q
    BY TypeParts, ConstantsAssumption DEF FullInv, IndInv, HolderHasEvidence, TypeOK
  <1> DEFINE n == txns + 1
  <1>2. /\ txns' = n /\ n \in Ids /\ n > txns /\ pc[p] = "idle" /\ mem[p] = Nil
        /\ UNCHANGED <<dir, disk, hist, hdisk, effects>>
    BY <1>1, ConstantsAssumption DEF Apply, Ids, HeldInv
  <1>3. /\ Absent(n) /\ verdict[n] = {} /\ Denied(n)
        /\ \A d \in disk : Without(d, n)
    <2>1. /\ Absent(n) /\ verdict[n] = {} /\ \A d \in disk : Without(d, n)
      BY <1>1, <1>2 DEF Fresh
    <2>2. \A d \in disk : Active(d) \/ d["complete"] # Nil
                           => /\ Active(d) => d["decision"] \in Plan
                              /\ d["complete"] # Nil => d["complete"] \in Plan
      BY <1>1 DEF StoreInv, Directories, Shape, ActiveShape, CompleteShape
    <2>3. Denied(n)
      BY <2>1, <2>2 DEF Denied, Without, MetaLeaf
    <2>4. QED
      BY <2>1, <2>3
  <1>4. \A i \in Ids : i <= txns => i <= n /\ i # n
    BY <1>1 DEF Ids
  <1>5. \A i \in Ids : i > n => i > txns /\ i # n
    BY <1>1 DEF Ids
  <1> HIDE DEF n
  <1>6. StoreInv'
    BY <1>1, <1>2 DEF StoreInv, Directories, Events
  <1>7. \A i \in Ids : /\ Absent(i) => Absent(i)'
                       /\ Denied(i) => Denied(i)'
                       /\ Confirmed(i) => Confirmed(i)'
    BY <1>2 DEF Absent, Denied, Confirmed
  <1>8. EffectsAreDecided'
    BY <1>1, <1>2 DEF Claims, EffectsAreDecided
  <1>9. CASE lock # Nil
    <2>1. /\ verdict' = [verdict EXCEPT ![n] = verdict[n] \cup {<<"not_committed", FALSE>>}]
          /\ UNCHANGED <<lock, pc, mode, req, mem, out>>
      BY <1>9 DEF Apply, n
    <2>2. \A i \in Ids : verdict'[i] = IF i = n THEN {<<"not_committed", FALSE>>} ELSE verdict[i]
      BY <1>1, <1>3, <2>1 DEF CtlOK
    <2>3. Fresh'
      BY <1>1, <1>2, <1>5, <1>7, <2>2 DEF Fresh
    <2>4. Claims'
      <3>1. \A i \in Ids : i # n => said(i)' = said(i)
        BY <2>2 DEF said
      <3>2. \A i \in Ids : i = n => said(i)' = {"not_committed"}
        <4>1. <<"not_committed", FALSE>>[1] = "not_committed"
          OBVIOUS
        <4>2. verdict'[n] = {<<"not_committed", FALSE>>}
          BY <1>2, <2>2
        <4>3. {v[1] : v \in verdict'[n]} = {"not_committed"}
          BY <4>1, <4>2
        <4>4. QED
          BY <4>3 DEF said
      <3>3. \A i \in Ids : "not_committed" \in said(i)' => Denied(i)
        BY <1>1, <1>3, <3>1 DEF Claims
      <3>4. \A i \in Ids : "committed" \in said(i)' => Confirmed(i)
        BY <1>1, <3>1, <3>2 DEF Claims
      <3>5. QED
        BY <1>7, <1>8, <3>3, <3>4 DEF Claims
    <2>5. HeldInv'
      <3> SUFFICES ASSUME NEW q \in Procs, pc[q] # "idle"
                   PROVE  (ModeInv(q) /\ SyncInv(q) /\ PrepInv(q) /\ FinishInv(q) /\ OutInv(q))'
        BY <1>1, <2>1 DEF HeldInv
      <3>1. ModeInv(q) /\ SyncInv(q) /\ PrepInv(q) /\ FinishInv(q) /\ OutInv(q)
        BY <1>1 DEF HeldInv
      <3>2. ModeInv(q)'
        <4>1. mem[q] # Nil => mem[q].id <= n
          BY <1>1, <1>4, <3>1 DEF ModeInv, CtlOK, Plan
        <4>2. mode[q] \in {"settle", "apply", "abort"} =>
                 req[q].id <= n /\ verdict'[req[q].id] = {}
          BY <1>1, <1>4, <2>2, <3>1 DEF ModeInv, Request
        <4>3. mode[q] \in {"settle", "abort"} \/ pc[q] \in Undecided => Absent(req[q].id)'
          BY <1>2, <2>1, <3>1 DEF ModeInv, Absent
        <4>4. QED
          BY <1>2, <2>1, <3>1, <4>1, <4>2, <4>3 DEF ModeInv
      <3>3. SyncInv(q)' /\ PrepInv(q)'
        BY <1>2, <2>1, <3>1 DEF SyncInv, PrepInv, staged
      <3>4. FinishInv(q)'
        BY <1>2, <2>1, <3>1 DEF FinishInv, target, Before, After
      <3>5. OutInv(q)'
        BY <1>2, <2>1, <3>1 DEF OutInv, Absent
      <3>6. QED
        BY <3>2, <3>3, <3>4, <3>5
    <2>6. QED
      BY <1>6, <2>3, <2>4, <2>5 DEF StepInv
  <1>10. CASE lock = Nil
    <2>1. /\ lock' = p /\ pc'[p] = "lockSync" /\ mode'[p] = "settle" /\ mem'[p] = Nil
          /\ req'[p] = [id |-> n, c |-> c] /\ verdict' = verdict
          /\ \A q \in Procs : q # p => pc'[q] = "idle" /\ mem'[q] = Nil
      BY <1>1, <1>2, <1>10, ConstantsAssumption DEF Apply, Goto, CtlOK, n, HeldInv
    <2>2. Fresh' /\ Claims'
      BY <1>1, <1>2, <1>5, <1>7, <1>8, <2>1 DEF Fresh, Claims, said
    <2>3. ModeInv(p)'
      <3>1. req'[p] \in Request /\ req'[p].id = n /\ n <= n
        BY <1>1, <1>2, <2>1 DEF Request, Ids
      <3>2. Absent(req[p].id)'
        BY <1>2, <1>3, <3>1 DEF Absent
      <3>3. QED
        BY <1>2, <1>3, <2>1, <3>1, <3>2 DEF ModeInv, Undecided, Undone, Preparing
    <2>4. SyncInv(p)' /\ PrepInv(p)' /\ FinishInv(p)' /\ OutInv(p)'
      BY <2>1 DEF SyncInv, PrepInv, FinishInv, OutInv, Undone, Preparing, Effecting, Retiring, Synced
    <2>5. HeldInv'
      BY <2>1, <2>3, <2>4, Held
    <2>6. QED
      BY <1>6, <2>2, <2>5 DEF StepInv
  <1>11. QED
    BY <1>9, <1>10

\* An explicit recovery takes the lock.
LEMMA RecoverKeeps ==
  ASSUME FullInv, NEW p \in Procs, Recover(p)
  PROVE  StepInv'
  <1>1. /\ StoreInv /\ Fresh /\ Claims /\ HeldInv /\ CtlOK
        /\ \A q \in Procs : pc[q] # "idle" => lock = q
    BY TypeParts DEF FullInv, IndInv, HolderHasEvidence
  <1>2. /\ UNCHANGED <<dir, disk, hist, hdisk, effects, txns, verdict>>
        /\ lock = Nil /\ pc[p] = "idle"
    BY DEF Recover
  <1>3. StoreInv' /\ Fresh'
    BY <1>1, <1>2 DEF StoreInv, Directories, Events, Fresh, Absent
  <1>4. Claims'
    BY <1>1, <1>2 DEF Claims, EffectsAreDecided, said, Denied, Confirmed, Absent
  <1>5. /\ lock' = p /\ pc'[p] = "lockSync" /\ mode'[p] = "recover" /\ mem'[p] = Nil
        /\ \A q \in Procs : q # p => pc'[q] = "idle" /\ mem'[q] = Nil
    BY <1>1, <1>2, ConstantsAssumption DEF Recover, Goto, CtlOK, HeldInv
  <1>6. ModeInv(p)'
    BY <1>5 DEF ModeInv, Undecided, Undone, Preparing
  <1>7. SyncInv(p)' /\ PrepInv(p)' /\ FinishInv(p)' /\ OutInv(p)'
    BY <1>5 DEF SyncInv, PrepInv, FinishInv, OutInv, Undone, Preparing, Effecting, Retiring, Synced
  <1>8. HeldInv'
    BY <1>5, <1>6, <1>7, Held
  <1>9. QED
    BY <1>3, <1>4, <1>8 DEF StepInv

\* A killed process leaves its files and its lock is dropped.
LEMMA CrashKeeps ==
  ASSUME FullInv, NEW p \in Procs, Crash(p)
  PROVE  StepInv'
  <1>1. lock = p /\ UNCHANGED <<dir, disk, hist, hdisk, effects, txns, verdict>> /\ lock' = Nil
    BY DEF Crash
  <1>2. pc[p] # "idle" /\ CtlOK
    BY <1>1, ConstantsAssumption, TypeParts DEF FullInv, HeldInv, IndInv
  <1>3. Kept
    BY <1>1, <1>2, KeptSame
  <1>4. \A q \in Procs : pc'[q] = "idle" /\ mem'[q] = Nil
    BY <1>1, <1>2 DEF Crash, CtlOK, FullInv, HeldInv, IndInv, HolderHasEvidence
  <1>5. QED
    BY <1>1, <1>3, <1>4, Quiet

\* A power loss goes back to one of the directories and one of the histories.
LEMMA PowerLossKeeps ==
  ASSUME FullInv, PowerLoss
  PROVE  StepInv'
  <1>1. /\ dir' \in disk' /\ disk' \subseteq disk /\ hist' \in hdisk' /\ hdisk' \subseteq hdisk
        /\ UNCHANGED <<effects, txns, verdict>> /\ lock' = Nil
        /\ \A q \in Procs : pc'[q] = "idle" /\ mem'[q] = Nil
    BY DEF PowerLoss
  <1>2. Kept
    BY <1>1, Shrink
  <1>3. QED
    BY <1>1, <1>2, Quiet

-----------------------------------------------------------------------------
(* The system calls of a preparation. *)

\* A call that leaves a directory with a preparation and without a decision.
LEMMA PrepareGoes ==
  ASSUME FullInv, NEW p \in Procs, pc[p] \in Preparing, NEW d, NEW label,
         Syscall(p, d, label), UNCHANGED <<hist, hdisk, effects, txns>>,
         Admissible(p, d), Open(d), ~NoArtifacts(d), label \in Preparing \ Synced,
         dir' = d /\ disk' = disk \cup {d} /\ Proceed(p, label) /\ pc'[p] = label
            => PrepInv(p)'
  PROVE  StepInv'
  <1>1. pc[p] \in Undone /\ pc[p] \in Undecided /\ pc[p] \notin {"idle", "recover", "validate"}
    BY DEF Undone, Undecided, Preparing
  <1>2. ModeInv(p) /\ SyncInv(p) /\ dir \in disk
    BY <1>1, Acting
  <1>3. mode[p] # "abort" /\ pc[p] \notin Retiring /\ \A e \in disk : Open(e)
    BY <1>1, <1>2 DEF ModeInv, Preparing, Retiring
  <1>4. dir' \in {dir, d} /\ disk' = disk \cup {dir'}
        /\ ((dir' = d /\ Proceed(p, label)) \/ Fail(p))
    BY SyscallParts
  <1>5. Kept /\ Own(p)
    BY <1>1, <1>4, KeptAdd
  <1>6. \A e \in disk' : Open(e)
    BY <1>2, <1>3, <1>4
  <1>7. CASE dir' = d /\ Proceed(p, label)
    <2>1. ASSUME pc'[p] = label
          PROVE  SyncInv(p)' /\ PrepInv(p)' /\ FinishInv(p)' /\ OutInv(p)'
      <3>1. SyncInv(p)'
        BY <1>7, <2>1 DEF SyncInv, Preparing, Synced
      <3>2. PrepInv(p)'
        BY <1>4, <1>7, <2>1
      <3>3. FinishInv(p)' /\ OutInv(p)'
        BY <2>1 DEF FinishInv, OutInv, Preparing, Effecting, Retiring
      <3>4. QED
        BY <3>1, <3>2, <3>3
    <2>2. label \notin {"idle", "lockSync", "recover"}
      BY DEF Preparing
    <2>3. QED
      BY <1>1, <1>3, <1>5, <1>6, <1>7, <2>1, <2>2, Proceeds
  <1>8. CASE Fail(p)
    <2>1. NoArtifacts(dir') => disk' = {dir'}
      BY <1>1, <1>2, <1>4 DEF SyncInv
    <2>2. QED
      BY <1>1, <1>3, <1>5, <1>6, <1>8, <2>1, Fails
  <1>9. QED
    BY <1>4, <1>7, <1>8

\* A staged object beside no plan.
Staging(o) == [dir EXCEPT !["stage"] = o]

\* The stage of an open directory may hold any object of the request.
LEMMA Stages ==
  ASSUME FullInv, NEW p \in Procs, pc[p] \in {"stageCreate", "stageWrite"},
         NEW o \in Object, o.ino = req[p].id
  PROVE  /\ Admissible(p, Staging(o)) /\ Open(Staging(o)) /\ ~NoArtifacts(Staging(o))
         /\ Staging(o)["stage"] = o /\ Staging(o)["plan"] = Nil /\ Staging(o)["pending"] = Nil
         /\ \A n \in Names : Staging(o)[n] = dir[n]
  <1> DEFINE d == Staging(o)
  <1>1. pc[p] \in Undone /\ pc[p] \in Undecided /\ pc[p] # "idle" /\ pc[p] \in Undone \ {"check"}
    BY DEF Undone, Undecided, Preparing
  <1>2. /\ StoreInv /\ ModeInv(p) /\ SyncInv(p) /\ PrepInv(p) /\ dir \in DirType /\ dir \in disk
        /\ Shape(dir)
    BY <1>1, Acting
  <1>3. dir["plan"] = Nil /\ dir["pending"] = Nil
    <2>1. CASE pc[p] = "stageCreate"
      BY <1>2, <2>1 DEF PrepInv, NoArtifacts, Artifact, MetaLeaf
    <2>2. CASE pc[p] = "stageWrite"
      BY <1>2, <2>2 DEF PrepInv
    <2>3. QED
      BY <2>1, <2>2
  <1>4. /\ d["stage"] = o /\ \A n \in Names : d[n] = dir[n]
        /\ \A l \in Artifact : l # "stage" => d[l] = dir[l]
    BY <1>2, WriteArtifact DEF Artifact, Staging
  <1> HIDE DEF d
  <1>5. /\ d["plan"] = Nil /\ d["pending"] = Nil /\ d["decision"] = dir["decision"]
        /\ d["complete"] = dir["complete"] /\ d["swap"] = dir["swap"]
    BY <1>3, <1>4 DEF Artifact, MetaLeaf
  <1>6. mode[p] = "apply" /\ (\A e \in disk : Open(e)) /\ Open(d)
    BY <1>1, <1>2, <1>5 DEF ModeInv, Open
  <1>7. \A h : Owes(d, h)
    BY <1>5, <1>6, OwesNothing
  <1>8. Shape(d)
    <2>1. Public(d)
      BY <1>2, <1>4 DEF Shape, Public
    <2>2. \A n \in Names : d[n] # o
      BY <1>1, <1>2, <1>4, ValueFacts DEF PrepInv
    <2>3. planOf(d) = Nil
      BY <1>5, <1>6 DEF planOf, record, decodes, Open
    <2>4. OpenShape(d)
      BY <1>2, <1>4, <1>5, <1>6, <2>2, <2>3 DEF Shape, OpenShape
    <2>5. QED
      BY <1>5, <1>6, <2>1, <2>4, ValueFacts DEF Shape, Open, Active
  <1>9. record(d) = Nil /\ Same(d, dir)
    BY <1>4, <1>5, <1>6 DEF record, Open, Same
  <1>10. \A i \in Ids : Without(dir, i) /\ i # req[p].id => Without(d, i)
    BY <1>4 DEF Without, DocLeaf, Artifact, MetaLeaf
  <1>11. Admissible(p, d)
    BY <1>1, <1>6, <1>7, <1>8, <1>9, <1>10, AdmitOpen
  <1>12. ~NoArtifacts(d)
    BY <1>4, ValueFacts DEF NoArtifacts, Artifact
  <1>13. QED
    BY <1>4, <1>5, <1>6, <1>11, <1>12 DEF d

\* The stage is created.
LEMMA StageCreateKeeps ==
  ASSUME FullInv, NEW p \in Procs, StageCreate(p)
  PROVE  StepInv'
  <1>1. /\ pc[p] = "stageCreate" /\ pc[p] \in Preparing /\ pc[p] # "idle"
        /\ pc[p] \in Undone /\ pc[p] \in Undone \ {"check"}
        /\ UNCHANGED <<hist, hdisk, effects, txns>>
    BY DEF StageCreate, At, Preparing, Undone
  <1>2. ModeInv(p) /\ SyncInv(p) /\ PrepInv(p) /\ Holder(p) /\ dir \in disk
    BY <1>1, Acting
  <1> DEFINE o == [ino |-> req[p].id, body |-> Short]
             d == Staging(o)
  <1>3. o \in Object /\ o.ino = req[p].id /\ o # Nil
    BY <1>1, <1>2, ValueFacts DEF Holder, Preparing, Request, Object
  <1>4. Syscall(p, d, "stageWrite")
    BY DEF StageCreate, Staging
  <1> HIDE DEF o
  <1>5. /\ Admissible(p, d) /\ Open(d) /\ ~NoArtifacts(d)
        /\ d["stage"] = o /\ d["plan"] = Nil /\ d["pending"] = Nil
        /\ \A n \in Names : d[n] = dir[n]
    BY <1>1, <1>3, Stages
  <1> HIDE DEF d
  <1>6. disk = {dir} /\ dir["plan"] = Nil /\ dir["pending"] = Nil
    BY <1>1, <1>2 DEF SyncInv, Synced, PrepInv, NoArtifacts, Artifact, MetaLeaf
  <1>7. req[p].c.src \in Names \cup {Nil}
    BY <1>1, <1>2 DEF Holder, Request, Change
  <1>8. ASSUME dir' = d, disk' = disk \cup {d}, Proceed(p, "stageWrite"), pc'[p] = "stageWrite"
        PROVE  PrepInv(p)'
    <2>1. req' = req
      BY <1>8 DEF Proceed
    <2>2. req[p].c.src # Nil => d[req[p].c.src] # Nil
      BY <1>1, <1>2, <1>5, <1>7 DEF PrepInv
    <2>3. \A n \in Names : d[n] # Nil => d[n].ino # req[p].id
      BY <1>1, <1>2, <1>5 DEF PrepInv
    <2>4. QED
      BY <1>3, <1>5, <1>6, <1>8, <2>1, <2>2, <2>3 DEF PrepInv
  <1>9. "stageWrite" \in Preparing \ Synced
    BY DEF Preparing, Synced
  <1>10. QED
    BY <1>1, <1>4, <1>5, <1>8, <1>9, PrepareGoes

\* The stage is written.
LEMMA StageWriteKeeps ==
  ASSUME FullInv, NEW p \in Procs, StageWrite(p)
  PROVE  StepInv'
  <1>1. /\ pc[p] = "stageWrite" /\ pc[p] \in Preparing /\ pc[p] # "idle"
        /\ pc[p] \in Undone /\ pc[p] \in Undone \ {"check"}
        /\ UNCHANGED <<hist, hdisk, effects, txns>>
    BY DEF StageWrite, At, Preparing, Undone
  <1>2. ModeInv(p) /\ SyncInv(p) /\ PrepInv(p) /\ Holder(p) /\ dir \in disk
    BY <1>1, Acting
  <1> DEFINE d == Staging(staged(p))
  <1>3. staged(p) \in Object /\ staged(p).ino = req[p].id /\ req[p].c.op # "delete"
    BY <1>1, <1>2 DEF Holder, Preparing, Request, Object, Change, staged
  <1>4. Syscall(p, d, "stageSync")
    BY DEF StageWrite, Staging
  <1>5. /\ Admissible(p, d) /\ Open(d) /\ ~NoArtifacts(d)
        /\ d["stage"] = staged(p) /\ d["plan"] = Nil /\ d["pending"] = Nil
        /\ \A n \in Names : d[n] = dir[n]
    BY <1>1, <1>3, Stages
  <1> HIDE DEF d
  <1>6. \A e \in disk : e["plan"] = Nil /\ e["pending"] = Nil
    BY <1>1, <1>2 DEF PrepInv
  <1>7. req[p].c.src \in Names \cup {Nil}
    BY <1>1, <1>2 DEF Holder, Request, Change
  <1>8. ASSUME dir' = d, disk' = disk \cup {d}, Proceed(p, "stageSync"), pc'[p] = "stageSync"
        PROVE  PrepInv(p)'
    <2>1. req' = req
      BY <1>8 DEF Proceed
    <2>2. req[p].c.src # Nil => d[req[p].c.src] # Nil
      BY <1>1, <1>2, <1>5, <1>7 DEF PrepInv
    <2>3. \A n \in Names : d[n] # Nil => d[n].ino # req[p].id
      BY <1>1, <1>2, <1>5 DEF PrepInv
    <2>4. staged(p)' = staged(p)
      BY <2>1 DEF staged
    <2>5. QED
      BY <1>3, <1>5, <1>6, <1>8, <2>1, <2>2, <2>3, <2>4 DEF PrepInv
  <1>9. "stageSync" \in Preparing \ Synced
    BY DEF Preparing, Synced
  <1>10. QED
    BY <1>1, <1>4, <1>5, <1>8, <1>9, PrepareGoes

\* The pending plan is created, cut off anywhere.
LEMMA PendingCreateKeeps ==
  ASSUME FullInv, NEW p \in Procs, PendingCreate(p)
  PROVE  StepInv'
  <1>1. /\ pc[p] = "pendingCreate" /\ pc[p] \in Preparing /\ pc[p] # "idle"
        /\ pc[p] \in Undone /\ pc[p] \in Undone \ {"check"}
        /\ UNCHANGED <<hist, hdisk, effects, txns>>
    BY DEF PendingCreate, At, Preparing, Undone
  <1>2. /\ ModeInv(p) /\ SyncInv(p) /\ PrepInv(p) /\ Holder(p) /\ dir \in disk /\ Shape(dir)
        /\ dir \in DirType
    BY <1>1, Acting
  <1>3. PICK b \in PendingCuts : Syscall(p, [dir EXCEPT !["pending"] = b], "pendingWrite")
    BY DEF PendingCreate
  <1> DEFINE d == [dir EXCEPT !["pending"] = b]
  <1>4. /\ d["pending"] = b /\ \A n \in Names : d[n] = dir[n]
        /\ \A l \in Artifact : l # "pending" => d[l] = dir[l]
    BY <1>2, WriteArtifact DEF Artifact, MetaLeaf
  <1>5. Syscall(p, d, "pendingWrite")
    BY <1>3
  <1> HIDE DEF d
  <1>6. b \in Unwritten /\ b # Nil /\ b \notin Plan /\ (PendingCuts \subseteq {Short} => b # Torn)
    BY ConstantsAssumption, ValueFacts DEF Unwritten
  <1>7. /\ d["plan"] = Nil /\ d["decision"] = dir["decision"] /\ d["complete"] = dir["complete"]
        /\ d["swap"] = dir["swap"] /\ d["stage"] = dir["stage"]
    BY <1>1, <1>2, <1>4 DEF Artifact, MetaLeaf, PrepInv
  <1>8. mode[p] = "apply" /\ (\A e \in disk : Open(e)) /\ Open(d)
    BY <1>1, <1>2, <1>7 DEF ModeInv, Open, Undecided
  <1>9. record(d) = Nil /\ planOf(d) = Nil /\ Same(d, dir)
    BY <1>4, <1>6, <1>7, <1>8 DEF record, planOf, decodes, Open, Same
  <1>10. \A h \in hdisk : Owes(d, h)
    BY <1>8, <1>9 DEF Owes, Open
  <1>11. Shape(d)
    <2>1. Public(d)
      BY <1>2, <1>4 DEF Shape, Public
    <2>2. OpenShape(d)
      BY <1>2, <1>4, <1>7, <1>8, <1>9 DEF Shape, OpenShape
    <2>3. QED
      BY <1>4, <1>6, <1>8, <2>1, <2>2 DEF Shape, Open, Active
  <1>12. \A i \in Ids : Without(dir, i) => Without(d, i)
    BY <1>4, <1>6 DEF Without, DocLeaf, Artifact, MetaLeaf
  <1>13. Admissible(p, d)
    BY <1>1, <1>8, <1>9, <1>10, <1>11, <1>12, AdmitOpen
  <1>14. ~NoArtifacts(d)
    BY <1>4, <1>6 DEF NoArtifacts, Artifact, MetaLeaf
  <1>15. ASSUME dir' = d, disk' = disk \cup {d}, Proceed(p, "pendingWrite"),
                pc'[p] = "pendingWrite"
         PROVE  PrepInv(p)'
    <2>1. req' = req /\ staged(p)' = staged(p)
      BY <1>15 DEF Proceed, staged
    <2>2. req[p].c.src # Nil => d[req[p].c.src] # Nil
      BY <1>1, <1>2, <1>4 DEF PrepInv, Holder, Request, Change
    <2>3. \A n \in Names : d[n] # Nil => d[n].ino # req[p].id
      BY <1>1, <1>2, <1>4 DEF PrepInv
    <2>4. /\ d["stage"] = (IF req[p].c.op = "delete" THEN Nil ELSE staged(p))
          /\ \A h \in hdisk : h.wit[req[p].id] = "ready"
      BY <1>1, <1>2, <1>7 DEF PrepInv
    <2>5. QED
      BY <1>1, <1>4, <1>6, <1>7, <1>15, <2>1, <2>2, <2>3, <2>4 DEF PrepInv
  <1>16. "pendingWrite" \in Preparing \ Synced
    BY DEF Preparing, Synced
  <1>17. QED
    BY <1>1, <1>5, <1>8, <1>13, <1>14, <1>15, <1>16, PrepareGoes

\* The plan that is written fits its operation.
LEMMA NewPlanSound ==
  ASSUME FullInv, NEW p \in Procs, pc[p] = "pendingWrite"
  PROVE  /\ newPlan(p) \in Plan /\ Sound(newPlan(p))
         /\ newPlan(p).id = req[p].id /\ newPlan(p).stage = dir["stage"]
  <1>1. /\ pc[p] \in Preparing /\ pc[p] # "idle" /\ pc[p] \in Undone /\ pc[p] \in Undone \ {"check"}
    BY DEF Preparing, Undone
  <1>2. /\ PrepInv(p) /\ Holder(p) /\ Shape(dir) /\ dir \in DirType
    BY <1>1, Acting
  <1> DEFINE P == newPlan(p)
             c == req[p].c
  <1>3. req[p] \in Request /\ c \in Change
    BY <1>1, <1>2 DEF Holder, Request
  <1>4. dir["stage"] = IF c.op = "delete" THEN Nil ELSE staged(p)
    BY <1>2 DEF PrepInv
  <1>5. c.op # "delete" => /\ staged(p) \in Object /\ staged(p).body \in Docs
                           /\ staged(p).ino = req[p].id
    BY <1>3 DEF Request, Change, Object, staged
  <1>6. c.src # Nil => /\ c.src \in Names /\ dir[c.src] # Nil /\ dir[c.src] \in Object
                       /\ dir[c.src].body \in Docs /\ dir[c.src].ino # req[p].id
    <2> SUFFICES ASSUME c.src # Nil
                 PROVE  /\ c.src \in Names /\ dir[c.src] # Nil /\ dir[c.src] \in Object
                        /\ dir[c.src].body \in Docs /\ dir[c.src].ino # req[p].id
      OBVIOUS
    <2>1. c.src \in Names
      BY <1>3 DEF Change
    <2>2. dir[c.src] # Nil
      BY <1>1, <1>2 DEF PrepInv
    <2>3. dir[c.src] \in Object
      BY <1>2, <2>1, <2>2 DEF DirType, DocLeaf
    <2>4. QED
      BY <1>1, <1>2, <2>1, <2>2, <2>3 DEF PrepInv, Shape, Public
  <1>7. /\ c.op \in {"create", "replace", "delete", "clone", "rename"}
        /\ c.src \in Names \cup {Nil} /\ c.dst \in Names \cup {Nil}
        /\ c.src = Nil <=> c.op = "create"
        /\ c.dst = Nil <=> c.op \in {"replace", "delete"}
        /\ c.src # c.dst
    BY <1>3, LeafFacts DEF Change
  <1>8. /\ P.id = req[p].id /\ P.op = c.op /\ P.src = c.src /\ P.dst = c.dst
        /\ P.before = (IF c.src = Nil THEN Nil ELSE dir[c.src])
        /\ P.stage = (IF c.op = "delete" THEN Nil ELSE dir["stage"])
    BY DEF newPlan
  <1>9. P.stage = dir["stage"]
    BY <1>4, <1>8
  <1>10. P \in Plan
    <2>1. P = [id |-> req[p].id, op |-> c.op, src |-> c.src, dst |-> c.dst,
               before |-> IF c.src = Nil THEN Nil ELSE dir[c.src],
               stage  |-> IF c.op = "delete" THEN Nil ELSE dir["stage"]]
      BY DEF newPlan
    <2>2. req[p].id \in Ids
      BY <1>3 DEF Request
    <2>3. (IF c.src = Nil THEN Nil ELSE dir[c.src]) \in Object \cup {Nil}
      BY <1>6
    <2>4. (IF c.op = "delete" THEN Nil ELSE dir["stage"]) \in Object \cup {Nil}
      BY <1>4, <1>5
    <2> HIDE DEF P, c
    <2>5. QED
      BY <1>7, <2>1, <2>2, <2>3, <2>4 DEF Plan
  <1> HIDE DEF P, c
  <1>11. Sound(P)
    BY <1>4, <1>5, <1>6, <1>7, <1>8, <1>9, ValueFacts DEF Sound
  <1>12. QED
    BY <1>8, <1>9, <1>10, <1>11 DEF P

\* The pending plan is written: it fits the request and its witness is ready.
LEMMA PendingWriteKeeps ==
  ASSUME FullInv, NEW p \in Procs, PendingWrite(p)
  PROVE  StepInv'
  <1>1. /\ pc[p] = "pendingWrite" /\ pc[p] \in Preparing /\ pc[p] # "idle"
        /\ pc[p] \in Undone /\ pc[p] \in Undone \ {"check"} /\ pc[p] \in Undecided
        /\ UNCHANGED <<hist, hdisk, effects, txns>>
    BY DEF PendingWrite, At, Preparing, Undone, Undecided
  <1>2. /\ ModeInv(p) /\ SyncInv(p) /\ PrepInv(p) /\ Holder(p) /\ dir \in disk /\ Shape(dir)
        /\ dir \in DirType
    BY <1>1, Acting
  <1> DEFINE P == newPlan(p)
             d == [dir EXCEPT !["pending"] = P]
  <1>3. P \in Plan /\ Sound(P) /\ P.id = req[p].id /\ P.stage = dir["stage"]
    BY <1>1, NewPlanSound
  <1>4. /\ d["pending"] = P /\ \A n \in Names : d[n] = dir[n]
        /\ \A l \in Artifact : l # "pending" => d[l] = dir[l]
    BY <1>2, WriteArtifact DEF Artifact, MetaLeaf
  <1>5. Syscall(p, d, "planPublish")
    BY DEF PendingWrite
  <1> HIDE DEF d, P
  <1>6. decodes(P) /\ P # Nil /\ P # Torn
    BY <1>3, ValueFacts DEF Unwritten
  <1>7. /\ d["plan"] = Nil /\ d["decision"] = dir["decision"] /\ d["complete"] = dir["complete"]
        /\ d["swap"] = dir["swap"] /\ d["stage"] = dir["stage"]
    BY <1>1, <1>2, <1>4 DEF Artifact, MetaLeaf, PrepInv
  <1>8. mode[p] = "apply" /\ (\A e \in disk : Open(e)) /\ Open(d) /\ Absent(req[p].id)
    BY <1>1, <1>2, <1>7 DEF ModeInv, Open
  <1>9. record(d) = Nil /\ planOf(d) = P /\ Same(d, dir)
    BY <1>4, <1>6, <1>7, <1>8 DEF record, planOf, Open, Same
  <1>10. \A h \in hdisk : Owes(d, h)
    BY <1>1, <1>2, <1>3, <1>8, <1>9 DEF Owes, Open, PrepInv, Absent
  <1>11. Shape(d)
    <2>1. Public(d)
      BY <1>2, <1>4 DEF Shape, Public
    <2>2. OpenShape(d)
      BY <1>2, <1>3, <1>4, <1>7, <1>8, <1>9 DEF Shape, OpenShape
    <2>3. QED
      BY <1>4, <1>6, <1>8, <2>1, <2>2 DEF Shape, Open, Active
  <1>12. \A i \in Ids : Without(dir, i) /\ i # req[p].id => Without(d, i)
    BY <1>3, <1>4 DEF Without, DocLeaf, Artifact, MetaLeaf
  <1>13. Admissible(p, d)
    BY <1>1, <1>8, <1>9, <1>10, <1>11, <1>12, AdmitOpen
  <1>14. ~NoArtifacts(d)
    BY <1>4, <1>6 DEF NoArtifacts, Artifact, MetaLeaf
  <1>15. ASSUME dir' = d, disk' = disk \cup {d}, Proceed(p, "planPublish"),
                pc'[p] = "planPublish"
         PROVE  PrepInv(p)'
    <2>1. req' = req
      BY <1>15 DEF Proceed
    <2>2. req[p].c.src # Nil => d[req[p].c.src] # Nil
      BY <1>1, <1>2, <1>4 DEF PrepInv, Holder, Request, Change
    <2>3. \A n \in Names : d[n] # Nil => d[n].ino # req[p].id
      BY <1>1, <1>2, <1>4 DEF PrepInv
    <2>4. QED
      BY <1>3, <1>4, <1>7, <1>15, <2>1, <2>2, <2>3 DEF PrepInv
  <1>16. "planPublish" \in Preparing \ Synced
    BY DEF Preparing, Synced
  <1>17. QED
    BY <1>1, <1>5, <1>8, <1>13, <1>14, <1>15, <1>16, PrepareGoes

\* The pending plan becomes the plan record.
LEMMA PlanPublishKeeps ==
  ASSUME FullInv, NEW p \in Procs, PlanPublish(p)
  PROVE  StepInv'
  <1>1. /\ pc[p] = "planPublish" /\ pc[p] \in Preparing /\ pc[p] # "idle"
        /\ pc[p] \in Undone /\ pc[p] \in Undone \ {"check"} /\ pc[p] \in Undecided
        /\ UNCHANGED <<hist, hdisk, effects, txns>>
    BY DEF PlanPublish, At, Preparing, Undone, Undecided
  <1>2. /\ ModeInv(p) /\ SyncInv(p) /\ PrepInv(p) /\ Holder(p) /\ dir \in disk /\ Shape(dir)
        /\ dir \in DirType /\ StoreInv
    BY <1>1, Acting
  <1> DEFINE P == dir["pending"]
             e == [dir EXCEPT !["pending"] = Nil]
             d == [e EXCEPT !["plan"] = P]
  <1>3. P \in Plan /\ P.id = req[p].id /\ P.stage = dir["stage"] /\ decodes(P) /\ P # Nil /\ P # Torn
    BY <1>1, <1>2, ValueFacts DEF Holder, PrepInv, Unwritten
  <1>4. e \in DirType
    BY <1>2, RemoveLeaf
  <1>5. /\ d["pending"] = Nil /\ d["plan"] = P /\ \A n \in Names : d[n] = dir[n]
        /\ \A l \in Artifact \ {"pending", "plan"} : d[l] = dir[l]
    <2>1. /\ e["pending"] = Nil /\ \A n \in Names : e[n] = dir[n]
          /\ \A l \in Artifact : l # "pending" => e[l] = dir[l]
      BY <1>2, WriteArtifact DEF Artifact, MetaLeaf
    <2> HIDE DEF e
    <2>2. /\ d["plan"] = P /\ \A n \in Names : d[n] = e[n]
          /\ \A l \in Artifact : l # "plan" => d[l] = e[l]
      BY <1>4, WriteArtifact DEF Artifact, MetaLeaf
    <2>3. QED
      BY <2>1, <2>2 DEF Artifact, MetaLeaf
  <1>6. Syscall(p, d, "planSync")
    BY DEF PlanPublish
  <1> HIDE DEF d, e, P
  <1>7. /\ d["decision"] = dir["decision"] /\ d["complete"] = dir["complete"]
        /\ d["swap"] = dir["swap"] /\ d["stage"] = dir["stage"]
    BY <1>5 DEF Artifact, MetaLeaf
  <1>8. /\ mode[p] = "apply" /\ (\A f \in disk : Open(f)) /\ Open(d) /\ Open(dir)
        /\ Absent(req[p].id)
    BY <1>1, <1>2, <1>7 DEF ModeInv, Open
  <1>9. dir["plan"] = Nil
    BY <1>2, <1>3, <1>8 DEF Shape, OpenShape, P
  <1>10. record(d) = P /\ planOf(d) = P /\ planOf(dir) = P /\ Same(d, dir)
    BY <1>3, <1>5, <1>8, <1>9 DEF record, planOf, Open, Same, P
  <1>11. \A h \in hdisk : Owes(d, h)
    BY <1>2, <1>8, <1>10 DEF StoreInv, Events, Owes, Open
  <1>12. Shape(d)
    <2>1. Public(d)
      BY <1>2, <1>5 DEF Shape, Public
    <2>2. OpenShape(d)
      BY <1>2, <1>3, <1>5, <1>7, <1>8, <1>10 DEF Shape, OpenShape
    <2>3. QED
      BY <1>5, <1>8, <2>1, <2>2, ValueFacts DEF Shape, Open, Active
  <1>13. \A i \in Ids : Without(dir, i) => Without(d, i)
    BY <1>5, ValueFacts DEF Without, DocLeaf, Artifact, MetaLeaf, P
  <1>14. Admissible(p, d)
    BY <1>1, <1>3, <1>8, <1>10, <1>11, <1>12, <1>13, AdmitOpen
  <1>15. ~NoArtifacts(d)
    BY <1>3, <1>5 DEF NoArtifacts, Artifact, MetaLeaf
  <1>16. ASSUME dir' = d, disk' = disk \cup {d}, Proceed(p, "planSync"), pc'[p] = "planSync"
         PROVE  PrepInv(p)'
    <2>1. req' = req
      BY <1>16 DEF Proceed
    <2>2. req[p].c.src # Nil => d[req[p].c.src] # Nil
      BY <1>1, <1>2, <1>5 DEF PrepInv, Holder, Request, Change
    <2>3. \A n \in Names : d[n] # Nil => d[n].ino # req[p].id
      BY <1>1, <1>2, <1>5 DEF PrepInv
    <2>4. QED
      BY <1>3, <1>5, <1>7, <1>16, <2>1, <2>2, <2>3 DEF PrepInv
  <1>17. "planSync" \in Preparing \ Synced
    BY DEF Preparing, Synced
  <1>18. QED
    BY <1>1, <1>6, <1>8, <1>14, <1>15, <1>16, <1>17, PrepareGoes

-----------------------------------------------------------------------------
(* The system calls of a decision. *)

\* A call on behalf of the decision of p.
LEMMA ForwardGoes ==
  ASSUME FullInv, NEW p \in Procs,
         pc[p] \in {"decide", "swapLink", "publish", "delete", "completePublish"},
         NEW d, NEW label, Syscall(p, d, label), UNCHANGED <<hist, hdisk, txns>>,
         Admissible(p, d),
         \/ effects' = effects
         \/ /\ effects' = effects \cup {mem[p].id}
            /\ pc[p] \in {"publish", "delete"} /\ Active(d) /\ d["decision"] = mem[p],
         label \in {"decisionSync", "publish", "publishSync", "deleteSync", "completeSync"},
         label = "decisionSync" => pc[p] = "decide",
         dir' = d /\ disk' = disk \cup {d} /\ Proceed(p, label) /\ pc'[p] = label
            => SyncInv(p)' /\ FinishInv(p)'
  PROVE  StepInv'
  <1>1. /\ pc[p] # "idle" /\ pc[p] \in Effecting \cup {"decide"}
        /\ pc[p] = "decide" => pc[p] \in Undecided
        /\ pc[p] \notin {"recover"} \cup Retiring
    BY DEF Effecting, Undecided, Undone, Retiring
  <1>2. ModeInv(p) /\ OutInv(p)
    BY <1>1, Acting
  <1>3. mode[p] # "abort" /\ out[p] = "unknown"
    BY <1>1, <1>2 DEF ModeInv, OutInv
  <1>4. dir' \in {dir, d} /\ disk' = disk \cup {dir'}
        /\ ((dir' = d /\ Proceed(p, label)) \/ Fail(p))
    BY SyscallParts
  <1>5. Kept /\ Own(p)
    BY <1>1, <1>4, KeptAdd
  <1>6. CASE dir' = d /\ Proceed(p, label)
    <2>1. ASSUME pc'[p] = label
          PROVE  SyncInv(p)' /\ PrepInv(p)' /\ FinishInv(p)' /\ OutInv(p)'
      <3>1. SyncInv(p)' /\ FinishInv(p)'
        BY <1>4, <1>6, <2>1
      <3>2. PrepInv(p)'
        BY <2>1 DEF PrepInv, Undone, Preparing
      <3>3. OutInv(p)'
        BY <1>3, <1>6, <2>1 DEF OutInv, Proceed, Retiring
      <3>4. QED
        BY <3>1, <3>2, <3>3
    <2>2. /\ label \notin {"idle", "lockSync", "recover"} /\ label \notin Undone
          /\ label \in Undecided => pc[p] \in Undecided
      BY <1>1 DEF Undecided, Undone, Preparing
    <2>3. QED
      BY <1>1, <1>3, <1>5, <1>6, <2>1, <2>2, Proceeds
  <1>7. CASE Fail(p)
    BY <1>1, <1>5, <1>7, FailsForward
  <1>8. QED
    BY <1>4, <1>6, <1>7

\* The second link decides the transaction; its conditions still hold.
LEMMA DecideKeeps ==
  ASSUME FullInv, NEW p \in Procs, Decide(p)
  PROVE  StepInv'
  <1>1. /\ pc[p] = "decide" /\ pc[p] # "idle" /\ pc[p] \in Undone /\ pc[p] \in Undecided
        /\ UNCHANGED <<hist, hdisk, txns, effects>>
    BY DEF Decide, At, Undone, Undecided
  <1>2. /\ StoreInv /\ Claims /\ ModeInv(p) /\ SyncInv(p) /\ PrepInv(p) /\ Holder(p)
        /\ dir \in disk /\ Shape(dir) /\ dir \in DirType /\ hist \in hdisk
    BY <1>1, Acting
  <1> DEFINE P == dir["plan"]
             d == [dir EXCEPT !["decision"] = P]
  <1>3. /\ P \in Plan /\ P # Nil /\ decodes(P) /\ P.id = req[p].id /\ dir["stage"] = P.stage
        /\ Before(dir, P)
    BY <1>1, <1>2, ValueFacts DEF Holder, PrepInv
  <1>4. /\ d["decision"] = P /\ \A n \in Names : d[n] = dir[n]
        /\ \A l \in Artifact : l # "decision" => d[l] = dir[l]
    BY <1>2, WriteArtifact DEF Artifact, MetaLeaf
  <1>5. Syscall(p, d, "decisionSync")
    BY DEF Decide
  <1>6. /\ d["plan"] = P /\ d["complete"] = dir["complete"] /\ d["pending"] = dir["pending"]
        /\ d["swap"] = dir["swap"] /\ d["stage"] = dir["stage"]
    BY <1>4 DEF Artifact, MetaLeaf
  <1>7. /\ mode[p] = "apply" /\ Absent(req[p].id) /\ verdict[req[p].id] = {}
        /\ disk = {dir} /\ Open(dir)
    BY <1>1, <1>2 DEF ModeInv, SyncInv, Synced
  <1>8. planOf(dir) = P /\ record(dir) = P
    BY <1>3, <1>7 DEF planOf, record, Open
  <1> HIDE DEF d, P
  <1>9. /\ Active(d) /\ ~Open(d) /\ d["complete"] = Nil /\ record(d) = P /\ planOf(d) = P
        /\ dir["decision"] = Nil /\ dir["complete"] = Nil /\ ~Active(dir)
    BY <1>3, <1>4, <1>6, <1>7 DEF Active, Open, record, planOf
  <1>10. dir["plan"] = P /\ dir["plan"] # Nil
    BY <1>3 DEF P
  <1>11. Shape(d)
    <2>1. Public(d)
      BY <1>2, <1>4 DEF Shape, Public
    <2>2. OpenShape(dir)
      BY <1>2, <1>7 DEF Shape
    <2>3. Sound(P) /\ dir["swap"] = Nil /\ dir["pending"] = Nil
      BY <1>3, <1>8, <1>10, <2>2 DEF OpenShape
    <2>4. Before(d, P)
      BY <1>3, <1>4 DEF Before, Plan
    <2>5. P.stage # Nil => \A n \in Names : d[n] # P.stage
      BY <1>3, <1>4, <2>2 DEF OpenShape
    <2>6. ActiveShape(d)
      BY <1>3, <1>4, <1>6, <2>3, <2>4, <2>5 DEF ActiveShape
    <2>7. QED
      BY <1>6, <1>9, <2>1, <2>3, <2>6, ValueFacts DEF Shape
  <1>12. Pair(d, dir) /\ Pair(dir, d)
    BY <1>3, <1>4, <1>9 DEF Pair, Same, Before, Plan
  <1>13. \A h \in hdisk : Owes(d, h)
    <2>1. \A h \in hdisk : Owes(dir, h)
      BY <1>2 DEF StoreInv, Events
    <2>2. QED
      BY <1>8, <1>9, <2>1 DEF Owes
  <1>14. \A h \in hdisk : d["decision"].id \notin h.events
    BY <1>3, <1>4, <1>7 DEF Absent
  <1>15. \A g, h \in hdisk, i \in Ids : ~(i \in g.events /\ i \notin h.events)
    BY <1>2, <1>7, <1>9 DEF StoreInv, Events
  <1>16. \A i : ~Carries(dir, i)
    BY <1>9 DEF Carries
  <1>17. \A i \in Ids : Without(dir, i) /\ i # req[p].id => Without(d, i)
    BY <1>3, <1>4 DEF Without, DocLeaf, Artifact, MetaLeaf
  <1>18. \A i \in Ids : i = req[p].id => said(i) = {}
    BY <1>7 DEF said
  <1>19. Admissible(p, d)
    BY <1>1, <1>3, <1>4, <1>7, <1>9, <1>11, <1>12, <1>13, <1>14, <1>15, <1>16, <1>17, <1>18
       DEF Admissible
  <1>20. ASSUME dir' = d, pc'[p] = "decisionSync"
         PROVE  SyncInv(p)' /\ FinishInv(p)'
    BY <1>9, <1>20 DEF SyncInv, FinishInv, Synced, Undone, Preparing, Effecting
  <1>21. QED
    BY <1>1, <1>5, <1>19, <1>20, ForwardGoes

\* What a process that rolls a decision forward has before it.
LEMMA Forward ==
  ASSUME FullInv, NEW p \in Procs, pc[p] \in Effecting \ {"completeSync"}
  PROVE  /\ mem[p] \in Plan /\ mem[p] # Nil /\ Sound(mem[p]) /\ dir \in DirType /\ dir \in disk
         /\ \A e \in disk : e["decision"] = mem[p] /\ e["complete"] = Nil
         /\ ActiveShape(dir) /\ Public(dir) /\ dir["pending"] # Torn
         /\ dir["stage"] = mem[p].stage /\ dir["plan"] = mem[p]
         /\ mem[p].src \in Names \cup {Nil} /\ mem[p].dst \in Names \cup {Nil}
  <1>1. pc[p] # "idle" /\ pc[p] \in Effecting
    BY DEF Effecting
  <1>2. FinishInv(p) /\ Holder(p) /\ dir \in disk /\ Shape(dir) /\ dir \in DirType
    BY <1>1, Acting
  <1>3. mem[p] \in Plan /\ \A e \in disk : e["decision"] = mem[p] /\ e["complete"] = Nil
    BY <1>1, <1>2 DEF FinishInv, Holder
  <1>4. mem[p] # Nil /\ Active(dir)
    BY <1>2, <1>3, ValueFacts DEF Active
  <1>5. ActiveShape(dir) /\ Public(dir)
    BY <1>2, <1>4 DEF Shape
  <1>6. mem[p].src \in Names \cup {Nil} /\ mem[p].dst \in Names \cup {Nil}
    BY <1>3 DEF Plan
  <1>7. QED
    BY <1>2, <1>3, <1>4, <1>5, <1>6, ValueFacts DEF ActiveShape

\* A directory with the unfinished decision of p.
LEMMA ForwardShape ==
  ASSUME FullInv, NEW p \in Procs, pc[p] \in Effecting \ {"completeSync"}, NEW d,
         d["stage"] = dir["stage"], \A l \in MetaLeaf : d[l] = dir[l], Public(d),
         d["swap"] # Nil => /\ mem[p].op = "replace" /\ d["swap"] = mem[p].stage
                            /\ d[mem[p].src] = mem[p].before,
         Before(d, mem[p]) \/ Both(d, mem[p]) \/ After(d, mem[p]),
         mem[p].stage # Nil => \A n \in Names \ {target(mem[p])} : d[n] # mem[p].stage
  PROVE  Shape(d) /\ Active(d) /\ d["decision"] = mem[p] /\ d["complete"] = Nil
  <1>1. /\ mem[p] \in Plan /\ mem[p] # Nil /\ Sound(mem[p]) /\ ActiveShape(dir)
        /\ dir["decision"] = mem[p] /\ dir["complete"] = Nil
        /\ dir["stage"] = mem[p].stage /\ dir["plan"] = mem[p]
    BY Forward
  <1>2. /\ d["plan"] = mem[p] /\ d["pending"] = Nil
        /\ d["decision"] = mem[p] /\ d["complete"] = Nil
    BY <1>1 DEF MetaLeaf, ActiveShape
  <1>3. ActiveShape(d)
    BY <1>1, <1>2 DEF ActiveShape
  <1>4. Active(d) /\ ~Open(d)
    BY <1>1, <1>2 DEF Active, Open
  <1>5. QED
    BY <1>2, <1>3, <1>4, ValueFacts DEF Shape

\* A replacement gets its swap link while the source is unchanged.
LEMMA SwapLinkKeeps ==
  ASSUME FullInv, NEW p \in Procs, SwapLink(p)
  PROVE  StepInv'
  <1>1. /\ pc[p] = "swapLink" /\ pc[p] # "idle" /\ pc[p] \in Effecting \ {"completeSync"}
        /\ UNCHANGED <<hist, hdisk, txns, effects>>
    BY DEF SwapLink, At, Effecting
  <1> DEFINE P == mem[p]
             d == [dir EXCEPT !["swap"] = dir["stage"]]
  <1>2. /\ P \in Plan /\ P # Nil /\ Sound(P) /\ dir \in DirType /\ dir \in disk
        /\ \A e \in disk : e["decision"] = P /\ e["complete"] = Nil
        /\ ActiveShape(dir) /\ Public(dir) /\ dir["stage"] = P.stage
        /\ P.src \in Names \cup {Nil} /\ P.dst \in Names \cup {Nil}
    BY <1>1, Forward
  <1>3. P.op = "replace" /\ Before(dir, P)
    BY <1>1, Acting DEF FinishInv
  <1>4. /\ d["swap"] = P.stage /\ \A n \in Names : d[n] = dir[n]
        /\ \A l \in Artifact : l # "swap" => d[l] = dir[l]
    BY <1>2, WriteArtifact DEF Artifact
  <1>5. Syscall(p, d, "publish")
    BY DEF SwapLink
  <1> HIDE DEF d
  <1>6. d["stage"] = dir["stage"] /\ \A l \in MetaLeaf : d[l] = dir[l]
    BY <1>4 DEF Artifact, MetaLeaf
  <1>7. Before(d, P) /\ d[P.src] = P.before /\ Public(d)
    BY <1>2, <1>3, <1>4 DEF Before, Public, Sound
  <1>8. \A n \in Names \ {target(P)} : P.stage # Nil => d[n] # P.stage
    BY <1>2, <1>4 DEF ActiveShape
  <1>9. Shape(d) /\ Active(d) /\ d["decision"] = P /\ d["complete"] = Nil
    BY <1>1, <1>3, <1>4, <1>6, <1>7, <1>8, ForwardShape
  <1>10. \A i \in Ids : Without(dir, i) => Without(d, i)
    BY <1>2, <1>4 DEF Without, DocLeaf, Artifact, MetaLeaf
  <1>11. Admissible(p, d)
    BY <1>1, <1>4, <1>6, <1>9, <1>10, AdmitActive
  <1>12. ASSUME dir' = d, disk' = disk \cup {d}, Proceed(p, "publish"), pc'[p] = "publish"
         PROVE  SyncInv(p)' /\ FinishInv(p)'
    <2>1. mem' = mem
      BY <1>12 DEF Proceed
    <2>2. SyncInv(p)'
      BY <1>3, <1>12, <2>1 DEF SyncInv, Synced, Undone, Preparing
    <2>3. FinishInv(p)'
      BY <1>2, <1>3, <1>4, <1>7, <1>9, <1>12, <2>1 DEF FinishInv, Before
    <2>4. QED
      BY <2>2, <2>3
  <1>13. QED
    BY <1>1, <1>5, <1>11, <1>12, ForwardGoes

\* What a publication shows.
LEMMA PublishedFacts ==
  ASSUME FullInv, NEW p \in Procs, pc[p] = "publish"
  PROVE  LET P == mem[p]
             d == published(P)
         IN  /\ target(P) \in Names /\ P.stage # Nil /\ P.op # "delete"
             /\ d[target(P)] = P.stage /\ d["swap"] = Nil /\ d["stage"] = dir["stage"]
             /\ \A n \in Names : n # target(P) => d[n] = dir[n]
             /\ \A l \in MetaLeaf : d[l] = dir[l]
  <1> DEFINE P == mem[p]
             d == published(P)
  <1>1. pc[p] # "idle" /\ pc[p] \in Effecting \ {"completeSync"}
    BY DEF Effecting
  <1>2. /\ P \in Plan /\ Sound(P) /\ dir \in DirType /\ ActiveShape(dir)
        /\ dir["decision"] = P /\ dir["stage"] = P.stage
        /\ P.src \in Names \cup {Nil} /\ P.dst \in Names \cup {Nil}
    BY <1>1, Forward
  <1>3. P.op # "delete" /\ (P.op = "replace" => dir["swap"] = P.stage)
    BY <1>1, Acting DEF FinishInv
  <1>4. P.stage # Nil /\ target(P) \in Names
    BY <1>2, <1>3 DEF Sound, target
  <1>5. CASE P.op = "replace"
    <2> DEFINE e == [dir EXCEPT ![P.src] = dir["swap"]]
    <2>1. target(P) = P.src /\ P.src \in Names
      BY <1>4, <1>5 DEF target
    <2>2. /\ e[P.src] = P.stage /\ \A n \in Names : n # P.src => e[n] = dir[n]
          /\ \A l \in Artifact : e[l] = dir[l]
      BY <1>2, <1>3, <1>5, <2>1, WriteName
    <2>3. e \in DirType
      <3>1. dir["swap"] \in Object \cup {Nil}
        BY <1>2 DEF DirType, DocLeaf
      <3>2. QED
        BY <1>2, <2>1, <3>1, PutDoc DEF DocLeaf
    <2>4. d = [e EXCEPT !["swap"] = Nil]
      BY <1>5 DEF published
    <2> HIDE DEF e, d
    <2>5. /\ d["swap"] = Nil /\ \A n \in Names : d[n] = e[n]
          /\ \A l \in Artifact : l # "swap" => d[l] = e[l]
      BY <2>3, <2>4, WriteArtifact DEF Artifact
    <2>6. /\ d[target(P)] = P.stage /\ d["swap"] = Nil
          /\ \A n \in Names : n # target(P) => d[n] = dir[n]
      BY <2>1, <2>2, <2>5
    <2>7. d["stage"] = dir["stage"] /\ \A l \in MetaLeaf : d[l] = dir[l]
      BY <2>2, <2>5 DEF Artifact, MetaLeaf
    <2>8. QED
      BY <1>3, <1>4, <2>6, <2>7 DEF d
  <1>6. CASE P.op # "replace"
    <2>1. target(P) = P.dst /\ P.dst \in Names
      BY <1>4, <1>6 DEF target
    <2>2. d = [dir EXCEPT ![P.dst] = dir["stage"]]
      BY <1>6 DEF published
    <2> HIDE DEF d
    <2>3. /\ d[P.dst] = dir["stage"] /\ \A n \in Names : n # P.dst => d[n] = dir[n]
          /\ \A l \in Artifact : d[l] = dir[l]
      BY <1>2, <2>1, <2>2, WriteName
    <2>4. dir["swap"] = Nil
      BY <1>2, <1>6 DEF ActiveShape
    <2>5. d["stage"] = dir["stage"] /\ d["swap"] = Nil /\ \A l \in MetaLeaf : d[l] = dir[l]
      BY <2>3, <2>4 DEF Artifact, MetaLeaf
    <2>6. QED
      BY <1>2, <1>3, <1>4, <2>1, <2>3, <2>5 DEF d
  <1>7. QED
    BY <1>5, <1>6

\* The public name changes, on behalf of the durable decision.
LEMMA PublishKeeps ==
  ASSUME FullInv, NEW p \in Procs, Publish(p)
  PROVE  StepInv'
  <1>1. /\ pc[p] = "publish" /\ pc[p] # "idle" /\ pc[p] \in Effecting \ {"completeSync"}
        /\ UNCHANGED <<hist, hdisk, txns>>
    BY DEF Publish, At, Effecting
  <1> DEFINE P == mem[p]
             d == published(P)
  <1>2. /\ P \in Plan /\ P # Nil /\ Sound(P) /\ dir \in DirType /\ dir \in disk
        /\ \A e \in disk : e["decision"] = P /\ e["complete"] = Nil
        /\ ActiveShape(dir) /\ Public(dir) /\ dir["stage"] = P.stage
        /\ P.src \in Names \cup {Nil} /\ P.dst \in Names \cup {Nil}
    BY <1>1, Forward
  <1>3. Before(dir, P)
    BY <1>1, Acting DEF FinishInv
  <1>4. /\ target(P) \in Names /\ P.stage # Nil /\ P.op # "delete"
        /\ d[target(P)] = P.stage /\ d["swap"] = Nil /\ d["stage"] = dir["stage"]
        /\ \A n \in Names : n # target(P) => d[n] = dir[n]
        /\ \A l \in MetaLeaf : d[l] = dir[l]
    BY <1>1, PublishedFacts
  <1>5. CASE Fail(p) /\ UNCHANGED <<dir, disk, faults, effects>>
    BY <1>1, <1>5, KeptSame, FailsForward
  <1>6. CASE /\ Syscall(p, d, "publishSync")
             /\ effects' = IF dir' = dir THEN effects ELSE effects \cup {P.id}
    <2> HIDE DEF d
    <2>1. \A n \in Names : dir[n] # P.stage
      <3>1. dir[target(P)] # P.stage
        BY <1>2, <1>3, <1>4 DEF Before, target, Sound
      <3>2. QED
        BY <1>2, <1>4, <3>1 DEF ActiveShape
    <2>2. Public(d)
      BY <1>2, <1>4, <2>1 DEF Public, Sound
    <2>3. \A n \in Names \ {target(P)} : P.stage # Nil => d[n] # P.stage
      BY <1>4, <2>1
    <2>4. After(d, P) \/ Both(d, P)
      BY <1>2, <1>3, <1>4 DEF After, Both, Before, Sound, target, Plan
    <2>5. Shape(d) /\ Active(d) /\ d["decision"] = P /\ d["complete"] = Nil
      BY <1>1, <1>4, <2>2, <2>3, <2>4, ForwardShape
    <2>6. \A n \in Names \ {P.src, P.dst} : d[n] = dir[n]
      BY <1>4 DEF target
    <2>7. \A i \in Ids : Without(dir, i) => Without(d, i)
      <3>1. \A l \in DocLeaf : d[l] \in {Nil, dir[l], dir["stage"]}
        BY <1>2, <1>4 DEF DocLeaf
      <3>2. QED
        BY <1>4, <3>1 DEF Without, DocLeaf
    <2>8. Admissible(p, d)
      BY <1>1, <1>4, <2>5, <2>6, <2>7, AdmitActive
    <2>9. ASSUME dir' = d, disk' = disk \cup {d}, Proceed(p, "publishSync"), pc'[p] = "publishSync"
          PROVE  SyncInv(p)' /\ FinishInv(p)'
      <3>1. mem' = mem
        BY <2>9 DEF Proceed
      <3>2. SyncInv(p)'
        BY <2>9 DEF SyncInv, Synced, Undone, Preparing
      <3>3. FinishInv(p)'
        BY <1>2, <1>4, <2>5, <2>9, <3>1 DEF FinishInv, target
      <3>4. QED
        BY <3>2, <3>3
    <2>10. effects' = effects \/ effects' = effects \cup {P.id}
      BY <1>6
    <2>11. QED
      BY <1>1, <1>6, <2>5, <2>8, <2>9, <2>10, ForwardGoes
  <1>7. QED
    BY <1>5, <1>6 DEF Publish

\* The source goes last.
LEMMA DeleteKeeps ==
  ASSUME FullInv, NEW p \in Procs, Delete(p)
  PROVE  StepInv'
  <1>1. /\ pc[p] = "delete" /\ pc[p] # "idle" /\ pc[p] \in Effecting \ {"completeSync"}
        /\ UNCHANGED <<hist, hdisk, txns>>
    BY DEF Delete, At, Effecting
  <1> DEFINE P == mem[p]
             d == [dir EXCEPT ![P.src] = Nil]
  <1>2. /\ P \in Plan /\ P # Nil /\ Sound(P) /\ dir \in DirType /\ dir \in disk
        /\ \A e \in disk : e["decision"] = P /\ e["complete"] = Nil
        /\ ActiveShape(dir) /\ Public(dir) /\ dir["stage"] = P.stage
        /\ P.src \in Names \cup {Nil} /\ P.dst \in Names \cup {Nil}
    BY <1>1, Forward
  <1>3. /\ P.op \in {"delete", "rename"} /\ (P.op = "rename" => dir[P.dst] = P.stage)
        /\ dir["swap"] = Nil
    BY <1>1, Acting DEF FinishInv
  <1>4. P.src \in Names
    BY <1>2, <1>3 DEF Sound
  <1>5. /\ d[P.src] = Nil /\ \A n \in Names : n # P.src => d[n] = dir[n]
        /\ \A l \in Artifact : d[l] = dir[l]
    BY <1>2, <1>4, WriteName
  <1>6. CASE Fail(p) /\ UNCHANGED <<dir, disk, faults, effects>>
    BY <1>1, <1>6, KeptSame, FailsForward
  <1>7. CASE /\ Syscall(p, d, "deleteSync")
             /\ effects' = IF dir' = dir THEN effects ELSE effects \cup {P.id}
    <2> HIDE DEF d
    <2>1. /\ d["stage"] = dir["stage"] /\ d["swap"] = Nil /\ \A l \in MetaLeaf : d[l] = dir[l]
      BY <1>3, <1>5 DEF Artifact, MetaLeaf
    <2>2. Public(d)
      BY <1>2, <1>5 DEF Public
    <2>3. \A n \in Names \ {target(P)} : P.stage # Nil => d[n] # P.stage
      BY <1>2, <1>5 DEF ActiveShape
    <2>4. After(d, P)
      <3>1. CASE P.op = "delete"
        BY <1>2, <1>5, <3>1 DEF After, Sound
      <3>2. CASE P.op = "rename"
        <4>1. target(P) = P.dst /\ P.dst # P.src /\ P.dst \in Names
          BY <1>2, <3>2 DEF Sound, target
        <4>2. QED
          BY <1>3, <1>5, <3>2, <4>1 DEF After
      <3>3. QED
        BY <1>3, <3>1, <3>2
    <2>5. Shape(d) /\ Active(d) /\ d["decision"] = P /\ d["complete"] = Nil
      BY <1>1, <2>1, <2>2, <2>3, <2>4, ForwardShape
    <2>6. \A n \in Names \ {P.src, P.dst} : d[n] = dir[n]
      BY <1>5
    <2>7. \A i \in Ids : Without(dir, i) => Without(d, i)
      BY <1>5, <2>1 DEF Without, DocLeaf, Artifact
    <2>8. Admissible(p, d)
      BY <1>1, <2>1, <2>5, <2>6, <2>7, AdmitActive
    <2>9. ASSUME dir' = d, disk' = disk \cup {d}, Proceed(p, "deleteSync"), pc'[p] = "deleteSync"
          PROVE  SyncInv(p)' /\ FinishInv(p)'
      <3>1. mem' = mem
        BY <2>9 DEF Proceed
      <3>2. SyncInv(p)'
        BY <2>9 DEF SyncInv, Synced, Undone, Preparing
      <3>3. After(dir, mem[p])'
        BY <2>4, <2>9, <3>1 DEF After, target
      <3>4. FinishInv(p)'
        BY <1>2, <2>1, <2>5, <2>9, <3>1, <3>3 DEF FinishInv
      <3>5. QED
        BY <3>2, <3>4
    <2>10. effects' = effects \/ effects' = effects \cup {P.id}
      BY <1>7
    <2>11. QED
      BY <1>1, <1>7, <2>5, <2>8, <2>9, <2>10, ForwardGoes
  <1>8. QED
    BY <1>6, <1>7 DEF Delete

\* The receipt is linked after the event is durable.
LEMMA CompletePublishKeeps ==
  ASSUME FullInv, NEW p \in Procs, CompletePublish(p)
  PROVE  StepInv'
  <1>1. /\ pc[p] = "completePublish" /\ pc[p] # "idle" /\ pc[p] \in Effecting \ {"completeSync"}
        /\ UNCHANGED <<hist, hdisk, txns, effects>>
    BY DEF CompletePublish, At, Effecting
  <1> DEFINE P == mem[p]
             d == [dir EXCEPT !["complete"] = dir["plan"]]
  <1>2. /\ P \in Plan /\ P # Nil /\ Sound(P) /\ dir \in DirType /\ dir \in disk
        /\ \A e \in disk : e["decision"] = P /\ e["complete"] = Nil
        /\ ActiveShape(dir) /\ Public(dir) /\ dir["pending"] # Torn
        /\ dir["stage"] = P.stage /\ dir["plan"] = P
    BY <1>1, Forward
  <1>3. /\ StoreInv /\ Claims /\ disk = {dir} /\ After(dir, P) /\ dir["swap"] = Nil
        /\ \A h \in hdisk : P.id \in h.events
    BY <1>1, Acting DEF SyncInv, FinishInv, Synced
  <1>4. /\ d["complete"] = P /\ \A n \in Names : d[n] = dir[n]
        /\ \A l \in Artifact : l # "complete" => d[l] = dir[l]
    BY <1>2, WriteArtifact DEF Artifact, MetaLeaf
  <1>5. Syscall(p, d, "completeSync")
    BY DEF CompletePublish
  <1> HIDE DEF d
  <1>6. /\ d["plan"] = P /\ d["decision"] = P /\ d["pending"] = dir["pending"]
        /\ d["swap"] = Nil /\ d["stage"] = P.stage
    BY <1>2, <1>3, <1>4 DEF Artifact, MetaLeaf
  <1>7. /\ Active(dir) /\ ~Open(dir) /\ ~Active(d) /\ ~Open(d) /\ record(d) = P /\ record(dir) = P
        /\ planOf(d) = P /\ planOf(dir) = P
    BY <1>2, <1>4 DEF Active, Open, record, planOf
  <1>8. Shape(d)
    <2>1. Public(d)
      BY <1>2, <1>4 DEF Public
    <2>2. After(d, P)
      <3>1. P.stage # Nil => target(P) \in Names
        BY <1>2 DEF target, Sound, Plan
      <3>2. P.op \in {"delete", "rename", "clone"} => P.src \in Names
        BY <1>2 DEF Sound, Plan
      <3>3. QED
        BY <1>3, <1>4, <3>1, <3>2 DEF After
    <2>3. dir["pending"] = Nil
      BY <1>2 DEF ActiveShape
    <2>4. CompleteShape(d)
      BY <1>2, <1>4, <1>6, <2>2, <2>3 DEF CompleteShape
    <2>5. QED
      BY <1>2, <1>6, <1>7, <2>1, <2>4 DEF Shape
  <1>9. Pair(d, dir) /\ Pair(dir, d)
    BY <1>2, <1>4, <1>6, <1>7 DEF Pair, Same
  <1>10. \A h \in hdisk : Owes(d, h)
    <2>1. \A h \in hdisk : Owes(dir, h)
      BY <1>2, <1>3 DEF StoreInv, Events
    <2>2. QED
      BY <1>3, <1>4, <1>7, <2>1 DEF Owes
  <1>11. \A g, h \in hdisk, i \in Ids : ~(i \in g.events /\ i \notin h.events)
    BY <1>2, <1>3 DEF StoreInv, Events
  <1>12. \A i : Carries(dir, i) => Carries(d, i)
    BY <1>2, <1>4, <1>7 DEF Carries
  <1>13. \A i \in Ids : Without(dir, i) => Without(d, i)
    <2>1. \A l \in DocLeaf : d[l] = dir[l]
      BY <1>4 DEF DocLeaf, Artifact
    <2>2. \A l \in MetaLeaf : d[l] \in {dir[l], dir["plan"]}
      BY <1>2, <1>4 DEF Artifact, MetaLeaf
    <2>3. "plan" \in MetaLeaf
      BY DEF MetaLeaf
    <2>4. QED
      BY <2>1, <2>2, <2>3 DEF Without
  <1>14. \A i \in Ids : "not_committed" \in said(i) => P.id # i
    BY <1>2, <1>3, <1>7 DEF Claims, Denied
  <1>15. Admissible(p, d)
    BY <1>2, <1>3, <1>4, <1>7, <1>8, <1>9, <1>10, <1>11, <1>12, <1>13, <1>14 DEF Admissible
  <1>16. ASSUME dir' = d, disk' = disk \cup {d}, Proceed(p, "completeSync"), pc'[p] = "completeSync"
         PROVE  SyncInv(p)' /\ FinishInv(p)'
    <2>1. mem' = mem
      BY <1>16 DEF Proceed
    <2>2. QED
      BY <1>2, <1>4, <1>16, <2>1 DEF SyncInv, FinishInv, Synced, Undone, Preparing, Effecting
  <1>17. QED
    BY <1>1, <1>5, <1>15, <1>16, ForwardGoes

-----------------------------------------------------------------------------
(* The retirement of artifacts. *)

\* cleanup removes the receipt last.
LEMMA RemovesInOrder ==
  ASSUME NEW d, artifacts(d) # {}
  PROVE  /\ nextRemoval(d) \in Artifact
         /\ nextRemoval(d) = "complete" => \A l \in Artifact : l # "complete" => d[l] = Nil
  <1> DEFINE first(i) == /\ d[cleanupOrder[i]] # Nil
                         /\ \A j \in 1..(i - 1) : d[cleanupOrder[j]] = Nil
  <1>1. /\ cleanupOrder[1] = "pending" /\ cleanupOrder[2] = "swap"
        /\ cleanupOrder[3] = "stage" /\ cleanupOrder[4] = "decision"
        /\ cleanupOrder[5] = "plan" /\ cleanupOrder[6] = "complete"
    BY DEF cleanupOrder
  <1>2. \E i \in 1..6 : d[cleanupOrder[i]] # Nil
    <2>1. PICK l \in Artifact : d[l] # Nil
      BY DEF artifacts
    <2>2. QED
      BY <1>1, <2>1 DEF Artifact, MetaLeaf
  <1>3. \E i \in 1..6 : first(i)
    <2>1. 1 \in 1..6 /\ 2 \in 1..6 /\ 3 \in 1..6 /\ 4 \in 1..6 /\ 5 \in 1..6 /\ 6 \in 1..6
      OBVIOUS
    <2>2. first(1) \/ first(2) \/ first(3) \/ first(4) \/ first(5) \/ first(6)
      <3>1. \A i \in 1..6 : i \in {1, 2, 3, 4, 5, 6}
        OBVIOUS
      <3>2. /\ 1..(1-1) = {} /\ 1..(2-1) = {1} /\ 1..(3-1) = {1, 2} /\ 1..(4-1) = {1, 2, 3}
            /\ 1..(5-1) = {1, 2, 3, 4} /\ 1..(6-1) = {1, 2, 3, 4, 5}
        OBVIOUS
      <3>3. QED
        BY <1>2, <3>1, <3>2
    <2>3. QED
      BY <2>1, <2>2
  <1>4. PICK k \in 1..6 : nextRemoval(d) = cleanupOrder[k] /\ first(k)
    <2>1. nextRemoval(d) = cleanupOrder[CHOOSE i \in 1..6 : first(i)]
      BY DEF nextRemoval
    <2> HIDE DEF first
    <2>2. (CHOOSE i \in 1..6 : first(i)) \in 1..6 /\ first(CHOOSE i \in 1..6 : first(i))
      BY <1>3
    <2>3. QED
      BY <2>1, <2>2
  <1>5. k \in {1, 2, 3, 4, 5, 6}
    OBVIOUS
  <1>6. CASE k # 6
    BY <1>1, <1>4, <1>5, <1>6 DEF Artifact, MetaLeaf
  <1>7. CASE k = 6
    <2>1. /\ 1 \in 1..(6 - 1) /\ 2 \in 1..(6 - 1) /\ 3 \in 1..(6 - 1)
          /\ 4 \in 1..(6 - 1) /\ 5 \in 1..(6 - 1)
      OBVIOUS
    <2>2. /\ d["pending"] = Nil /\ d["swap"] = Nil /\ d["stage"] = Nil
          /\ d["decision"] = Nil /\ d["plan"] = Nil
      BY <1>1, <1>4, <1>7, <2>1
    <2>3. QED
      BY <1>1, <1>4, <1>7, <2>2 DEF Artifact, MetaLeaf
  <1>8. QED
    BY <1>6, <1>7

\* A removal that keeps what the outcome stands for.
LEMMA CleanupGoes ==
  ASSUME FullInv, NEW p \in Procs, pc[p] = "cleanup", NEW d, Admissible(p, d),
         Syscall(p, d, "cleanupSync"), UNCHANGED <<hist, hdisk, txns, effects>>,
         (\A e \in disk : Open(e)) => Open(d),
         out[p] = "committed" => (record(d) # Nil => d["complete"] = mem[p])
  PROVE  StepInv'
  <1>1. pc[p] # "idle" /\ pc[p] \in Retiring /\ pc[p] \notin {"recover", "validate"} \cup Preparing
    BY DEF Retiring, Preparing
  <1>2. ModeInv(p) /\ OutInv(p) /\ dir \in disk
    BY <1>1, Acting
  <1>3. dir' \in {dir, d} /\ disk' = disk \cup {dir'}
        /\ ((dir' = d /\ Proceed(p, "cleanupSync")) \/ Fail(p))
    BY SyscallParts
  <1>4. Kept /\ Own(p)
    BY <1>1, <1>3, KeptAdd
  <1>5. disk' \subseteq disk \cup {d}
    BY <1>2, <1>3
  <1>6. mode[p] = "abort" \/ out[p] = "not_committed" => \A e \in disk' : Open(e)
    BY <1>1, <1>2, <1>5 DEF ModeInv, OutInv
  <1>8. out[p] = "committed" =>
           /\ mem[p] # Nil /\ \A h \in hdisk' : mem[p].id \in h.events
           /\ \A e \in disk' : record(e) # Nil => e["complete"] = mem[p]
    BY <1>1, <1>2, <1>5 DEF OutInv
  <1>9. CASE dir' = d /\ Proceed(p, "cleanupSync")
    <2>1. ASSUME pc'[p] = "cleanupSync"
          PROVE  SyncInv(p)' /\ PrepInv(p)' /\ FinishInv(p)' /\ OutInv(p)'
      <3>1. SyncInv(p)' /\ PrepInv(p)' /\ FinishInv(p)'
        BY <2>1 DEF SyncInv, PrepInv, FinishInv, Synced, Undone, Preparing, Effecting
      <3>2. mem' = mem /\ out' = out /\ mode' = mode
        BY <1>9 DEF Proceed
      <3>3. OutInv(p)'
        BY <1>1, <1>2, <1>6, <1>8, <2>1, <3>2 DEF OutInv, Effecting, Retiring, Absent
      <3>4. QED
        BY <3>1, <3>3
    <2>2. "cleanupSync" \notin Undecided /\ "cleanupSync" \notin Undone /\ "cleanupSync" \in Retiring
      BY DEF Undecided, Undone, Preparing, Retiring
    <2>3. QED
      BY <1>1, <1>4, <1>6, <1>9, <2>1, <2>2, Proceeds
  <1>10. CASE Fail(p)
    <2>1. out[p] = "not_committed" => \A i \in Ids : mem[p] # Nil /\ i = mem[p].id => Absent(i)'
      BY <1>1, <1>2 DEF OutInv, Absent
    <2>2. out[p] = "committed" => \A i \in Ids : mem[p] # Nil /\ i = mem[p].id => Confirmed(i)'
      BY <1>8, ValueFacts DEF Confirmed
    <2>3. QED
      BY <1>1, <1>4, <1>6, <1>10, <2>1, <2>2, Fails
  <1>11. QED
    BY <1>3, <1>9, <1>10

\* Before a decision: removing what is prepared.
LEMMA RemovesPrepared ==
  ASSUME FullInv, NEW p \in Procs, pc[p] = "cleanup", \A e \in disk : Open(e),
         NEW l \in Artifact
  PROVE  LET d == [dir EXCEPT ![l] = Nil] IN
         Admissible(p, d) /\ Open(d) /\ record(d) \in {Nil, record(dir)}
  <1> DEFINE d == [dir EXCEPT ![l] = Nil]
  <1>1. pc[p] # "idle" /\ StoreInv /\ dir \in disk /\ Shape(dir) /\ dir \in DirType
    BY Acting
  <1>2. Open(dir) /\ OpenShape(dir) /\ Public(dir)
    BY <1>1 DEF Shape
  <1>3. /\ \A n \in Names : d[n] = dir[n]
        /\ \A m \in Artifact : d[m] \in {Nil, dir[m]}
        /\ \A m \in Artifact : m # l => d[m] = dir[m]
        /\ d[l] = Nil
    BY <1>1, WriteArtifact
  <1> HIDE DEF d
  <1>4. /\ d["pending"] \in {Nil, dir["pending"]} /\ d["plan"] \in {Nil, dir["plan"]}
        /\ d["stage"] \in {Nil, dir["stage"]} /\ d["swap"] \in {Nil, dir["swap"]}
        /\ d["decision"] \in {Nil, dir["decision"]} /\ d["complete"] \in {Nil, dir["complete"]}
    BY <1>3 DEF Artifact, MetaLeaf
  <1>5. Open(d) /\ ~Active(d) /\ d["complete"] = Nil
    BY <1>2, <1>4 DEF Open, Active
  <1>6. record(d) = d["plan"] /\ record(dir) = dir["plan"]
    BY <1>2, <1>5 DEF record, Open
  <1>7. planOf(d) \in {Nil, planOf(dir)}
    BY <1>2, <1>4, <1>6 DEF planOf, OpenShape, decodes
  <1>8. Shape(d)
    <2>1. Public(d)
      BY <1>2, <1>3 DEF Public
    <2>2. OpenShape(d)
      BY <1>2, <1>3, <1>4, <1>7 DEF OpenShape
    <2>3. PendingCuts \subseteq {Short} => d["pending"] # Torn
      BY <1>1, <1>4, ValueFacts DEF Shape
    <2>4. QED
      BY <1>5, <2>1, <2>2, <2>3 DEF Shape
  <1>9. \A h \in hdisk : Owes(d, h)
    BY <1>1, <1>2, <1>5, <1>7 DEF StoreInv, Events, Owes
  <1>10. \A i \in Ids : Without(dir, i) => Without(d, i)
    <2>1. \A m \in DocLeaf : d[m] \in {Nil, dir[m]}
      BY <1>3 DEF DocLeaf, Artifact
    <2>2. \A m \in MetaLeaf : d[m] \in {Nil, dir[m]}
      BY <1>3 DEF Artifact
    <2>3. QED
      BY <2>1, <2>2, ValueFacts DEF Without
  <1>11. Same(d, dir) /\ record(d) \in {Nil, record(dir)}
    BY <1>3, <1>4, <1>6 DEF Same
  <1>12. Admissible(p, d)
    BY <1>1, <1>5, <1>8, <1>9, <1>10, <1>11, AdmitOpen
  <1>13. QED
    BY <1>5, <1>11, <1>12 DEF d

\* After the receipt: removing what is left, the receipt last.
LEMMA RemovesRetired ==
  ASSUME FullInv, NEW p \in Procs, pc[p] = "cleanup", disk = {dir}, dir["complete"] # Nil,
         \A h \in hdisk : dir["complete"].id \in h.events,
         NEW l \in Artifact, l = "complete" => \A m \in Artifact : m # "complete" => dir[m] = Nil
  PROVE  LET d == [dir EXCEPT ![l] = Nil] IN
         Admissible(p, d) /\ (record(d) # Nil => d["complete"] = dir["complete"])
  <1> DEFINE d == [dir EXCEPT ![l] = Nil]
             P == dir["complete"]
  <1>1. /\ pc[p] # "idle" /\ StoreInv /\ Claims /\ dir \in disk /\ Shape(dir) /\ dir \in DirType
    BY Acting
  <1>2. CompleteShape(dir) /\ Public(dir) /\ ~Open(dir) /\ ~Active(dir) /\ P \in Plan /\ Sound(P)
    BY <1>1 DEF Shape, Open, Active, CompleteShape
  <1>3. /\ \A n \in Names : d[n] = dir[n]
        /\ \A m \in Artifact : d[m] \in {Nil, dir[m]}
        /\ \A m \in Artifact : m # l => d[m] = dir[m]
        /\ d[l] = Nil
    BY <1>1, WriteArtifact
  <1> HIDE DEF d, P
  <1>4. /\ d["pending"] \in {Nil, dir["pending"]} /\ d["plan"] \in {Nil, dir["plan"]}
        /\ d["stage"] \in {Nil, dir["stage"]} /\ d["swap"] \in {Nil, dir["swap"]}
        /\ d["decision"] \in {Nil, dir["decision"]}
    BY <1>3 DEF Artifact, MetaLeaf
  <1>5. /\ record(dir) = P /\ planOf(dir) = P /\ P # Nil
    BY <1>2, ValueFacts DEF record, planOf, P
  <1>6. \/ d["complete"] = P /\ record(d) = P /\ planOf(d) = P /\ ~Open(d) /\ ~Active(d)
        \/ /\ \A m \in Artifact : d[m] = Nil
           /\ record(d) = Nil /\ planOf(d) = Nil /\ Open(d) /\ ~Active(d) /\ d["complete"] = Nil
    <2>1. CASE l # "complete"
      <3>1. d["complete"] = P
        BY <1>3, <2>1 DEF P, Artifact, MetaLeaf
      <3>2. QED
        BY <1>5, <3>1 DEF record, planOf, Open, Active
    <2>2. CASE l = "complete"
      <3>1. \A m \in Artifact : d[m] = Nil
        BY <1>3, <2>2
      <3>2. d["complete"] = Nil /\ d["decision"] = Nil /\ d["plan"] = Nil /\ d["pending"] = Nil
        BY <3>1 DEF Artifact, MetaLeaf
      <3>3. QED
        BY <3>1, <3>2 DEF record, planOf, Open, Active, decodes
    <2>3. QED
      BY <2>1, <2>2
  <1>7. Shape(d)
    <2>1. Public(d)
      BY <1>2, <1>3 DEF Public
    <2>2. d["pending"] = Nil
      BY <1>2, <1>4 DEF CompleteShape
    <2>3. Open(d) => OpenShape(d)
      <3>1. ASSUME \A m \in Artifact : d[m] = Nil
            PROVE  d["swap"] = Nil /\ d["plan"] = Nil /\ d["stage"] = Nil
        BY <3>1 DEF Artifact, MetaLeaf
      <3>2. QED
        BY <1>6, <3>1 DEF OpenShape
    <2>4. d["complete"] # Nil => CompleteShape(d)
      <3> SUFFICES ASSUME d["complete"] = P
                   PROVE  CompleteShape(d)
        BY <1>6
      <3>1. P.stage # Nil => target(P) \in Names
        BY <1>2 DEF target, Sound, Plan
      <3>2. P.op \in {"delete", "rename", "clone"} => P.src \in Names
        BY <1>2 DEF Sound, Plan
      <3>3. After(d, P)
        BY <1>2, <1>3, <3>1, <3>2 DEF CompleteShape, After, P
      <3>4. QED
        BY <1>2, <1>4, <3>3 DEF CompleteShape, P
    <2>5. QED
      BY <1>6, <2>1, <2>2, <2>3, <2>4, ValueFacts DEF Shape
  <1>8. Pair(d, dir) /\ Pair(dir, d)
    BY <1>2, <1>3, <1>6 DEF Pair, Same
  <1>9. \A h \in hdisk : Owes(d, h)
    <2>1. \A h \in hdisk : Owes(dir, h)
      BY <1>1 DEF StoreInv, Events
    <2>2. QED
      BY <1>5, <1>6, <2>1 DEF Owes, P
  <1>10. \A g, h \in hdisk, i \in Ids : ~(i \in g.events /\ i \notin h.events)
    BY <1>1, <1>2 DEF StoreInv, Events
  <1>11. \A i : Carries(dir, i) => Carries(d, i) \/ \A h \in hdisk : i \in h.events
    BY <1>5, <1>6 DEF Carries, P
  <1>12. \A i \in Ids : Without(dir, i) => Without(d, i)
    <2>1. \A m \in DocLeaf : d[m] \in {Nil, dir[m]}
      BY <1>3 DEF DocLeaf, Artifact
    <2>2. \A m \in MetaLeaf : d[m] \in {Nil, dir[m]}
      BY <1>3 DEF Artifact
    <2>3. QED
      BY <2>1, <2>2, ValueFacts DEF Without
  <1>13. \A i \in Ids : "not_committed" \in said(i) => P.id # i
    BY <1>1, <1>5 DEF Claims, Denied, P
  <1>14. Admissible(p, d)
    <2>1. ~Active(d) /\ (record(d) # Nil => d["complete"] # Nil) /\ d["complete"] \in {Nil, P}
      BY <1>5, <1>6
    <2>2. \A e \in disk : ~Active(e) /\ Pair(d, e) /\ Pair(e, d)
      BY <1>2, <1>8
    <2>3. \A i \in effects : (\A e \in disk : Carries(e, i))
                             => Carries(d, i) \/ \A h \in hdisk : i \in h.events
      BY <1>1, <1>11
    <2>4. \A i \in Ids : "not_committed" \in said(i) => (d["complete"] # Nil => d["complete"].id # i)
      BY <1>13, <2>1
    <2>5. QED
      BY <1>7, <1>9, <1>10, <1>12, <2>1, <2>2, <2>3, <2>4 DEF Admissible
  <1>15. QED
    BY <1>5, <1>6, <1>14 DEF d, P

\* Every removal of cleanup leaves a directory recovery understands.
LEMMA CleanupKeeps ==
  ASSUME FullInv, NEW p \in Procs, Cleanup(p)
  PROVE  StepInv'
  <1>1. /\ pc[p] = "cleanup" /\ pc[p] # "idle" /\ pc[p] \in Retiring
        /\ UNCHANGED <<hist, hdisk, txns, effects>>
    BY DEF Cleanup, At, Retiring
  <1>2. /\ ModeInv(p) /\ SyncInv(p) /\ OutInv(p) /\ CtlOK /\ Shape(dir) /\ dir \in disk
        /\ StoreInv
    BY <1>1, Acting
  <1>3. CASE artifacts(dir) = {}
    <2>1. NoArtifacts(dir) /\ Proceed(p, "historyAbort") /\ UNCHANGED <<dir, disk>>
      BY <1>3 DEF Cleanup, NoArtifacts, artifacts
    <2>2. disk = {dir}
      BY <1>1, <1>2, <2>1 DEF SyncInv
    <2>3. Kept /\ Own(p)
      BY <1>1, <2>1, KeptSame
    <2>4. ASSUME pc'[p] = "historyAbort"
          PROVE  SyncInv(p)' /\ PrepInv(p)' /\ FinishInv(p)' /\ OutInv(p)'
      <3>1. mem' = mem /\ out' = out /\ mode' = mode
        BY <2>1 DEF Proceed
      <3>2. SyncInv(p)'
        BY <2>1, <2>2 DEF SyncInv
      <3>3. PrepInv(p)' /\ FinishInv(p)'
        BY <2>4 DEF PrepInv, FinishInv, Undone, Preparing, Effecting
      <3>4. OutInv(p)'
        BY <1>1, <1>2, <2>1, <2>4, <3>1 DEF OutInv, Effecting, Retiring, Absent
      <3>5. QED
        BY <3>2, <3>3, <3>4
    <2>5. /\ "historyAbort" \notin Undecided /\ "historyAbort" \notin Undone
          /\ "historyAbort" \in Retiring
      BY DEF Undecided, Undone, Preparing, Retiring
    <2>6. mode[p] = "abort" => \A e \in disk' : Open(e)
      BY <1>2, <2>1 DEF ModeInv
    <2>7. QED
      BY <1>1, <2>1, <2>3, <2>4, <2>5, <2>6, Proceeds
  <1>4. CASE artifacts(dir) # {}
    <2> DEFINE l == nextRemoval(dir)
               d == [dir EXCEPT ![l] = Nil]
    <2>1. Syscall(p, d, "cleanupSync")
      BY <1>4 DEF Cleanup
    <2>2. /\ l \in Artifact
          /\ l = "complete" => \A m \in Artifact : m # "complete" => dir[m] = Nil
      BY <1>4, RemovesInOrder
    <2> HIDE DEF l
    <2>3. CASE \A e \in disk : Open(e)
      <3>1. Admissible(p, d) /\ Open(d) /\ record(d) \in {Nil, record(dir)}
        BY <1>1, <2>2, <2>3, RemovesPrepared
      <3> HIDE DEF d
      <3>2. out[p] = "committed" => record(dir) = Nil
        <4>1. out[p] = "committed" => (record(dir) # Nil => dir["complete"] = mem[p] /\ mem[p] # Nil)
          BY <1>1, <1>2 DEF OutInv
        <4>2. dir["complete"] = Nil
          BY <1>2, <2>3 DEF Open
        <4>3. QED
          BY <4>1, <4>2
      <3>3. out[p] = "committed" => (record(d) # Nil => d["complete"] = mem[p])
        BY <3>1, <3>2
      <3>4. QED
        BY <1>1, <2>1, <3>1, <3>3, CleanupGoes
    <2>4. CASE ~ \A e \in disk : Open(e)
      <3>1. disk = {dir} /\ out[p] = "committed"
        BY <1>1, <1>2, <2>4 DEF ModeInv, SyncInv, OutInv, CtlOK, States
      <3>2. record(dir) # Nil
        BY <2>4, <3>1 DEF Open, record
      <3>3. /\ dir["complete"] = mem[p] /\ mem[p] # Nil
            /\ \A h \in hdisk : mem[p].id \in h.events
        BY <1>1, <1>2, <3>1, <3>2 DEF OutInv
      <3>4. Admissible(p, d) /\ (record(d) # Nil => d["complete"] = dir["complete"])
        BY <1>1, <2>2, <3>1, <3>3, RemovesRetired
      <3> HIDE DEF d
      <3>5. QED
        BY <1>1, <2>1, <2>4, <3>1, <3>3, <3>4, CleanupGoes
    <2>5. QED
      BY <2>3, <2>4
  <1>5. QED
    BY <1>3, <1>4

-----------------------------------------------------------------------------
(* The invariant holds. *)

\* It holds of a settled repository.
LEMMA BeginsFull ==
  ASSUME Init
  PROVE  FullInv
  <1>1. IndInv
    BY InitHolds
  <1>2. PICK present \in [Names -> Docs \cup {Nil}] :
          dir = [l \in Leaf |-> IF l \in Names /\ present[l] # Nil
                                THEN [ino |-> l, body |-> present[l]] ELSE Nil]
    BY DEF Init
  <1>3. /\ \A n \in Names : dir[n] # Nil => dir[n].ino = n /\ dir[n].body \in Docs
        /\ \A l \in Artifact : dir[l] = Nil
    BY <1>2, LeafFacts
  <1>4. /\ dir["stage"] = Nil /\ dir["swap"] = Nil /\ dir["pending"] = Nil
        /\ dir["plan"] = Nil /\ dir["decision"] = Nil /\ dir["complete"] = Nil
    BY <1>3 DEF Artifact, MetaLeaf
  <1>5. Open(dir) /\ ~Active(dir) /\ record(dir) = Nil /\ planOf(dir) = Nil
    BY <1>4 DEF Open, Active, record, planOf, decodes
  <1>6. Shape(dir)
    <2>1. Public(dir)
      BY <1>3 DEF Public
    <2>2. OpenShape(dir)
      BY <1>4, <1>5 DEF OpenShape
    <2>3. QED
      BY <1>4, <1>5, <2>1, <2>2, ValueFacts DEF Shape
  <1>7. disk = {dir} /\ hdisk = {hist} /\ hist.events = {} /\ effects = {}
    BY DEF Init
  <1>8. StoreInv
    <2>1. Pair(dir, dir)
      BY DEF Pair, Same, Active, Open
    <2>2. Owes(dir, hist)
      BY <1>4, <1>5 DEF Owes
    <2>3. QED
      BY <1>5, <1>6, <1>7, <2>1, <2>2 DEF StoreInv, Directories, Events
  <1>9. \A i \in Ids : Absent(i) /\ verdict[i] = {} /\ Without(dir, i)
    <2> SUFFICES ASSUME NEW i \in Ids
                 PROVE  Absent(i) /\ verdict[i] = {} /\ Without(dir, i)
      OBVIOUS
    <2>1. Absent(i) /\ verdict[i] = {}
      BY <1>7 DEF Init, Absent
    <2>2. \A n \in Names : dir[n] # Nil => dir[n].ino # i
      BY <1>3, ValuesAssumption
    <2>3. Without(dir, i)
      BY <1>3, <2>2, ValueFacts DEF Without, DocLeaf, MetaLeaf, Artifact
    <2>4. QED
      BY <2>1, <2>3
  <1>10. Fresh
    BY <1>7, <1>9 DEF Fresh
  <1>11. Claims
    BY <1>7, <1>9 DEF Claims, EffectsAreDecided, said
  <1>12. HeldInv
    BY DEF Init, HeldInv
  <1>13. QED
    BY <1>1, <1>8, <1>10, <1>11, <1>12 DEF FullInv

\* Nothing depends on time.
LEMMA StuttersFull ==
  ASSUME FullInv, UNCHANGED vars
  PROVE  FullInv'
  <1>1. IndInv'
    BY NextHolds DEF FullInv
  <1>2. UNCHANGED <<dir, disk, hist, hdisk, lock, pc, mode, req, mem, out,
                    txns, faults, crashes, verdict, effects>>
    BY DEF vars
  <1>3. StoreInv'
    BY <1>2 DEF FullInv, StoreInv, Directories, Events
  <1>4. \A i : Absent(i)' <=> Absent(i)
    BY <1>2 DEF Absent
  <1>5. Fresh'
    BY <1>2, <1>4 DEF FullInv, Fresh
  <1>6. Claims'
    BY <1>2, <1>4 DEF FullInv, Claims, EffectsAreDecided, said, Denied, Confirmed
  <1>7. HeldInv'
    <2> SUFFICES ASSUME NEW q \in Procs, pc[q] # "idle"
                 PROVE  (ModeInv(q) /\ SyncInv(q) /\ PrepInv(q) /\ FinishInv(q) /\ OutInv(q))'
      BY <1>2 DEF FullInv, HeldInv
    <2>1. ModeInv(q) /\ SyncInv(q) /\ PrepInv(q) /\ FinishInv(q) /\ OutInv(q)
      BY DEF FullInv, HeldInv
    <2>2. ModeInv(q)'
      BY <1>2, <2>1 DEF ModeInv, Absent
    <2>3. SyncInv(q)' /\ PrepInv(q)'
      BY <1>2, <2>1 DEF SyncInv, PrepInv, staged
    <2>4. FinishInv(q)'
      BY <1>2, <2>1 DEF FinishInv, target, Before, After
    <2>5. OutInv(q)'
      BY <1>2, <2>1 DEF OutInv, Absent
    <2>6. QED
      BY <2>2, <2>3, <2>4, <2>5
  <1>8. QED
    BY <1>1, <1>3, <1>5, <1>6, <1>7 DEF FullInv

\* Every step of a process keeps it.
LEMMA StepsFull ==
  ASSUME FullInv, NEW p \in Procs, Step(p)
  PROVE  StepInv'
  <1>1. CASE \/ LockSync(p) \/ StageSync(p) \/ PlanSync(p) \/ DecisionSync(p) \/ PublishSync(p)
             \/ DeleteSync(p) \/ CleanupSync(p) \/ CompleteSync(p)
    BY <1>1, LockSyncKeeps, StageSyncKeeps, PlanSyncKeeps, DecisionSyncKeeps, PublishSyncKeeps,
       DeleteSyncKeeps, CleanupSyncKeeps, CompleteSyncKeeps
  <1>2. CASE \/ RecoverScan(p) \/ Check(p) \/ Recheck(p) \/ Validate(p) \/ Finish(p)
             \/ HistoryPrepare(p) \/ HistoryReady(p) \/ HistoryCommit(p) \/ HistoryBind(p)
             \/ HistoryAbort(p)
    BY <1>2, RecoverScanKeeps, CheckKeeps, RecheckKeeps, ValidateKeeps, FinishKeeps,
       HistoryPrepareKeeps, HistoryReadyKeeps, HistoryCommitKeeps, HistoryBindKeeps,
       HistoryAbortKeeps
  <1>3. CASE \/ StageCreate(p) \/ StageWrite(p) \/ PendingCreate(p) \/ PendingWrite(p)
             \/ PlanPublish(p) \/ Decide(p)
    BY <1>3, StageCreateKeeps, StageWriteKeeps, PendingCreateKeeps, PendingWriteKeeps,
       PlanPublishKeeps, DecideKeeps
  <1>4. CASE SwapLink(p) \/ Publish(p) \/ Delete(p) \/ CompletePublish(p) \/ Cleanup(p)
    BY <1>4, SwapLinkKeeps, PublishKeeps, DeleteKeeps, CompletePublishKeeps, CleanupKeeps
  <1>5. QED
    BY <1>1, <1>2, <1>3, <1>4 DEF Step

\* Every step keeps the invariant.
LEMMA NextFull == FullInv /\ [Next]_vars => FullInv'
  <1> SUFFICES ASSUME FullInv, [Next]_vars
               PROVE  FullInv'
    OBVIOUS
  <1>1. IndInv'
    BY NextHolds DEF FullInv
  <1>2. CASE UNCHANGED vars
    BY <1>2, StuttersFull
  <1>3. CASE PowerLoss
    BY <1>1, <1>3, PowerLossKeeps DEF FullInv, StepInv
  <1>4. ASSUME NEW p \in Procs, (\E c \in Change : Apply(p, c)) \/ Recover(p) \/ Step(p) \/ Crash(p)
        PROVE  FullInv'
    <2>1. StepInv'
      BY <1>4, ApplyKeeps, RecoverKeeps, StepsFull, CrashKeeps
    <2>2. QED
      BY <1>1, <2>1 DEF FullInv, StepInv
  <1>5. QED
    BY <1>2, <1>3, <1>4 DEF Next

\* The invariant holds throughout.
LEMMA FullInductive == Spec => []FullInv
  <1>1. Init => FullInv
    BY BeginsFull
  <1>2. QED
    BY <1>1, NextFull, PTL DEF Spec

-----------------------------------------------------------------------------
(* What callers are told. *)

\* Whatever dies, fails or is recovered later, what a caller was told about a
\* transaction stays true: Outcome.State of Apply and recover.
THEOREM OutcomesStayHonest == Spec => []OutcomesHonest
  <1>1. FullInv => OutcomesHonest
    <2> SUFFICES ASSUME FullInv
                 PROVE  OutcomesHonest
      OBVIOUS
    <2>1. StoreInv /\ Claims
      BY DEF FullInv
    <2>2. OutcomesAgree
      <3>1. hist \in hdisk
        BY <2>1 DEF StoreInv, Events
      <3>2. QED
        BY <2>1, <3>1 DEF Claims, Denied, Confirmed, Absent, OutcomesAgree
    <2>3. CommittedIsDurable
      BY <2>1 DEF Claims, Confirmed, CommittedIsDurable
    <2>4. QED
      BY <2>1, <2>2, <2>3 DEF Claims, OutcomesHonest
  <1>2. QED
    BY <1>1, FullInductive, PTL

-----------------------------------------------------------------------------
(* Recovery accepts what it finds. *)

\* A document is no plan.
LEMMA ObjectNotPlan ==
  \A o \in Object : o \notin Plan
  <1> SUFFICES ASSUME NEW o \in Object, o \in Plan
               PROVE  FALSE
    OBVIOUS
  <1>1. DOMAIN o = {"ino", "body"}
    BY DEF Object
  <1>2. DOMAIN o = {"id", "op", "src", "dst", "before", "stage"}
    BY DEF Plan
  <1>3. QED
    BY <1>1, <1>2

\* One leaf is one link, two leaves are two.
LEMMA LinkCounts ==
  ASSUME NEW d, NEW o
  PROVE  /\ \A a : {l \in Leaf : d[l] = o} = {a} => links(d, o) = 1
         /\ \A a, b : a # b /\ {l \in Leaf : d[l] = o} = {a, b} => links(d, o) = 2
  <1>1. \A a : Cardinality({a}) = 1 /\ IsFiniteSet({a})
    BY FS_Singleton
  <1>2. \A a, b : a # b => Cardinality({a, b}) = 2
    <2> SUFFICES ASSUME NEW a, NEW b, a # b
                 PROVE  Cardinality({a, b}) = 2
      OBVIOUS
    <2>1. Cardinality({a} \cup {b}) = Cardinality({a}) + 1
      BY <1>1, FS_AddElement
    <2>2. {a, b} = {a} \cup {b}
      OBVIOUS
    <2>3. QED
      BY <1>1, <2>1, <2>2
  <1> DEFINE S == {l \in Leaf : d[l] = o}
  <1>3. links(d, o) = Cardinality(S)
    BY DEF links
  <1> HIDE DEF S
  <1>4. \A a : S = {a} => links(d, o) = 1
    BY <1>1, <1>3
  <1>5. \A a, b : a # b /\ S = {a, b} => links(d, o) = 2
    <2> SUFFICES ASSUME NEW a, NEW b, a # b, S = {a, b}
                 PROVE  links(d, o) = 2
      OBVIOUS
    <2>1. Cardinality({a, b}) = 2
      BY <1>2
    <2>2. Cardinality(S) = Cardinality({a, b})
      OBVIOUS
    <2>3. QED
      BY <1>3, <2>1, <2>2
  <1>6. QED
    BY <1>4, <1>5 DEF S

\* The records of a directory are of one plan, completely written.
LEMMA RecordsSafe ==
  ASSUME NEW d, Shape(d)
  PROVE  recordSafe(d)
  <1>1. CASE d["complete"] # Nil
    <2>1. CompleteShape(d)
      BY <1>1 DEF Shape
    <2>2. record(d) = d["complete"] /\ decodes(record(d))
      BY <1>1, <2>1, ValueFacts DEF record, CompleteShape
    <2>3. QED
      BY <2>1, <2>2 DEF recordSafe, CompleteShape
  <1>2. CASE Active(d)
    <2>1. ActiveShape(d)
      BY <1>2 DEF Shape
    <2>2. record(d) = d["decision"] /\ decodes(record(d))
      BY <1>2, <2>1, ValueFacts DEF record, Active, ActiveShape
    <2>3. QED
      BY <1>2, <2>1, <2>2 DEF recordSafe, ActiveShape, Active
  <1>3. CASE Open(d)
    <2>1. OpenShape(d) /\ record(d) = d["plan"]
      BY <1>3 DEF Shape, Open, record
    <2>2. d["plan"] # Nil => decodes(d["plan"]) /\ d["pending"] = Nil
      BY <2>1, ValueFacts DEF OpenShape
    <2>3. QED
      BY <1>3, <2>1, <2>2 DEF recordSafe, Open
  <1>4. QED
    BY <1>1, <1>2, <1>3 DEF Active, Open

\* Undecided preparation can be aborted.
LEMMA AbortIsSafe ==
  ASSUME NEW d \in DirType, Shape(d), Open(d), NEW h, Owes(d, h)
  PROVE  abortSafe(d, h)
  <1>1. OpenShape(d) /\ d["decision"] = Nil /\ d["complete"] = Nil
    BY DEF Shape, Open
  <1>2. \A l \in artifacts(d) : l \in {"stage", "pending", "plan"}
    BY <1>1 DEF artifacts, Artifact, MetaLeaf, OpenShape
  <1>3. /\ \A l \in DocLeaf : d[l] \in Object \cup {Nil}
        /\ \A l \in MetaLeaf : d[l] \in Plan \cup Unwritten \cup {Nil}
    BY DEF DirType
  <1>4. {"stage", "pending", "plan"} \subseteq Leaf
    BY DEF Leaf, DocLeaf, MetaLeaf
  <1>5. \A o \in Object, m \in Plan \cup Unwritten : o # m
    BY ObjectNotPlan, ValueFacts
  <1>6. ASSUME NEW l \in artifacts(d)
        PROVE  {m \in Leaf : d[m] = d[l]} = {l}
    <2>1. d[l] # Nil /\ l \in {"stage", "pending", "plan"} /\ l \in Leaf
      BY <1>2, <1>4, <1>6 DEF artifacts
    <2>2. CASE l = "stage"
      <3>1. d["stage"] \in Object
        BY <1>3, <2>1, <2>2 DEF DocLeaf
      <3>2. \A m \in MetaLeaf : d[m] # d["stage"]
        BY <1>3, <1>5, <3>1, <2>1, <2>2
      <3>3. \A m \in Names \cup {"swap"} : d[m] # d["stage"]
        BY <1>1, <2>1, <2>2 DEF OpenShape
      <3>4. QED
        BY <2>1, <2>2, <3>2, <3>3 DEF Leaf, DocLeaf
    <2>3. CASE l \in {"pending", "plan"}
      <3>1. d[l] \in Plan \cup Unwritten
        BY <1>3, <2>1, <2>3 DEF MetaLeaf
      <3>2. \A m \in DocLeaf : d[m] # d[l]
        BY <1>3, <1>5, <2>1, <3>1
      <3>3. \A m \in MetaLeaf : m # l => d[m] = Nil
        BY <1>1, <2>1, <2>3 DEF OpenShape, MetaLeaf
      <3>4. QED
        BY <2>1, <3>2, <3>3 DEF Leaf
    <2>4. QED
      BY <2>1, <2>2, <2>3
  <1>7. \A l \in artifacts(d) : links(d, d[l]) = 1
    BY <1>6, LinkCounts
  <1>8. QED
    BY <1>1, <1>7 DEF abortSafe, OpenShape, Owes

\* A committed transaction can be retired.
LEMMA RetireIsSafe ==
  ASSUME NEW d \in DirType, Shape(d), d["complete"] # Nil
  PROVE  retireSafe(d)
  <1> DEFINE P == d["complete"]
  <1>1. CompleteShape(d) /\ Public(d) /\ record(d) = P /\ P \in Plan /\ Sound(P)
    BY DEF Shape, record, CompleteShape
  <1>2. ASSUME P.stage # Nil
        PROVE  /\ d[target(P)] = P.stage
               /\ {l \in Leaf : d[l] = P.stage} = {l \in {"stage", target(P)} : d[l] = P.stage}
    <2>1. d[target(P)] = P.stage /\ target(P) \in Names
      BY <1>1, <1>2 DEF CompleteShape, After, target, Sound, Plan
    <2>2. \A n \in Names : n # target(P) => d[n] # P.stage
      BY <1>1, <1>2, <2>1 DEF Public
    <2>3. P.stage \in Object
      BY <1>1, <1>2 DEF Plan
    <2>4. \A l \in MetaLeaf : d[l] # P.stage
      BY <1>1, <1>2, <2>3, ObjectNotPlan DEF CompleteShape, MetaLeaf
    <2>5. d["swap"] # P.stage
      BY <1>1, <1>2 DEF CompleteShape
    <2>6. "stage" \in Leaf /\ target(P) \in Leaf
      BY <2>1 DEF Leaf, DocLeaf
    <2>7. \A l \in Leaf : d[l] = P.stage => l \in {"stage", target(P)}
      BY <2>2, <2>4, <2>5 DEF Leaf, DocLeaf
    <2>8. QED
      BY <2>1, <2>6, <2>7
  <1>3. d["swap"] = Nil /\ d["stage"] \in {Nil, P.stage}
    BY <1>1 DEF CompleteShape
  <1> HIDE DEF P
  <1>4. QED
    BY <1>1, <1>2, <1>3 DEF retireSafe, links

\* A decision can be rolled forward.
LEMMA FinishIsSafe ==
  ASSUME NEW d \in DirType, Shape(d), Active(d)
  PROVE  finishSafe(d)
  <1> DEFINE P == d["decision"]
  <1>1. /\ ActiveShape(d) /\ Public(d) /\ P # Nil /\ d["complete"] = Nil /\ P \in Plan /\ Sound(P)
        /\ d["plan"] = P /\ d["pending"] = Nil /\ d["stage"] = P.stage
    BY DEF Shape, Active, ActiveShape
  <1>2. P.stage = Nil => d["swap"] = Nil
    BY <1>1 DEF ActiveShape, Sound
  <1>3. d["swap"] # Nil => P.op = "replace" /\ d["swap"] = P.stage
    BY <1>1 DEF ActiveShape
  <1>4. ASSUME P.stage # Nil
        PROVE  LET n == 1 + (IF d["swap"] # Nil THEN 1 ELSE 0)
                          + (IF d[target(P)] = P.stage THEN 1 ELSE 0)
               IN  links(d, P.stage) = n /\ n <= 2
    <2>1. target(P) \in Names /\ "stage" \notin Names /\ "swap" \notin Names
      BY <1>1, <1>4, LeafFacts DEF target, Sound, Plan, Artifact
    <2>2. \A n \in Names : n # target(P) => d[n] # P.stage
      BY <1>1, <1>4 DEF ActiveShape
    <2>3. P.stage \in Object
      BY <1>1, <1>4 DEF Plan
    <2>4. \A l \in MetaLeaf : d[l] # P.stage
      BY <1>1, <1>4, <2>3, ObjectNotPlan DEF MetaLeaf
    <2>5. "stage" \in Leaf /\ "swap" \in Leaf /\ target(P) \in Leaf
      BY <2>1 DEF Leaf, DocLeaf
    <2>6. \A l \in Leaf : d[l] = P.stage => l \in {"stage", "swap", target(P)}
      BY <2>2, <2>4 DEF Leaf, DocLeaf
    <2>7. d["stage"] = P.stage /\ (d["swap"] = P.stage <=> d["swap"] # Nil)
      BY <1>1, <1>3, <1>4
    <2>8. d["swap"] # Nil => d[target(P)] # P.stage
      BY <1>1, <1>3 DEF ActiveShape, target, Sound
    <2> HIDE DEF P
    <2>9. CASE d["swap"] # Nil
      <3>1. {l \in Leaf : d[l] = P.stage} = {"stage", "swap"}
        BY <2>5, <2>6, <2>7, <2>8, <2>9
      <3>2. links(d, P.stage) = 2
        BY <3>1, LinkCounts
      <3>3. QED
        BY <2>8, <2>9, <3>2
    <2>10. CASE d["swap"] = Nil /\ d[target(P)] = P.stage
      <3>1. {l \in Leaf : d[l] = P.stage} = {"stage", target(P)}
        BY <2>5, <2>6, <2>7, <2>10
      <3>2. links(d, P.stage) = 2
        BY <2>1, <3>1, LinkCounts
      <3>3. QED
        BY <2>10, <3>2
    <2>11. CASE d["swap"] = Nil /\ d[target(P)] # P.stage
      <3>1. {l \in Leaf : d[l] = P.stage} = {"stage"}
        BY <2>5, <2>6, <2>7, <2>11
      <3>2. links(d, P.stage) = 1
        BY <3>1, LinkCounts
      <3>3. QED
        BY <2>11, <3>2
    <2>12. QED
      BY <2>9, <2>10, <2>11
  <1>5. QED
    BY <1>1, <1>2, <1>3, <1>4 DEF finishSafe

\* As long as the write of the pending plan is never cut off behind its version
\* digit, recovery accepts every directory and history that a kill or a power
\* loss can leave: none of the ErrUnsafe refusals of recover is reached.
THEOREM RecoveryNeverRefuses ==
  ASSUME PendingCuts \subseteq {Short}
  PROVE  Spec => []RecoveryAccepts
  <1>1. FullInv => RecoveryAccepts
    <2> SUFFICES ASSUME FullInv, NEW d \in disk, NEW h \in hdisk
                 PROVE  classify(d, h) # "unsafe"
      BY DEF RecoveryAccepts
    <2>1. d \in DirType /\ Shape(d) /\ Owes(d, h)
      BY DEF FullInv, IndInv, TypeOK, StoreInv, Directories, Events
    <2>2. recordSafe(d) /\ pendingSafe(d)
      BY <2>1, RecordsSafe DEF Shape, pendingSafe
    <2>3. d["complete"] # Nil => retireSafe(d)
      BY <2>1, RetireIsSafe
    <2>4. Open(d) => abortSafe(d, h)
      BY <2>1, AbortIsSafe
    <2>5. Active(d) => finishSafe(d)
      BY <2>1, FinishIsSafe
    <2>6. QED
      BY <2>2, <2>3, <2>4, <2>5 DEF classify, Open, Active
  <1>2. QED
    BY <1>1, FullInductive, PTL

-----------------------------------------------------------------------------
(* The recovery flag. *)

\* Nobody is told that no recovery is needed.
Silent == \A i \in Ids : \A s : <<s, FALSE>> \in verdict'[i] => <<s, FALSE>> \in verdict[i]

\* Going on tells nothing, and a return or failure behind the lock asks for recovery.
LEMMA SilentParts ==
  ASSUME IndInv, NEW p \in Procs
  PROVE  /\ verdict' = verdict => Silent
         /\ \A label : Proceed(p, label) => Silent
         /\ \A s : Return(p, s, TRUE) => Silent
         /\ Fail(p) /\ pc[p] # "lockSync" => Silent
  <1>1. verdict' = verdict => Silent
    BY DEF Silent
  <1>2. \A label : Proceed(p, label) => Silent
    BY <1>1 DEF Proceed
  <1>3. ASSUME NEW s, Return(p, s, TRUE)
        PROVE  Silent
    <2>1. \A i \in Ids : verdict'[i] \in {verdict[i], verdict[i] \cup {<<s, TRUE>>}}
      BY <1>3 DEF Return
    <2>2. \A t : <<t, FALSE>> # <<s, TRUE>>
      OBVIOUS
    <2>3. ASSUME NEW i \in Ids, NEW t, <<t, FALSE>> \in verdict'[i]
          PROVE  <<t, FALSE>> \in verdict[i]
      <3> DEFINE a == <<t, FALSE>>
                 b == <<s, TRUE>>
      <3>1. a # b /\ a \in verdict'[i] /\ verdict'[i] \in {verdict[i], verdict[i] \cup {b}}
        BY <2>1, <2>2, <2>3
      <3> HIDE DEF a, b
      <3>2. a \in verdict[i]
        BY <3>1
      <3>3. QED
        BY <3>2 DEF a
    <2>4. QED
      BY <2>3 DEF Silent
  <1>4. ASSUME Fail(p), pc[p] # "lockSync"
        PROVE  Silent
    <2>1. CASE pc[p] \in Preparing
      BY <1>1, <1>4, <2>1 DEF Fail
    <2>2. CASE pc[p] \notin Preparing
      <3>1. (pc[p] # "lockSync") = TRUE
        BY <1>4
      <3>2. PICK s : Return(p, s, TRUE)
        BY <1>4, <2>2, <3>1 DEF Fail
      <3>3. QED
        BY <1>3, <3>2
    <2>3. QED
      BY <2>1, <2>2
  <1>5. QED
    BY <1>1, <1>2, <1>3, <1>4

\* The only step behind the lock that releases a caller from recovery.
LEMMA StepIsSilent ==
  ASSUME FullInv, NEW p \in Procs, Step(p), pc[p] # "lockSync"
  PROVE  Silent \/ (artifacts(dir') = {} /\ hist'.wit = [j \in Ids |-> "none"])
  <1> USE DEF FullInv
  <1>1. CASE \/ StageSync(p) \/ PlanSync(p) \/ DecisionSync(p) \/ PublishSync(p)
             \/ DeleteSync(p) \/ CleanupSync(p)
    BY <1>1, SilentParts
       DEF StageSync, PlanSync, DecisionSync, PublishSync, DeleteSync, CleanupSync, SyncDir
  <1>2. CASE \/ StageCreate(p) \/ StageWrite(p) \/ PendingCreate(p) \/ PendingWrite(p)
             \/ PlanPublish(p) \/ Decide(p) \/ SwapLink(p) \/ Publish(p) \/ Delete(p)
             \/ CompletePublish(p) \/ Cleanup(p)
    <2>1. \A d, label : Syscall(p, d, label) => Silent
      BY SilentParts DEF Syscall
    <2>2. QED
      BY <1>2, <2>1, SilentParts
         DEF StageCreate, StageWrite, PendingCreate, PendingWrite, PlanPublish, Decide, SwapLink,
             Publish, Delete, CompletePublish, Cleanup
  <1>3. CASE \/ Check(p) \/ HistoryPrepare(p) \/ HistoryReady(p) \/ Recheck(p) \/ Validate(p)
             \/ Finish(p) \/ HistoryCommit(p) \/ HistoryBind(p) \/ RecoverScan(p)
             \/ CompleteSync(p)
    BY <1>3, SilentParts
       DEF Check, HistoryPrepare, HistoryReady, Recheck, Validate, Finish, HistoryCommit,
           HistoryBind, HistoryCall, RecoverScan, CompleteSync
  <1>4. CASE HistoryAbort(p)
    <2>1. pc[p] = "historyAbort" /\ dir' = dir
      BY <1>4 DEF HistoryAbort, At
    <2>2. Holder(p) /\ hist \in HistType
      BY <2>1, Acting
    <2>3. artifacts(dir') = {}
      BY <2>1, <2>2 DEF Holder
    <2>4. CASE hist' = [hist EXCEPT !.wit = [i \in Ids |-> "none"]]
      BY <2>2, <2>3, <2>4 DEF HistType
    <2>5. CASE Fail(p)
      BY <2>1, <2>5, SilentParts
    <2>6. QED
      BY <1>4, <2>4, <2>5 DEF HistoryAbort
  <1>5. CASE LockSync(p)
    BY <1>5 DEF LockSync, At
  <1>6. QED
    BY <1>1, <1>2, <1>3, <1>4, <1>5 DEF Step

\* A call that held the lock past its synchronization and returns without
\* RecoveryRequired leaves no artifact and no witness behind: recover and
\* historyAbortOrphans were through.
THEOREM RecoveryFlagIsHonest == Spec => RecoveryFlagHonest
  <1> DEFINE A == \A i \in Ids :
                    /\ \E s \in States : <<s, FALSE>> \in verdict'[i] \ verdict[i]
                    /\ \E p \in Procs : lock = p /\ pc[p] # "lockSync" /\ pc'[p] = "idle"
                    => artifacts(dir') = {} /\ hist'.wit = [j \in Ids |-> "none"]
  <1>1. FullInv /\ [Next]_vars => [A]_vars
    <2> SUFFICES ASSUME FullInv, Next,
                        NEW i \in Ids, NEW s \in States, <<s, FALSE>> \in verdict'[i] \ verdict[i],
                        NEW p \in Procs, lock = p, pc[p] # "lockSync", pc'[p] = "idle"
                 PROVE  artifacts(dir') = {} /\ hist'.wit = [j \in Ids |-> "none"]
      OBVIOUS
    <2>1. ~Silent
      BY DEF Silent
    <2>2. pc[p] # "idle" /\ lock # Nil
      BY ConstantsAssumption DEF FullInv, HeldInv
    <2>3. ASSUME NEW q \in Procs, Step(q)
          PROVE  artifacts(dir') = {} /\ hist'.wit = [j \in Ids |-> "none"]
      <3>1. lock = q
        BY <2>3 DEF Step, LockSync, RecoverScan, Check, StageCreate, StageWrite, StageSync,
                    HistoryPrepare, HistoryReady, PendingCreate, PendingWrite, PlanPublish,
                    PlanSync, Recheck, Validate, Decide, DecisionSync, Finish, SwapLink, Publish,
                    PublishSync, Delete, DeleteSync, HistoryCommit, HistoryBind, CompletePublish,
                    CompleteSync, Cleanup, CleanupSync, HistoryAbort, At
      <3>2. QED
        BY <2>1, <2>3, <3>1, StepIsSilent
    <2>4. ASSUME NEW q \in Procs, NEW c \in Change, Apply(q, c)
          PROVE  FALSE
      BY <2>2, <2>4 DEF Apply
    <2>5. ASSUME NEW q \in Procs, Recover(q) \/ Crash(q)
          PROVE  FALSE
      BY <2>1, <2>5 DEF Recover, Crash, Silent
    <2>6. CASE PowerLoss
      BY <2>1, <2>6 DEF PowerLoss, Silent
    <2>7. QED
      BY <2>3, <2>4, <2>5, <2>6 DEF Next
  <1>2. QED
    BY <1>1, FullInductive, PTL DEF Spec, RecoveryFlagHonest

-----------------------------------------------------------------------------
(* The engine keeps the promise of ProfileStore. *)

\* The documents a directory shows, and what its decision owes.
Shown(d) == [n \in Names |-> IF d[n] = Nil THEN Nil ELSE d[n].body]

Owed(P) == [id |-> P.id, op |-> P.op, src |-> P.src, dst |-> P.dst,
            expect |-> IF P.before = Nil THEN Nil ELSE P.before.body,
            data   |-> IF P.stage = Nil THEN Nil ELSE P.stage.body]

\* A decision whose receipt a power loss may still take back.
Owing == dir["decision"] # Nil /\ \E d \in disk : d["complete"] = Nil

StoreStep == [Store!StoreNext]_(Store!svars)

\* The promise, read from the directory and the history.
LEMMA Promise ==
  /\ docsNow = Shown(dir) /\ docsNow' = Shown(dir')
  /\ Owing => owedNow = Owed(dir["decision"])
  /\ ~Owing => owedNow = Nil
  /\ Owing' => owedNow' = Owed(dir'["decision"])
  /\ ~Owing' => owedNow' = Nil
  /\ owedNow = Nil => doneNow = hist.events
  /\ owedNow # Nil => doneNow = hist.events \ {owedNow.id}
  /\ owedNow' = Nil => doneNow' = hist'.events
  /\ owedNow' # Nil => doneNow' = hist'.events \ {owedNow'.id}
  <1>1. docsNow = Shown(dir) /\ docsNow' = Shown(dir')
    BY DEF docsNow, Shown
  <1>2. /\ Owing => owedNow = Owed(dir["decision"])
        /\ ~Owing => owedNow = Nil
    BY DEF Owing, owedNow, Owed
  <1>3. /\ Owing' => owedNow' = Owed(dir'["decision"])
        /\ ~Owing' => owedNow' = Nil
    BY DEF Owing, owedNow, Owed
  <1>4. /\ owedNow = Nil => doneNow = hist.events
        /\ owedNow # Nil => doneNow = hist.events \ {owedNow.id}
        /\ owedNow' = Nil => doneNow' = hist'.events
        /\ owedNow' # Nil => doneNow' = hist'.events \ {owedNow'.id}
    BY DEF doneNow
  <1>5. QED
    BY <1>1, <1>2, <1>3, <1>4

\* What a plan owes is a transaction.
LEMMA OwedIsTransaction ==
  ASSUME NEW P \in Plan, Sound(P)
  PROVE  Owed(P) \in Store!Transaction /\ Owed(P) # Nil /\ Owed(P).id = P.id
  <1>1. /\ (IF P.before = Nil THEN Nil ELSE P.before.body) \in Docs \cup {Nil}
        /\ (IF P.stage = Nil THEN Nil ELSE P.stage.body) \in Docs \cup {Nil}
    BY DEF Sound
  <1>2. /\ P.id \in Ids /\ P.op \in {"create", "replace", "delete", "clone", "rename"}
        /\ P.src \in Names \cup {Nil} /\ P.dst \in Names \cup {Nil}
    BY DEF Plan
  <1>3. Owed(P) \in Store!Transaction
    BY <1>1, <1>2 DEF Store!Transaction, Owed
  <1>4. QED
    BY <1>3, TransactionAssumption DEF Owed

\* The views of a transaction are what its plan leaves.
LEMMA PlanViews ==
  ASSUME NEW P \in Plan, Sound(P), NEW d,
         \A n \in Names \ {P.src, P.dst} : d[n] = dir[n]
  PROVE  /\ Before(d, P) => Shown(d) = Store!Initial(Owed(P))
         /\ After(d, P) => Shown(d) = Store!Final(Owed(P))
         /\ Before(d, P) \/ Both(d, P) \/ After(d, P) => Shown(d) \in Store!Views(Owed(P))
  <1>1. /\ P.src = Nil <=> P.op = "create"
        /\ P.dst = Nil <=> P.op \in {"replace", "delete"}
        /\ P.stage = Nil <=> P.op = "delete"
        /\ P.before = Nil <=> P.op = "create"
        /\ P.src # P.dst /\ Nil \notin Names
        /\ P.op \in {"create", "replace", "delete", "clone", "rename"}
        /\ P.src \in Names \cup {Nil} /\ P.dst \in Names \cup {Nil}
    BY LeafFacts DEF Sound, Plan
  <1> DEFINE t == Owed(P)
             b == IF P.before = Nil THEN Nil ELSE P.before.body
             s == IF P.stage = Nil THEN Nil ELSE P.stage.body
  <1>2. t.src = P.src /\ t.dst = P.dst /\ t.op = P.op /\ t.expect = b /\ t.data = s
    BY DEF Owed
  <1>3. \A x, y : Store!Show(t, x, y) = [n \in Names |-> IF n = P.src THEN x ELSE IF n = P.dst THEN y
                                                         ELSE docsNow[n]]
    BY <1>2 DEF Store!Show
  <1>4. \A n \in Names \ {P.src, P.dst} : docsNow[n] = Shown(d)[n]
    BY DEF docsNow, Shown
  <1>5. \A n \in Names : Shown(d)[n] = IF d[n] = Nil THEN Nil ELSE d[n].body
    BY DEF Shown
  <1>6. Shown(d) = [n \in Names |-> Shown(d)[n]]
    BY DEF Shown
  <1> HIDE DEF t
  <1>7. \A x, y : /\ P.src # Nil => Shown(d)[P.src] = x
                  /\ P.dst # Nil => Shown(d)[P.dst] = y
                  => Shown(d) = Store!Show(t, x, y)
    BY <1>1, <1>3, <1>4, <1>6
  <1>8. Before(d, P) => Shown(d) = Store!Show(t, b, Nil)
    BY <1>1, <1>5, <1>7 DEF Before
  <1>9. Both(d, P) => P.op = "rename" /\ Shown(d) = Store!Show(t, b, s)
    BY <1>1, <1>5, <1>7 DEF Both
  <1>10. After(d, P) => Shown(d) = Store!Final(t)
    <2> SUFFICES ASSUME After(d, P)
                 PROVE  Shown(d) = Store!Final(t)
      OBVIOUS
    <2>1. CASE P.op \in {"create", "clone"}
      <3>1. Shown(d) = Store!Show(t, b, s)
        BY <1>1, <1>5, <1>7, <2>1 DEF After, target
      <3>2. QED
        BY <1>2, <2>1, <3>1 DEF Store!Final
    <2>2. CASE P.op = "replace"
      <3>1. Shown(d) = Store!Show(t, s, Nil)
        BY <1>1, <1>5, <1>7, <2>2 DEF After, target
      <3>2. QED
        BY <1>2, <2>2, <3>1 DEF Store!Final
    <2>3. CASE P.op = "delete"
      <3>1. Shown(d) = Store!Show(t, Nil, Nil)
        BY <1>1, <1>5, <1>7, <2>3 DEF After
      <3>2. QED
        BY <1>2, <2>3, <3>1 DEF Store!Final
    <2>4. CASE P.op = "rename"
      <3>1. Shown(d) = Store!Show(t, Nil, s)
        BY <1>1, <1>5, <1>7, <2>4 DEF After, target
      <3>2. QED
        BY <1>2, <2>4, <3>1 DEF Store!Final
    <2>5. QED
      BY <1>1, <2>1, <2>2, <2>3, <2>4
  <1>11. QED
    BY <1>2, <1>8, <1>9, <1>10 DEF Store!Initial, Store!Views, t

\* Each step of the promise, from what the directories say.
LEMMA MapStutter ==
  ASSUME Same(dir, dir'), owedNow' = owedNow, hist'.events = hist.events
  PROVE  StoreStep
  <1>1. docsNow' = docsNow
    BY Promise DEF Same, Shown
  <1>2. doneNow' = doneNow
    BY Promise
  <1>3. QED
    BY <1>1, <1>2 DEF StoreStep, Store!svars

\* Rolling forward, or back by a power loss: the documents show a view of the decision.
LEMMA MapRoll ==
  ASSUME NEW P \in Plan, Sound(P), Owing, Owing', dir["decision"] = P, dir'["decision"] = P,
         \A n \in Names \ {P.src, P.dst} : dir'[n] = dir[n],
         Before(dir', P) \/ Both(dir', P) \/ After(dir', P),
         hist'.events \ {P.id} = hist.events \ {P.id}
  PROVE  StoreStep
  <1>1. owedNow = Owed(P) /\ owedNow' = Owed(P) /\ owedNow # Nil /\ owedNow.id = P.id
    BY Promise, OwedIsTransaction
  <1>2. docsNow' \in Store!Views(owedNow)
    BY <1>1, Promise, PlanViews
  <1>3. doneNow' = doneNow
    BY <1>1, Promise
  <1>4. QED
    BY <1>1, <1>2, <1>3 DEF StoreStep, Store!StoreNext, Store!Roll

\* A decision that was not durable is forgotten before any effect.
LEMMA MapForget ==
  ASSUME NEW P \in Plan, Sound(P), Owing, ~Owing', dir["decision"] = P, Before(dir, P),
         Same(dir, dir'), hist'.events = hist.events, P.id \notin hist.events
  PROVE  StoreStep
  <1>1. owedNow = Owed(P) /\ owedNow' = Nil /\ owedNow # Nil /\ owedNow.id = P.id
    BY Promise, OwedIsTransaction
  <1>2. docsNow = Store!Initial(owedNow)
    BY <1>1, Promise, PlanViews
  <1>3. docsNow' = docsNow
    BY Promise DEF Same, Shown
  <1>4. doneNow' = doneNow
    BY <1>1, Promise
  <1>5. QED
    BY <1>1, <1>2, <1>3, <1>4 DEF StoreStep, Store!StoreNext, Store!Forget

\* A decision appears while its conditions hold.
LEMMA MapDecide ==
  ASSUME NEW P \in Plan, Sound(P), ~Owing, Owing', dir'["decision"] = P, Before(dir', P),
         Same(dir, dir'), hist'.events = hist.events, P.id \notin hist.events
  PROVE  StoreStep
  <1>1. owedNow = Nil /\ owedNow' = Owed(P) /\ owedNow' # Nil /\ owedNow'.id = P.id
        /\ owedNow' \in Store!Transaction
    BY Promise, OwedIsTransaction
  <1>2. docsNow' = docsNow
    BY Promise DEF Same, Shown
  <1>3. docsNow = Store!Initial(owedNow')
    <2>1. \A n \in Names \ {P.src, P.dst} : dir'[n] = dir[n]
      BY DEF Same
    <2>2. Shown(dir') = Store!Initial(Owed(P))
      BY <2>1, PlanViews
    <2>3. QED
      BY <1>1, <1>2, <2>2, Promise
  <1>4. doneNow = hist.events /\ doneNow' = doneNow
    BY <1>1, Promise
  <1>5. QED
    BY <1>1, <1>2, <1>3, <1>4 DEF StoreStep, Store!StoreNext, Store!Decide

\* The receipt cannot be taken back any more: the transaction is done.
LEMMA MapCommit ==
  ASSUME NEW P \in Plan, Sound(P), Owing, ~Owing', dir["decision"] = P,
         After(dir, P) \/ After(dir', P),
         Same(dir, dir'), hist'.events = hist.events, P.id \in hist.events
  PROVE  StoreStep
  <1>1. owedNow = Owed(P) /\ owedNow' = Nil /\ owedNow # Nil /\ owedNow.id = P.id
    BY Promise, OwedIsTransaction
  <1>2. docsNow' = docsNow /\ Shown(dir) = Shown(dir')
    BY Promise DEF Same, Shown
  <1>3. docsNow = Store!Final(owedNow)
    <2>1. \A n \in Names \ {P.src, P.dst} : dir'[n] = dir[n] /\ dir[n] = dir[n]
      BY DEF Same
    <2>2. Shown(dir) = Store!Final(Owed(P))
      BY <1>2, <2>1, PlanViews
    <2>3. QED
      BY <1>1, <2>2, Promise
  <1>4. doneNow' = doneNow \cup {P.id}
    BY <1>1, Promise
  <1>5. QED
    BY <1>1, <1>2, <1>3, <1>4 DEF StoreStep, Store!StoreNext, Store!Commit

\* What a decision or a receipt says about its directory.
LEMMA Decided ==
  ASSUME NEW d, Shape(d)
  PROVE  /\ Active(d) => /\ d["decision"] \in Plan /\ Sound(d["decision"]) /\ d["decision"] # Nil
                         /\ planOf(d) = d["decision"]
                         /\ \/ Before(d, d["decision"]) \/ Both(d, d["decision"])
                            \/ After(d, d["decision"])
         /\ d["complete"] # Nil => /\ d["complete"] \in Plan /\ Sound(d["complete"])
                                   /\ d["decision"] \in {Nil, d["complete"]}
                                   /\ After(d, d["complete"])
  BY ValueFacts DEF Shape, Active, ActiveShape, CompleteShape, planOf, record

\* A power loss: the documents go back to a view of the decision, which may be
\* lost, or found committed.
LEMMA PowerLossMaps ==
  ASSUME FullInv, PowerLoss
  PROVE  StoreStep
  <1> DEFINE P == dir["decision"]
             Q == dir'["decision"]
             C == dir["complete"]
  <1>1. /\ dir' \in disk /\ disk' = {dir'} /\ hist' \in hdisk /\ dir \in disk /\ hist \in hdisk
        /\ StoreInv
    BY DEF PowerLoss, FullInv, StoreInv, Directories, Events
  <1>2. /\ Shape(dir) /\ Shape(dir') /\ Pair(dir, dir') /\ Pair(dir', dir)
        /\ Owes(dir, hist) /\ Owes(dir', hist) /\ Owes(dir', hist') /\ Owes(dir, hist')
    BY <1>1 DEF StoreInv, Directories, Events
  <1>3. hist.events \subseteq Ids /\ hist'.events \subseteq Ids
    BY <1>1 DEF FullInv, IndInv, TypeOK, HistType
  <1>4. ~Active(dir) \/ ~Active(dir') => hist'.events = hist.events
    BY <1>1, <1>3 DEF StoreInv, Events
  <1>5. Owing' <=> Active(dir')
    BY <1>1 DEF Owing, Active
  <1>6. ~Active(dir) \/ ~Active(dir') => Same(dir, dir')
    BY <1>2 DEF Pair
  <1>7. Active(dir) => Owing
    BY <1>1 DEF Owing, Active
  <1>8. CASE Active(dir) /\ Active(dir')
    <2>1. P = Q /\ \A n \in Names \ {P.src, P.dst} : dir'[n] = dir[n]
      BY <1>2, <1>8 DEF Pair
    <2>2. hist'.events \ {P.id} = hist.events \ {P.id}
      BY <1>1, <1>3 DEF StoreInv, Events
    <2>3. P \in Plan /\ Sound(P) /\ (Before(dir', P) \/ Both(dir', P) \/ After(dir', P))
      BY <1>2, <1>8, <2>1, Decided
    <2>4. QED
      BY <1>5, <1>7, <1>8, <2>1, <2>2, <2>3, MapRoll
  <1>9. CASE Active(dir) /\ Open(dir')
    <2>1. ~Active(dir')
      BY <1>9 DEF Active, Open
    <2>2. P \in Plan /\ Sound(P) /\ Before(dir, P)
      BY <1>2, <1>9, Decided DEF Pair
    <2>3. P.id \notin hist.events
      BY <1>1, <1>9 DEF StoreInv, Events
    <2>4. QED
      BY <1>4, <1>5, <1>6, <1>7, <1>9, <2>1, <2>2, <2>3, MapForget
  <1>10. CASE Active(dir) /\ dir'["complete"] # Nil
    <2>1. ~Active(dir')
      BY <1>10 DEF Active
    <2>2. dir'["complete"] = P
      BY <1>2, <1>10 DEF Pair
    <2>3. P \in Plan /\ Sound(P) /\ After(dir', P)
      BY <1>2, <1>10, <2>2, Decided
    <2>4. P.id \in hist.events
      BY <1>2, <1>10, <2>2 DEF Owes
    <2>5. QED
      BY <1>4, <1>5, <1>6, <1>7, <1>10, <2>1, <2>3, <2>4, MapCommit
  <1>11. CASE Open(dir) /\ Active(dir')
    <2>1. ~Active(dir) /\ ~Owing
      BY <1>11 DEF Active, Open, Owing
    <2>2. Q \in Plan /\ Sound(Q) /\ Before(dir', Q)
      BY <1>2, <1>11, Decided DEF Pair
    <2>3. Q.id \notin hist.events
      BY <1>1, <1>11 DEF StoreInv, Events
    <2>4. QED
      BY <1>4, <1>5, <1>6, <1>11, <2>1, <2>2, <2>3, MapDecide
  <1>12. CASE Open(dir) /\ ~Active(dir')
    <2>1. ~Active(dir) /\ ~Owing
      BY <1>12 DEF Active, Open, Owing
    <2>2. owedNow' = owedNow
      BY <1>5, <1>12, <2>1, Promise
    <2>3. QED
      BY <1>4, <1>6, <2>1, <2>2, MapStutter
  <1>13. CASE C # Nil /\ Active(dir')
    <2>1. ~Active(dir) /\ C = Q /\ P = Q
      BY <1>2, <1>13 DEF Active, Pair
    <2>2. Owing
      BY <1>1, <1>13, <2>1 DEF Owing, Active
    <2>3. owedNow' = owedNow
      BY <1>5, <1>13, <2>1, <2>2, Promise
    <2>4. QED
      BY <1>4, <1>6, <2>1, <2>3, MapStutter
  <1>14. CASE C # Nil /\ ~Active(dir')
    <2>1. CASE Owing
      <3>1. P = C /\ P \in Plan /\ Sound(P) /\ After(dir, P)
        BY <1>2, <1>14, <2>1, Decided DEF Owing
      <3>2. P.id \in hist.events
        BY <1>2, <1>14, <3>1 DEF Owes
      <3>3. QED
        BY <1>4, <1>5, <1>6, <1>14, <2>1, <3>1, <3>2, MapCommit
    <2>2. CASE ~Owing
      <3>1. owedNow' = owedNow
        BY <1>5, <1>14, <2>2, Promise
      <3>2. QED
        BY <1>4, <1>6, <1>14, <3>1, MapStutter
    <2>3. QED
      BY <2>1, <2>2
  <1>15. (Active(dir) \/ Open(dir) \/ C # Nil) /\ (Active(dir') \/ Open(dir') \/ dir'["complete"] # Nil)
    BY DEF Active, Open
  <1>16. QED
    BY <1>8, <1>9, <1>10, <1>11, <1>12, <1>13, <1>14, <1>15

\* A synchronization, and an update of the history.
LEMMA SyncMaps ==
  ASSUME FullInv, dir' = dir, disk' \in {disk, {dir}}, hist' = hist
  PROVE  StoreStep
  <1> DEFINE P == dir["decision"]
             C == dir["complete"]
  <1>1. /\ dir \in disk /\ hist \in hdisk /\ Shape(dir) /\ Owes(dir, hist)
        /\ Same(dir, dir')
    BY DEF FullInv, StoreInv, Directories, Events, Same
  <1>2. CASE C = Nil \/ disk' = disk \/ ~Owing
    <2>1. Owing' <=> Owing
      BY <1>1, <1>2 DEF Owing
    <2>2. owedNow' = owedNow
      BY <2>1, Promise
    <2>3. QED
      BY <1>1, <2>2, MapStutter
  <1>3. CASE C # Nil /\ disk' = {dir} /\ Owing
    <2>1. ~Owing'
      BY <1>3 DEF Owing
    <2>2. P = C /\ P \in Plan /\ Sound(P) /\ After(dir, P)
      BY <1>1, <1>3, Decided DEF Owing
    <2>3. P.id \in hist.events
      BY <1>1, <1>3, <2>2 DEF Owes
    <2>4. QED
      BY <1>1, <1>3, <2>1, <2>2, <2>3, MapCommit
  <1>4. QED
    BY <1>2, <1>3

\* An update of the history adds at most the event of what is owed.
LEMMA HistoryMaps ==
  ASSUME FullInv, dir' = dir, disk' = disk,
         \/ hist'.events = hist.events
         \/ Active(dir) /\ hist'.events = hist.events \cup {dir["decision"].id}
  PROVE  StoreStep
  <1>1. owedNow' = owedNow
    BY DEF owedNow
  <1>2. CASE hist'.events = hist.events
    BY <1>1, <1>2, MapStutter DEF Same
  <1>3. CASE Active(dir) /\ hist'.events = hist.events \cup {dir["decision"].id}
    <2>1. Owing /\ Owing' /\ Shape(dir)
      BY <1>3 DEF Active, Owing, FullInv, StoreInv, Directories
    <2>2. owedNow # Nil /\ owedNow.id = dir["decision"].id
      BY <1>3, <2>1, Decided, Promise, OwedIsTransaction
    <2>3. doneNow' = doneNow
      BY <1>1, <1>3, <2>2, Promise
    <2>4. docsNow' = docsNow
      BY DEF docsNow
    <2>5. QED
      BY <1>1, <2>3, <2>4 DEF StoreStep, Store!svars
  <1>4. QED
    BY <1>2, <1>3

\* A system call: it decides, rolls forward, or retires what is decided.
LEMMA SyscallMaps ==
  ASSUME FullInv, FullInv', disk' = disk \cup {dir'}, hist' = hist,
         dir["complete"] # Nil => disk = {dir} /\ ~Active(dir'),
         Open(dir) => dir'["complete"] = Nil
  PROVE  StoreStep
  <1> DEFINE P == dir["decision"]
             Q == dir'["decision"]
  <1>1. /\ dir \in disk' /\ dir' \in disk' /\ hist' \in hdisk' /\ StoreInv' /\ dir \in disk
    BY DEF FullInv, StoreInv, Directories, Events
  <1>2. /\ Shape(dir) /\ Shape(dir') /\ Pair(dir, dir') /\ Pair(dir', dir)
        /\ Owes(dir', hist)
    BY <1>1 DEF StoreInv, Directories, Events
  <1>3. \A d, e \in disk' : Active(d) /\ Open(e) => d["decision"].id \notin hist.events
    BY <1>1 DEF StoreInv, Events
  <1>4. ~Active(dir) \/ ~Active(dir') => Same(dir, dir')
    BY <1>2 DEF Pair
  <1>5. /\ Active(dir) => Owing
        /\ Active(dir') => Owing'
    BY <1>1 DEF Owing, Active
  <1>6. CASE Active(dir) /\ Active(dir')
    <2>1. P = Q /\ \A n \in Names \ {P.src, P.dst} : dir'[n] = dir[n]
      BY <1>2, <1>6 DEF Pair
    <2>2. P \in Plan /\ Sound(P) /\ (Before(dir', P) \/ Both(dir', P) \/ After(dir', P))
      BY <1>2, <1>6, <2>1, Decided
    <2>3. QED
      BY <1>5, <1>6, <2>1, <2>2, MapRoll
  <1>7. CASE Active(dir) /\ Open(dir')
    <2>1. ~Active(dir') /\ ~Owing'
      BY <1>7 DEF Active, Open, Owing
    <2>2. P \in Plan /\ Sound(P) /\ Before(dir, P)
      BY <1>2, <1>7, Decided DEF Pair
    <2>3. QED
      BY <1>1, <1>3, <1>4, <1>5, <1>7, <2>1, <2>2, MapForget
  <1>8. CASE Active(dir) /\ dir'["complete"] # Nil
    <2>1. ~Active(dir') /\ dir'["complete"] = P /\ Q = P
      BY <1>2, <1>8 DEF Active, Pair
    <2>2. Owing /\ Owing'
      BY <1>1, <1>8, <2>1 DEF Owing, Active
    <2>3. owedNow' = owedNow
      BY <2>1, <2>2, Promise
    <2>4. QED
      BY <1>4, <2>1, <2>3, MapStutter
  <1>9. CASE Open(dir) /\ Active(dir')
    <2>1. ~Active(dir) /\ ~Owing
      BY <1>9 DEF Active, Open, Owing
    <2>2. Q \in Plan /\ Sound(Q) /\ Before(dir', Q)
      BY <1>2, <1>9, Decided DEF Pair
    <2>3. QED
      BY <1>1, <1>3, <1>4, <1>5, <1>9, <2>1, <2>2, MapDecide
  <1>10. CASE Open(dir) /\ ~Active(dir')
    <2>1. ~Active(dir) /\ ~Owing /\ ~Owing'
      BY <1>10 DEF Active, Open, Owing
    <2>2. QED
      BY <1>4, <2>1, Promise, MapStutter
  <1>11. CASE dir["complete"] # Nil
    <2>1. ~Active(dir) /\ ~Owing /\ ~Owing'
      BY <1>11 DEF Active, Owing
    <2>2. QED
      BY <1>4, <2>1, Promise, MapStutter
  <1>12. /\ Active(dir) \/ Open(dir) \/ dir["complete"] # Nil
         /\ Active(dir') \/ Open(dir') \/ dir'["complete"] # Nil
    BY DEF Active, Open
  <1>13. QED
    BY <1>6, <1>7, <1>8, <1>9, <1>10, <1>11, <1>12

\* The steps of the lock holder that synchronize the directory or leave it alone.
LEMMA QuietSteps ==
  ASSUME FullInv, NEW p \in Procs,
         \/ LockSync(p) \/ StageSync(p) \/ PlanSync(p) \/ DecisionSync(p) \/ PublishSync(p)
         \/ DeleteSync(p) \/ CleanupSync(p) \/ CompleteSync(p)
         \/ RecoverScan(p) \/ Check(p) \/ Recheck(p) \/ Validate(p) \/ Finish(p)
  PROVE  StoreStep
  <1>1. ASSUME NEW label, SyncDir(p, label), UNCHANGED hist
        PROVE  StoreStep
    <2>1. dir' = dir /\ disk' \in {disk, {dir}}
      BY <1>1 DEF SyncDir
    <2>2. QED
      BY <1>1, <2>1, SyncMaps
  <1>2. ASSUME UNCHANGED <<dir, disk, hist>>
        PROVE  StoreStep
    BY <1>2, SyncMaps
  <1>3. CASE \/ LockSync(p) \/ StageSync(p) \/ PlanSync(p) \/ DecisionSync(p) \/ PublishSync(p)
             \/ DeleteSync(p) \/ CleanupSync(p)
    BY <1>1, <1>3 DEF LockSync, StageSync, PlanSync, DecisionSync, PublishSync, DeleteSync, CleanupSync
  <1>4. CASE CompleteSync(p)
    <2>1. dir' = dir /\ disk' \in {disk, {dir}} /\ hist' = hist
      BY <1>4 DEF CompleteSync
    <2>2. QED
      BY <2>1, SyncMaps
  <1>5. CASE RecoverScan(p) \/ Check(p) \/ Recheck(p) \/ Validate(p) \/ Finish(p)
    <2>1. UNCHANGED <<dir, disk, hist>>
      BY <1>5 DEF RecoverScan, Check, Recheck, Validate, Finish
    <2>2. QED
      BY <1>2, <2>1
  <1>6. QED
    BY <1>3, <1>4, <1>5

\* The updates of the history: an event is published for the decision only.
LEMMA HistorySteps ==
  ASSUME FullInv, NEW p \in Procs,
         \/ HistoryPrepare(p) \/ HistoryReady(p) \/ HistoryCommit(p) \/ HistoryBind(p)
         \/ HistoryAbort(p)
  PROVE  StoreStep
  <1>1. dir' = dir /\ disk' = disk
    BY DEF HistoryPrepare, HistoryReady, HistoryCommit, HistoryBind, HistoryAbort
  <1>2. hist \in HistType
    BY DEF FullInv, IndInv, TypeOK
  <1>3. \A w : witnessed(p, w).events = hist.events
    BY <1>2 DEF witnessed, HistType
  <1>4. CASE HistoryPrepare(p) \/ HistoryReady(p)
    <2>1. hist'.events = hist.events
      BY <1>3, <1>4 DEF HistoryPrepare, HistoryReady
    <2>2. QED
      BY <1>1, <2>1, HistoryMaps
  <1>5. CASE HistoryAbort(p)
    <2>1. [hist EXCEPT !.wit = [i \in Ids |-> "none"]].events = hist.events
      BY <1>2 DEF HistType
    <2>2. hist'.events = hist.events
      BY <1>5, <2>1 DEF HistoryAbort
    <2>3. QED
      BY <1>1, <2>2, HistoryMaps
  <1>6. CASE HistoryCommit(p) \/ HistoryBind(p)
    <2>1. pc[p] \in Effecting \ {"completeSync"}
      BY <1>6 DEF HistoryCommit, HistoryBind, At, Effecting
    <2>2. Active(dir) /\ dir["decision"] = mem[p]
      BY <2>1, Forward DEF Active
    <2>3. [hist EXCEPT !.events = @ \cup {mem[p].id}, !.refuses = FALSE].events
             = hist.events \cup {mem[p].id}
      BY <1>2 DEF HistType
    <2>4. hist'.events \in {hist.events, hist.events \cup {mem[p].id}}
      <3>1. CASE HistoryCommit(p)
        <4>1. mem[p] \in Plan /\ pc[p] # "idle"
          BY <2>1, Acting DEF Holder, Effecting
        <4>2. \/ hist' = hist
              \/ \E e \in {hist.events, hist.events \cup {mem[p].id}}, b \in BOOLEAN :
                    hist' = [hist EXCEPT !.events = e, !.refuses = b]
          BY <3>1 DEF HistoryCommit
        <4>3. QED
          BY <1>2, <4>1, <4>2, PartwayFacts
      <3>2. CASE HistoryBind(p)
        BY <2>3, <3>2 DEF HistoryBind, HistoryCall
      <3>3. QED
        BY <1>6, <3>1, <3>2
    <2>5. QED
      BY <1>1, <2>2, <2>4, HistoryMaps
  <1>7. QED
    BY <1>4, <1>5, <1>6

\* A system call of an undecided preparation leaves the receipt alone.
LEMMA PreparingSteps ==
  ASSUME FullInv, FullInv', NEW p \in Procs,
         \/ StageCreate(p) \/ StageWrite(p) \/ PendingCreate(p) \/ PendingWrite(p)
         \/ PlanPublish(p) \/ Decide(p)
  PROVE  StoreStep
  <1>1. /\ pc[p] \in Undone /\ pc[p] # "idle" /\ hist' = hist
    BY DEF StageCreate, StageWrite, PendingCreate, PendingWrite, PlanPublish, Decide, At,
           Undone, Preparing
  <1>2. dir \in disk /\ dir \in DirType /\ \A e \in disk : Open(e)
    BY <1>1, Acting DEF ModeInv
  <1>3. dir["complete"] = Nil
    BY <1>2 DEF Open
  <1>4. \A v : /\ [dir EXCEPT !["stage"] = v]["complete"] = Nil
               /\ [dir EXCEPT !["pending"] = v]["complete"] = Nil
               /\ [dir EXCEPT !["decision"] = v]["complete"] = Nil
    BY <1>2, <1>3, WriteArtifact DEF Artifact, MetaLeaf
  <1>5. [dir EXCEPT !["pending"] = Nil, !["plan"] = dir["pending"]]["complete"] = Nil
    <2> DEFINE e == [dir EXCEPT !["pending"] = Nil]
    <2>1. e \in DirType
      BY <1>2, PutMeta DEF MetaLeaf
    <2>2. e["complete"] = Nil
      BY <1>4
    <2> HIDE DEF e
    <2>3. [e EXCEPT !["plan"] = dir["pending"]]["complete"] = Nil
      BY <2>1, <2>2, WriteArtifact DEF Artifact, MetaLeaf
    <2>4. QED
      BY <2>3 DEF e
  <1>6. ASSUME NEW d, NEW label, Syscall(p, d, label), d["complete"] = Nil
        PROVE  StoreStep
    <2>1. disk' = disk \cup {dir'} /\ dir'["complete"] = Nil
      BY <1>3, <1>6 DEF Syscall
    <2>2. QED
      BY <1>1, <1>3, <2>1, SyscallMaps
  <1>7. CASE StageCreate(p) \/ StageWrite(p) \/ Decide(p)
    BY <1>4, <1>6, <1>7 DEF StageCreate, StageWrite, Decide
  <1>8. CASE PendingCreate(p) \/ PendingWrite(p)
    BY <1>4, <1>6, <1>8 DEF PendingCreate, PendingWrite
  <1>9. CASE PlanPublish(p)
    BY <1>5, <1>6, <1>9 DEF PlanPublish
  <1>10. QED
    BY <1>7, <1>8, <1>9

\* A system call that rolls the decision forward, or retires it.
LEMMA FinishingSteps ==
  ASSUME FullInv, FullInv', NEW p \in Procs,
         SwapLink(p) \/ Publish(p) \/ Delete(p) \/ CompletePublish(p)
  PROVE  StoreStep
  <1>1. pc[p] \in Effecting \ {"completeSync"} /\ hist' = hist
    BY DEF SwapLink, Publish, Delete, CompletePublish, At, Effecting
  <1>2. dir["complete"] = Nil /\ ~Open(dir)
    BY <1>1, Forward DEF Open
  <1>3. ASSUME NEW d, NEW label, Syscall(p, d, label)
        PROVE  StoreStep
    <2>1. disk' = disk \cup {dir'}
      BY <1>3 DEF Syscall
    <2>2. QED
      BY <1>1, <1>2, <2>1, SyscallMaps
  <1>4. ASSUME UNCHANGED <<dir, disk>>
        PROVE  StoreStep
    BY <1>1, <1>4, SyncMaps
  <1>5. QED
    BY <1>3, <1>4 DEF SwapLink, Publish, Delete, CompletePublish

\* A removal of cleanup either is undecided, or retires what is committed.
LEMMA CleanupStep ==
  ASSUME FullInv, FullInv', NEW p \in Procs, Cleanup(p)
  PROVE  StoreStep
  <1>1. pc[p] = "cleanup" /\ pc[p] # "idle" /\ pc[p] \in Retiring /\ hist' = hist
    BY DEF Cleanup, At, Retiring
  <1>2. ModeInv(p) /\ SyncInv(p) /\ OutInv(p) /\ CtlOK /\ dir \in disk
    BY <1>1, Acting
  <1>3. CASE artifacts(dir) = {}
    <2>1. UNCHANGED <<dir, disk>>
      BY <1>3 DEF Cleanup
    <2>2. QED
      BY <1>1, <2>1, SyncMaps
  <1>4. CASE artifacts(dir) # {}
    <2> DEFINE l == nextRemoval(dir)
               d == [dir EXCEPT ![l] = Nil]
    <2>1. dir' \in {dir, d} /\ disk' = disk \cup {dir'}
      BY <1>4 DEF Cleanup, Syscall
    <2>2. /\ l \in Artifact
          /\ l = "complete" => \A m \in Artifact : m # "complete" => dir[m] = Nil
      BY <1>4, RemovesInOrder
    <2> HIDE DEF l
    <2>3. CASE \A e \in disk : Open(e)
      <3>1. Open(d)
        BY <1>1, <2>2, <2>3, RemovesPrepared
      <3> HIDE DEF d
      <3>2. dir["complete"] = Nil /\ dir'["complete"] = Nil
        BY <1>2, <2>1, <2>3, <3>1 DEF Open
      <3>3. QED
        BY <1>1, <2>1, <3>2, SyscallMaps
    <2>4. CASE ~ \A e \in disk : Open(e)
      <3>1. disk = {dir} /\ out[p] = "committed"
        BY <1>1, <1>2, <2>4 DEF ModeInv, SyncInv, OutInv, CtlOK, States
      <3>2. record(dir) # Nil
        BY <2>4, <3>1 DEF Open, record
      <3>3. /\ dir["complete"] = mem[p] /\ mem[p] # Nil
            /\ \A h \in hdisk : mem[p].id \in h.events
        BY <1>1, <1>2, <3>1, <3>2 DEF OutInv
      <3>4. record(d) # Nil => d["complete"] = dir["complete"]
        BY <1>1, <2>2, <3>1, <3>3, RemovesRetired
      <3> HIDE DEF d
      <3>5. ~Active(d) /\ ~Active(dir)
        BY <3>3, <3>4 DEF Active, record
      <3>6. ~Active(dir') /\ ~Open(dir)
        BY <2>1, <3>3, <3>5 DEF Open
      <3>7. QED
        BY <1>1, <2>1, <3>1, <3>6, SyscallMaps
    <2>5. QED
      BY <2>3, <2>4
  <1>5. QED
    BY <1>3, <1>4

\* Every step of the engine is a step of the promise, or leaves it unchanged.
LEMMA NextMaps == FullInv /\ FullInv' /\ [Next]_vars => StoreStep
  <1> SUFFICES ASSUME FullInv, FullInv', [Next]_vars
               PROVE  StoreStep
    OBVIOUS
  <1>1. ASSUME UNCHANGED <<dir, disk, hist>>
        PROVE  StoreStep
    BY <1>1, SyncMaps
  <1>2. CASE UNCHANGED vars
    BY <1>1, <1>2 DEF vars
  <1>3. CASE PowerLoss
    BY <1>3, PowerLossMaps
  <1>4. ASSUME NEW p \in Procs, (\E c \in Change : Apply(p, c)) \/ Recover(p) \/ Crash(p)
        PROVE  StoreStep
    BY <1>1, <1>4 DEF Apply, Recover, Crash
  <1>5. ASSUME NEW p \in Procs, Step(p)
        PROVE  StoreStep
    BY <1>5, QuietSteps, HistorySteps, PreparingSteps, FinishingSteps, CleanupStep DEF Step
  <1>6. QED
    BY <1>2, <1>3, <1>4, <1>5 DEF Next

\* A settled repository owes nothing.
LEMMA InitMaps == Init => Store!StoreInit
  <1> SUFFICES ASSUME Init
               PROVE  Store!StoreInit
    OBVIOUS
  <1>1. PICK present \in [Names -> Docs \cup {Nil}] :
          dir = [l \in Leaf |-> IF l \in Names /\ present[l] # Nil
                                THEN [ino |-> l, body |-> present[l]] ELSE Nil]
    BY DEF Init
  <1>2. /\ \A n \in Names : dir[n] # Nil => dir[n].body \in Docs
        /\ \A l \in Artifact : dir[l] = Nil
    BY <1>1, LeafFacts
  <1>3. docsNow \in [Names -> Docs \cup {Nil}]
    BY <1>2 DEF docsNow
  <1>4. owedNow = Nil
    BY <1>2 DEF owedNow, Artifact, MetaLeaf
  <1>5. doneNow = {}
    BY <1>4 DEF doneNow, Init
  <1>6. QED
    BY <1>3, <1>4, <1>5 DEF Store!StoreInit

\* Every behaviour of the engine, whatever fails, dies or loses power, is a
\* behaviour of the promise ProfileStore makes to callers of Apply and recover.
THEOREM EngineImplementsStore == Spec => ImplementsStore
  <1>1. Init => Store!StoreInit
    BY InitMaps
  <1>2. FullInv /\ FullInv' /\ [Next]_vars => [Store!StoreNext]_(Store!svars)
    BY NextMaps DEF StoreStep
  <1>3. QED
    BY <1>1, <1>2, FullInductive, PTL DEF Spec, ImplementsStore, Store!StoreSpec

=============================================================================
