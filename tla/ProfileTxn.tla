----------------------------- MODULE ProfileTxn -----------------------------
(***************************************************************************)
(* The Profile repository transaction engine (internal/profilerepo:        *)
(* repository.go, transaction.go, filesystem.go, preparation.go).          *)
(*                                                                         *)
(* One directory holds the public documents and six private artifacts.     *)
(* Apply takes the repository lock, settles whatever an earlier process    *)
(* left, prepares a stage and a plan, publishes the decision, rolls it     *)
(* forward and retires the artifacts.  Any system call can fail before or  *)
(* after its effect, a process can die between any two of them, and a      *)
(* power loss can take back every namespace change that was not yet        *)
(* synchronized.                                                           *)
(*                                                                         *)
(* Abstractions.  A file is write-once, so an object is its identity and   *)
(* its bytes, and a hard link is the same object under a second leaf.  A   *)
(* revision is the name-bound content, so it is the document itself.       *)
(* Profile history appears through what the engine uses of it: the         *)
(* transaction witness, the published event and whether the files of an    *)
(* interrupted commit make the code refuse it; ProfileHistory has the      *)
(* rest.  Directory bootstrap, modes, owners and no-follow checks guard    *)
(* against non-cooperating writers, which are not modelled.                *)
(***************************************************************************)
EXTENDS Naturals, FiniteSets

CONSTANTS
    Procs,          \* ACS processes sharing the repository
    Names,          \* Profile names, distinct under case folding
    Docs,           \* canonical document bytes
    Nil,            \* absence: no file, no name, no document
    Short,          \* an interrupted write that stops before a plan's version digit
    Torn,           \* an interrupted write that stops after it
    PendingCuts,    \* where the write of the pending plan may be interrupted
    MaxTxns,        \* bound: Apply calls
    MaxFaults,      \* bound: failed system calls and cancellations
    MaxCrashes      \* bound: process deaths and power losses

ASSUME ConstantsAssumption ==
    /\ Nil \notin Procs
    /\ (Names \cup {Nil}) \cap {"stage", "swap", "pending", "plan", "decision", "complete"} = {}
    /\ PendingCuts \subseteq {Short, Torn}
    /\ MaxTxns \in Nat /\ MaxFaults \in Nat /\ MaxCrashes \in Nat

VARIABLES
    dir,        \* leaf -> object, the profiles directory as processes see it
    disk,       \* the directory states a power loss may leave behind
    hist,       \* [wit, events, refuses]: the witness of each transaction, the
                \* published events, whether a commit's remains are refused
    hdisk,      \* the history states a power loss may leave behind
    lock,       \* the flock holder, or Nil
    pc,         \* the next step of each process
    mode,       \* why it runs recovery or publication
    req,        \* its change
    mem,        \* its in-memory plan
    out,        \* the Outcome.State it would return
    txns,       \* Apply calls so far; the next transaction id
    faults,     \* failures injected so far
    crashes,    \* deaths so far
    verdict,    \* id -> states ever returned to a caller about it
    effects     \* ids that ever changed a public name

vars == <<dir, disk, hist, hdisk, lock, pc, mode, req, mem, out,
          txns, faults, crashes, verdict, effects>>

Ids == 1..MaxTxns
States == {"not_committed", "committed", "unknown"}

DocLeaf == Names \cup {"stage", "swap"}
MetaLeaf == {"pending", "plan", "decision", "complete"}
Artifact == {"stage", "swap"} \cup MetaLeaf
Leaf == DocLeaf \cup MetaLeaf

\* A document object: the inode (the transaction that staged it, or the name
\* it was first seen under) and its bytes.
Object == [ino : Ids \cup Names, body : Docs \cup {Short}]

Change ==
    [op : {"create"}, src : {Nil}, dst : Names, expect : {Nil}, data : Docs]
    \cup
    [op : {"replace"}, src : Names, dst : {Nil}, expect : Docs, data : Docs]
    \cup
    [op : {"delete"}, src : Names, dst : {Nil}, expect : Docs, data : {Nil}]
    \cup
    {c \in [op : {"clone", "rename"}, src : Names, dst : Names,
            expect : Docs, data : Docs] : c.src # c.dst}

Request == [id : Ids, c : Change]

Plan == [id : Ids, op : {"create", "replace", "delete", "clone", "rename"},
         src : Names \cup {Nil}, dst : Names \cup {Nil},
         before : Object \cup {Nil}, stage : Object \cup {Nil}]

Witness == {"none", "partial", "ready"}
Unwritten == {Short, Torn}

\* Absence and interrupted bytes are not what a file can hold, and a name is not
\* a transaction id.
ASSUME ValuesAssumption ==
    /\ Nil \notin Names \cup Docs \cup Unwritten \cup Object \cup Plan
    /\ Short # Torn /\ Short \notin Docs
    /\ \A b \in Unwritten : b \notin Object \cup Plan
    /\ Names \cap Ids = {}

-----------------------------------------------------------------------------
(* Reading the directory. *)

links(d, o) == Cardinality({l \in Leaf : d[l] = o})

artifacts(d) == {l \in Artifact : d[l] # Nil}

\* The newest of the three names of the plan record.
record(d) == IF d["complete"] # Nil THEN d["complete"]
             ELSE IF d["decision"] # Nil THEN d["decision"]
             ELSE d["plan"]

target(p) == IF p.op = "replace" THEN p.src ELSE p.dst

\* decodePlan: only a completely written canonical record decodes, and its
\* fields fit its operation.
decodes(m) == m \notin Unwritten /\ m # Nil

\* The evidence checks of recover before it acts.  All names of the plan record
\* are one object, and no half-published record accompanies it.
recordSafe(d) ==
    LET r == record(d) IN
    r # Nil =>
        /\ decodes(r)
        /\ \A l \in {"plan", "decision", "complete"} : d[l] \in {Nil, r}
        /\ d["pending"] = Nil

\* A pending record is either complete or a recognised prefix.
pendingSafe(d) ==
    record(d) = Nil => d["pending"] # Torn

\* The plan recover works from: the record, or a completely written pending.
planOf(d) == IF record(d) # Nil THEN record(d)
             ELSE IF decodes(d["pending"]) THEN d["pending"] ELSE Nil

\* The checks of an undecided preparation, historyValidate in cleanup included.
abortSafe(d, h) ==
    LET p == planOf(d) IN
    /\ d["swap"] = Nil
    /\ \A l \in artifacts(d) : links(d, d[l]) = 1
    /\ p # Nil => /\ d["stage"] \in {Nil, p.stage}
                  /\ h.wit[p.id] = "ready"

\* The checks of a committed transaction's cleanup.
retireSafe(d) ==
    LET p == record(d) IN
    /\ d["swap"] = Nil
    /\ p.stage = Nil => d["stage"] = Nil
    /\ p.stage # Nil =>
          /\ d["stage"] \in {Nil, p.stage}
          /\ d[target(p)] # p.stage => d[target(p)] = Nil \/ links(d, d[target(p)]) = 1
          /\ LET owned == {l \in {"stage", target(p)} : d[l] = p.stage}
             IN  owned # {} => links(d, p.stage) = Cardinality(owned)

\* The checks finish makes of the decision and the stage before it acts.
finishSafe(d) ==
    LET p == d["decision"] IN
    /\ p # Nil /\ d["plan"] = p /\ d["complete"] = Nil /\ d["pending"] = Nil
    /\ p.stage = Nil => d["stage"] = Nil /\ d["swap"] = Nil
    /\ p.stage # Nil =>
          /\ d["stage"] = p.stage
          /\ d["swap"] # Nil => p.op = "replace" /\ d["swap"] = p.stage
          /\ LET n == 1 + (IF d["swap"] # Nil THEN 1 ELSE 0)
                        + (IF d[target(p)] = p.stage THEN 1 ELSE 0)
             IN  links(d, p.stage) = n /\ n <= 2

\* What recover does with the directory it finds.
classify(d, h) ==
    IF artifacts(d) = {} THEN "empty"
    ELSE IF ~recordSafe(d) \/ ~pendingSafe(d) THEN "unsafe"
    ELSE IF d["complete"] # Nil THEN IF retireSafe(d) THEN "complete" ELSE "unsafe"
    ELSE IF d["decision"] = Nil THEN IF abortSafe(d, h) THEN "abort" ELSE "unsafe"
    ELSE IF finishSafe(d) THEN "finish" ELSE "unsafe"

\* Mutant: the receipt goes first.
cleanupOrderReceiptFirst == <<"complete", "pending", "swap", "stage", "decision", "plan">>

\* The order in which cleanup removes the artifacts; complete is last.
cleanupOrder == <<"pending", "swap", "stage", "decision", "plan", "complete">>

nextRemoval(d) ==
    cleanupOrder[CHOOSE i \in 1..6 :
                    /\ d[cleanupOrder[i]] # Nil
                    /\ \A j \in 1..(i - 1) : d[cleanupOrder[j]] = Nil]

-----------------------------------------------------------------------------
(* Control. *)

Preparing == {"check", "stageCreate", "stageWrite", "stageSync", "witness",
              "witnessReady", "pendingCreate", "pendingWrite", "planPublish",
              "planSync", "recheck"}
Settling == {"recover", "completeRecoverySync", "finish", "swapLink", "publish",
             "publishSync", "delete", "deleteSync", "historyCommit",
             "historyBind", "completePublish", "completeSync", "cleanup",
             "cleanupSync", "historyAbort"}
Labels == {"idle", "lockSync", "validate", "decide", "decisionSync"}
          \cup Preparing \cup Settling

Goto(p, label) == pc' = [pc EXCEPT ![p] = label]

\* The transaction a returned state is about: Apply speaks of its own request,
\* Recover of the plan it found.
subject(p) == IF mode[p] = "recover"
              THEN IF mem[p] = Nil THEN {} ELSE {mem[p].id}
              ELSE {req[p].id}

\* Return a state and RecoveryRequired to the caller and release the lock.
Return(p, state, required) ==
    /\ pc' = [pc EXCEPT ![p] = "idle"]
    /\ lock' = Nil
    /\ verdict' = [i \in Ids |-> IF i \in subject(p)
                                 THEN verdict[i] \cup {<<state, required>>}
                                 ELSE verdict[i]]
    /\ mode' = [mode EXCEPT ![p] = "none"]
    /\ req' = [req EXCEPT ![p] = Nil]
    /\ mem' = [mem EXCEPT ![p] = Nil]
    /\ out' = [out EXCEPT ![p] = "not_committed"]

\* Mutant: a failure does not ask for recovery.
FailSilently(p) ==
    IF pc[p] \in Preparing
    THEN /\ Goto(p, "recover")
         /\ mode' = [mode EXCEPT ![p] = "abort"]
         /\ UNCHANGED <<lock, req, mem, out, verdict>>
    ELSE Return(p, IF mode[p] \in {"settle", "abort"} THEN "not_committed" ELSE out[p], FALSE)

\* An error: preparation is aborted by an immediate recovery, everything else
\* returns what is known.  A failure while settling an earlier transaction
\* never says that the new request committed.
Fail(p) ==
    IF pc[p] \in Preparing
    THEN /\ Goto(p, "recover")
         /\ mode' = [mode EXCEPT ![p] = "abort"]
         /\ UNCHANGED <<lock, req, mem, out, verdict>>
    ELSE Return(p, IF mode[p] \in {"settle", "abort"} THEN "not_committed" ELSE out[p],
                pc[p] # "lockSync")

\* The step continues at label.
Proceed(p, label) ==
    Goto(p, label) /\ UNCHANGED <<lock, mode, req, mem, out, verdict>>

\* A system call that turns the directory into d: it succeeds, or it fails
\* with or without its effect.
Syscall(p, d, label) ==
    \/ /\ dir' = d
       /\ disk' = disk \cup {d}
       /\ Proceed(p, label)
       /\ UNCHANGED faults
    \/ /\ faults < MaxFaults
       /\ faults' = faults + 1
       /\ dir' \in {dir, d}
       /\ disk' = disk \cup {dir'}
       /\ Fail(p)

\* fsync of the profiles directory.
SyncDir(p, label) ==
    /\ dir' = dir
    /\ \/ disk' = {dir} /\ Proceed(p, label) /\ UNCHANGED faults
       \/ /\ faults < MaxFaults
          /\ faults' = faults + 1
          /\ disk' \in {disk, {dir}}
          /\ Fail(p)

\* A synchronized history update to h.
HistoryCall(p, h, label) ==
    \/ /\ hist' = h
       /\ hdisk' = {h}
       /\ Proceed(p, label)
       /\ UNCHANGED faults
    \/ /\ faults < MaxFaults
       /\ faults' = faults + 1
       /\ hist' \in {hist, h}
       /\ hdisk' = hdisk \cup {hist'}
       /\ Fail(p)

At(p, label) == pc[p] = label /\ lock = p

-----------------------------------------------------------------------------
(* Apply and Recover. *)

\* Apply: validate the request, take the lock without waiting, and settle the
\* preceding transaction first.
Apply(p, c) ==
    /\ pc[p] = "idle"
    /\ txns < MaxTxns
    /\ txns' = txns + 1
    /\ IF lock # Nil
       THEN /\ verdict' = [verdict EXCEPT ![txns + 1] = @ \cup {<<"not_committed", FALSE>>}]
            /\ UNCHANGED <<lock, pc, mode, req, mem, out>>
       ELSE /\ lock' = p
            /\ Goto(p, "lockSync")
            /\ mode' = [mode EXCEPT ![p] = "settle"]
            /\ req' = [req EXCEPT ![p] = [id |-> txns + 1, c |-> c]]
            /\ UNCHANGED <<mem, out, verdict>>
    /\ UNCHANGED <<dir, disk, hist, hdisk, faults, crashes, effects>>

\* Explicit recovery: acs profile recover.  A busy lock changes nothing.
Recover(p) ==
    /\ pc[p] = "idle"
    /\ lock = Nil
    /\ lock' = p
    /\ Goto(p, "lockSync")
    /\ mode' = [mode EXCEPT ![p] = "recover"]
    /\ UNCHANGED <<dir, disk, hist, hdisk, req, mem, out, txns, faults, crashes,
                   verdict, effects>>

\* Mutant: the lock is taken without synchronizing the directory.
LockUnsynced(p) ==
    /\ At(p, "lockSync")
    /\ Proceed(p, "recover")
    /\ UNCHANGED <<dir, disk, hist, hdisk, faults, txns, crashes, effects>>

\* Taking the lock ends with a synchronization of the directory, so the evidence
\* recovery is about to read is durable before it is acted upon.
LockSync(p) ==
    /\ At(p, "lockSync")
    /\ SyncDir(p, "recover")
    /\ UNCHANGED <<hist, hdisk, txns, crashes, effects>>

\* Where recover goes for each class.
path == [empty |-> "historyAbort", abort |-> "cleanup",
         complete |-> "completeRecoverySync", finish |-> "finish"]

\* recover: classify the artifacts and choose the path.  A refusal, like a scan
\* that fails or is cancelled, changes nothing.
RecoverScan(p) ==
    /\ At(p, "recover")
    /\ LET kind == classify(dir, hist) IN
       \/ /\ \/ kind = "unsafe" /\ UNCHANGED faults
             \/ faults < MaxFaults /\ faults' = faults + 1
          /\ Return(p, IF mode[p] = "recover" THEN "unknown" ELSE "not_committed", TRUE)
       \/ /\ kind # "unsafe"
          /\ Goto(p, path[kind])
          /\ mem' = [mem EXCEPT ![p] = IF kind = "empty" THEN Nil ELSE planOf(dir)]
          /\ out' = [out EXCEPT ![p] = IF kind \in {"empty", "abort"}
                                       THEN "not_committed" ELSE "unknown"]
          /\ UNCHANGED <<lock, mode, req, verdict, faults>>
    /\ UNCHANGED <<dir, disk, hist, hdisk, txns, crashes, effects>>

\* Recovery or cleanup is over: an Apply that settled an older transaction goes
\* on to its own request, every other caller gets its outcome.
Settled(p) ==
    IF mode[p] = "settle"
    THEN /\ Goto(p, "check")
         /\ mode' = [mode EXCEPT ![p] = "apply"]
         /\ mem' = [mem EXCEPT ![p] = Nil]
         /\ out' = [out EXCEPT ![p] = "not_committed"]
         /\ UNCHANGED <<lock, req, verdict>>
    ELSE Return(p, IF mode[p] = "abort" THEN "not_committed" ELSE out[p], FALSE)

-----------------------------------------------------------------------------
(* prepare: everything before the decision. *)

\* The conditions of the request, rechecked under the lock.
conditionsHold(c) ==
    /\ c.src # Nil => /\ dir[c.src] # Nil
                      /\ dir[c.src].body = c.expect
                      /\ links(dir, dir[c.src]) = 1
    /\ c.dst # Nil => dir[c.dst] = Nil

\* The first step after the conditions; a deletion stages nothing.
\* Mutant: it does.
firstStepAlwaysStage(c) == "stageCreate"

firstStep(c) == IF c.op = "delete" THEN "witness" ELSE "stageCreate"

\* A conflict, like a cancelled context, ends in the same recovery as any other
\* preparation error.
Check(p) ==
    /\ At(p, "check")
    /\ \/ /\ conditionsHold(req[p].c)
          /\ Proceed(p, firstStep(req[p].c))
          /\ UNCHANGED faults
       \/ ~conditionsHold(req[p].c) /\ Fail(p) /\ UNCHANGED faults
       \/ faults < MaxFaults /\ faults' = faults + 1 /\ Fail(p)
    /\ UNCHANGED <<dir, disk, hist, hdisk, txns, crashes, effects>>

\* The object this transaction stages.
staged(p) == [ino |-> req[p].id, body |-> req[p].c.data]

\* writeNew creates the leaf first; until the write is synchronized its bytes
\* are whatever an interruption would leave.
StageCreate(p) ==
    /\ At(p, "stageCreate")
    /\ Syscall(p, [dir EXCEPT !["stage"] = [ino |-> req[p].id, body |-> Short]], "stageWrite")
    /\ UNCHANGED <<hist, hdisk, txns, crashes, effects>>

StageWrite(p) ==
    /\ At(p, "stageWrite")
    /\ Syscall(p, [dir EXCEPT !["stage"] = staged(p)], "stageSync")
    /\ UNCHANGED <<hist, hdisk, txns, crashes, effects>>

StageSync(p) ==
    /\ At(p, "stageSync")
    /\ SyncDir(p, "witness")
    /\ UNCHANGED <<hist, hdisk, txns, crashes, effects>>

newPlan(p) ==
    LET c == req[p].c IN
    [id |-> req[p].id, op |-> c.op, src |-> c.src, dst |-> c.dst,
     before |-> IF c.src = Nil THEN Nil ELSE dir[c.src],
     stage  |-> IF c.op = "delete" THEN Nil ELSE dir["stage"]]

\* The history with the witness of p's transaction in state w.
witnessed(p, w) == [hist EXCEPT !.wit[req[p].id] = w]

\* historyPrepare: a lineage conflict or a full history refuses the request;
\* otherwise the snapshot is written first.
HistoryPrepare(p) ==
    /\ At(p, "witness")
    /\ \/ /\ hist' = witnessed(p, "partial")
          /\ hdisk' = hdisk \cup {hist'}
          /\ Proceed(p, "witnessReady")
          /\ UNCHANGED faults
       \/ UNCHANGED <<hist, hdisk, faults>> /\ Fail(p)
       \/ /\ faults < MaxFaults /\ faults' = faults + 1
          /\ hist' \in {witnessed(p, w) : w \in {"none", "partial"}}
          /\ hdisk' = hdisk \cup {witnessed(p, w) : w \in {"none", "partial"}}
          /\ Fail(p)
    /\ UNCHANGED <<dir, disk, txns, crashes, effects>>

\* The transaction record completes the witness and is synchronized.  A failure
\* removes what was written, as far as it can.
HistoryReady(p) ==
    /\ At(p, "witnessReady")
    /\ \/ /\ hist' = witnessed(p, "ready")
          /\ hdisk' = {hist'}
          /\ Proceed(p, "pendingCreate")
          /\ UNCHANGED faults
       \/ /\ faults < MaxFaults /\ faults' = faults + 1
          /\ hist' \in {witnessed(p, w) : w \in Witness}
          /\ hdisk' = hdisk \cup {witnessed(p, w) : w \in Witness}
          /\ Fail(p)
    /\ UNCHANGED <<dir, disk, txns, crashes, effects>>

PendingCreate(p) ==
    /\ At(p, "pendingCreate")
    /\ \E b \in PendingCuts :
          Syscall(p, [dir EXCEPT !["pending"] = b], "pendingWrite")
    /\ UNCHANGED <<hist, hdisk, txns, crashes, effects>>

PendingWrite(p) ==
    /\ At(p, "pendingWrite")
    /\ Syscall(p, [dir EXCEPT !["pending"] = newPlan(p)], "planPublish")
    /\ UNCHANGED <<hist, hdisk, txns, crashes, effects>>

PlanPublish(p) ==
    /\ At(p, "planPublish")
    /\ Syscall(p, [dir EXCEPT !["pending"] = Nil, !["plan"] = dir["pending"]], "planSync")
    /\ UNCHANGED <<hist, hdisk, txns, crashes, effects>>

PlanSync(p) ==
    /\ At(p, "planSync")
    /\ SyncDir(p, "recheck")
    /\ UNCHANGED <<hist, hdisk, txns, crashes, effects>>

\* checkBefore, then the last look at the context before a decision can exist.
Recheck(p) ==
    /\ At(p, "recheck")
    /\ LET pl == dir["plan"]
           fresh == /\ pl.src # Nil => dir[pl.src] = pl.before
                    /\ pl.dst # Nil => dir[pl.dst] = Nil
       IN  \/ fresh /\ Proceed(p, "validate") /\ UNCHANGED faults
           \/ ~fresh /\ Fail(p) /\ UNCHANGED faults
           \/ faults < MaxFaults /\ faults' = faults + 1 /\ Fail(p)
    /\ UNCHANGED <<dir, disk, hist, hdisk, txns, crashes, effects>>

\* historyValidate before the decision: its failure returns without aborting.
Validate(p) ==
    /\ At(p, "validate")
    /\ \/ /\ hist.wit[req[p].id] = "ready"
          /\ Goto(p, "decide")
          /\ out' = [out EXCEPT ![p] = "unknown"]
          /\ mem' = [mem EXCEPT ![p] = dir["plan"]]
          /\ UNCHANGED <<lock, mode, req, verdict, faults>>
       \/ /\ faults < MaxFaults /\ faults' = faults + 1
          /\ Return(p, "not_committed", TRUE)
    /\ UNCHANGED <<dir, disk, hist, hdisk, txns, crashes, effects>>

\* Publish the decision: a second link to the plan record.
Decide(p) ==
    /\ At(p, "decide")
    /\ Syscall(p, [dir EXCEPT !["decision"] = dir["plan"]], "decisionSync")
    /\ UNCHANGED <<hist, hdisk, txns, crashes, effects>>

\* Mutant: the decision is acted upon before it is synchronized.
DecisionUnsynced(p) ==
    /\ At(p, "decisionSync")
    /\ Proceed(p, "finish")
    /\ UNCHANGED <<dir, disk, hist, hdisk, faults, txns, crashes, effects>>

DecisionSync(p) ==
    /\ At(p, "decisionSync")
    /\ SyncDir(p, "finish")
    /\ UNCHANGED <<hist, hdisk, txns, crashes, effects>>

-----------------------------------------------------------------------------
(* finish: roll the decided transaction forward. *)

\* Mutant: a repeated publication is a conflict.
alreadyPublishedNever(pl) == FALSE

\* An earlier process published the staged object before it stopped.
alreadyPublished(pl) == dir[target(pl)] = pl.stage

\* How far an earlier process got, from the evidence, or a refusal.
resume(pl) ==
    LET t == target(pl)
        sourceFresh == pl.src # Nil => dir[pl.src] = pl.before
    IN  IF ~finishSafe(dir) \/ dir["decision"] # pl THEN "refuse"
        ELSE IF pl.op = "delete" THEN "delete"
        ELSE IF alreadyPublished(pl) THEN "publishSync"
        ELSE IF pl.op = "replace" /\ dir[t] = pl.before /\ links(dir, dir[t]) = 1
             THEN IF dir["swap"] = Nil THEN "swapLink" ELSE "publish"
        ELSE IF pl.op # "replace" /\ dir[t] = Nil /\ sourceFresh THEN "publish"
        ELSE "refuse"

Finish(p) ==
    /\ At(p, "finish")
    /\ IF resume(mem[p]) = "refuse" THEN Fail(p) ELSE Proceed(p, resume(mem[p]))
    /\ UNCHANGED <<dir, disk, hist, hdisk, txns, faults, crashes, effects>>

SwapLink(p) ==
    /\ At(p, "swapLink")
    /\ Syscall(p, [dir EXCEPT !["swap"] = dir["stage"]], "publish")
    /\ UNCHANGED <<hist, hdisk, txns, crashes, effects>>

\* The public name changes: an exclusive link for a new name, a rename over the
\* rechecked source for a replacement.
published(pl) ==
    IF pl.op = "replace"
    THEN [dir EXCEPT ![pl.src] = dir["swap"], !["swap"] = Nil]
    ELSE [dir EXCEPT ![pl.dst] = dir["stage"]]

Publish(p) ==
    /\ At(p, "publish")
    /\ LET pl == mem[p]
           allowed == IF pl.op = "replace" THEN dir[pl.src] = pl.before
                                           ELSE dir[pl.dst] = Nil
       IN  IF allowed
           THEN /\ Syscall(p, published(pl), "publishSync")
                /\ effects' = IF dir' = dir THEN effects ELSE effects \cup {pl.id}
           ELSE Fail(p) /\ UNCHANGED <<dir, disk, faults, effects>>
    /\ UNCHANGED <<hist, hdisk, txns, crashes>>

\* What follows the publication; a rename still has to remove its source.
\* Mutant: it does not.
afterPublishNoDelete(pl) == "historyCommit"

afterPublish(pl) == IF pl.op = "rename" THEN "delete" ELSE "historyCommit"

PublishSync(p) ==
    /\ At(p, "publishSync")
    /\ SyncDir(p, afterPublish(mem[p]))
    /\ UNCHANGED <<hist, hdisk, txns, crashes, effects>>

\* The source of a delete or rename goes last, and only if it is still the
\* observed object.
Delete(p) ==
    /\ At(p, "delete")
    /\ LET pl == mem[p] IN
       IF dir[pl.src] \in {Nil, pl.before}
       THEN /\ Syscall(p, [dir EXCEPT ![pl.src] = Nil], "deleteSync")
            /\ effects' = IF dir' = dir THEN effects ELSE effects \cup {pl.id}
       ELSE Fail(p) /\ UNCHANGED <<dir, disk, faults, effects>>
    /\ UNCHANGED <<hist, hdisk, txns, crashes>>

DeleteSync(p) ==
    /\ At(p, "deleteSync")
    /\ SyncDir(p, "historyCommit")
    /\ UNCHANGED <<hist, hdisk, txns, crashes, effects>>

\* historyCommit validates the witness and the lineage it is attached to, and
\* then writes file after file: it can be interrupted inside any of them.  An
\* event file or binding cut short, or a prune.json not yet executed, is refused
\* when the commit is repeated; anything else is taken up where it was left.
HistoryCommit(p) ==
    /\ At(p, "historyCommit")
    /\ IF hist.wit[mem[p].id] = "ready" /\ ~hist.refuses
       THEN /\ \E e \in {hist.events, hist.events \cup {mem[p].id}}, r \in BOOLEAN :
                   hist' = [hist EXCEPT !.events = e, !.refuses = r]
            /\ hdisk' = hdisk \cup {hist'}
            /\ \/ Proceed(p, "historyBind") /\ UNCHANGED faults
               \/ faults < MaxFaults /\ faults' = faults + 1 /\ Fail(p)
       ELSE Fail(p) /\ UNCHANGED <<hist, hdisk, faults>>
    /\ UNCHANGED <<dir, disk, txns, crashes, effects>>

\* The last binding is written and the bound retention executed: the event is
\* published and nothing of the commit is left that a repetition would refuse.
HistoryBind(p) ==
    /\ At(p, "historyBind")
    /\ HistoryCall(p, [hist EXCEPT !.events = @ \cup {mem[p].id}, !.refuses = FALSE],
                   "completePublish")
    /\ UNCHANGED <<dir, disk, txns, crashes, effects>>

CompletePublish(p) ==
    /\ At(p, "completePublish")
    /\ Syscall(p, [dir EXCEPT !["complete"] = dir["plan"]], "completeSync")
    /\ UNCHANGED <<hist, hdisk, txns, crashes, effects>>

\* The synchronized receipt establishes the commit, here and in a recovery that
\* finds the receipt already linked.
CompleteSync(p) ==
    /\ lock = p /\ pc[p] \in {"completeSync", "completeRecoverySync"}
    /\ dir' = dir
    /\ \/ /\ disk' = {dir}
          /\ IF retireSafe(dir)
             THEN /\ Goto(p, "cleanup")
                  /\ out' = [out EXCEPT ![p] = "committed"]
                  /\ UNCHANGED <<lock, mode, req, mem, verdict>>
             ELSE Return(p, IF mode[p] = "settle" THEN "not_committed" ELSE "committed", TRUE)
          /\ UNCHANGED faults
       \/ /\ faults < MaxFaults
          /\ faults' = faults + 1
          /\ disk' \in {disk, {dir}}
          /\ Fail(p)
    /\ UNCHANGED <<hist, hdisk, txns, crashes, effects>>

-----------------------------------------------------------------------------
(* cleanup: remove the artifacts one by one, each removal synchronized. *)

Cleanup(p) ==
    /\ At(p, "cleanup")
    /\ IF artifacts(dir) = {}
       THEN Proceed(p, "historyAbort") /\ UNCHANGED <<dir, disk, faults>>
       ELSE Syscall(p, [dir EXCEPT ![nextRemoval(dir)] = Nil], "cleanupSync")
    /\ UNCHANGED <<hist, hdisk, txns, crashes, effects>>

CleanupSync(p) ==
    /\ At(p, "cleanupSync")
    /\ SyncDir(p, "cleanup")
    /\ UNCHANGED <<hist, hdisk, txns, crashes, effects>>

\* historyAbort and historyAbortOrphans: no witness outlives its transaction.
HistoryAbort(p) ==
    /\ At(p, "historyAbort")
    /\ LET h == [hist EXCEPT !.wit = [i \in Ids |-> "none"]] IN
       \/ hist' = h /\ hdisk' = {h} /\ Settled(p) /\ UNCHANGED faults
       \/ /\ faults < MaxFaults
          /\ faults' = faults + 1
          /\ hist' \in {hist, h}
          /\ hdisk' = hdisk \cup {hist'}
          /\ Fail(p)
    /\ UNCHANGED <<dir, disk, txns, crashes, effects>>

-----------------------------------------------------------------------------
(* Death. *)

\* The process is killed; the kernel drops its lock and keeps its files.
Crash(p) ==
    /\ crashes < MaxCrashes
    /\ lock = p
    /\ crashes' = crashes + 1
    /\ lock' = Nil
    /\ pc' = [pc EXCEPT ![p] = "idle"]
    /\ mode' = [mode EXCEPT ![p] = "none"]
    /\ req' = [req EXCEPT ![p] = Nil]
    /\ mem' = [mem EXCEPT ![p] = Nil]
    /\ out' = [out EXCEPT ![p] = "not_committed"]
    /\ UNCHANGED <<dir, disk, hist, hdisk, txns, faults, verdict, effects>>

\* The machine stops: the directories come back as some state since their last
\* synchronization.
PowerLoss ==
    /\ crashes < MaxCrashes
    /\ crashes' = crashes + 1
    /\ \E d \in disk : dir' = d /\ disk' = {d}
    /\ \E h \in hdisk : hist' = h /\ hdisk' = {h}
    /\ lock' = Nil
    /\ pc' = [p \in Procs |-> "idle"]
    /\ mode' = [p \in Procs |-> "none"]
    /\ req' = [p \in Procs |-> Nil]
    /\ mem' = [p \in Procs |-> Nil]
    /\ out' = [p \in Procs |-> "not_committed"]
    /\ UNCHANGED <<txns, faults, verdict, effects>>

-----------------------------------------------------------------------------

\* Any settled repository: some of the names hold documents.
Init ==
    /\ \E present \in [Names -> Docs \cup {Nil}] :
          dir = [l \in Leaf |-> IF l \in Names /\ present[l] # Nil
                                THEN [ino |-> l, body |-> present[l]]
                                ELSE Nil]
    /\ disk = {dir}
    /\ hist = [wit |-> [i \in Ids |-> "none"], events |-> {}, refuses |-> FALSE]
    /\ hdisk = {hist}
    /\ lock = Nil
    /\ pc = [p \in Procs |-> "idle"]
    /\ mode = [p \in Procs |-> "none"]
    /\ req = [p \in Procs |-> Nil]
    /\ mem = [p \in Procs |-> Nil]
    /\ out = [p \in Procs |-> "not_committed"]
    /\ txns = 0
    /\ faults = 0
    /\ crashes = 0
    /\ verdict = [i \in Ids |-> {}]
    /\ effects = {}

\* The steps of a process that holds the lock.
Step(p) ==
    \/ LockSync(p) \/ RecoverScan(p) \/ Check(p) \/ StageCreate(p) \/ StageWrite(p) \/ StageSync(p)
    \/ HistoryPrepare(p) \/ HistoryReady(p) \/ PendingCreate(p) \/ PendingWrite(p)
    \/ PlanPublish(p) \/ PlanSync(p) \/ Recheck(p) \/ Validate(p) \/ Decide(p)
    \/ DecisionSync(p) \/ Finish(p) \/ SwapLink(p) \/ Publish(p) \/ PublishSync(p)
    \/ Delete(p) \/ DeleteSync(p) \/ HistoryCommit(p) \/ HistoryBind(p)
    \/ CompletePublish(p) \/ CompleteSync(p) \/ Cleanup(p) \/ CleanupSync(p)
    \/ HistoryAbort(p)

Next ==
    \/ \E p \in Procs : \/ \E c \in Change : Apply(p, c)
                        \/ Recover(p)
                        \/ Step(p)
                        \/ Crash(p)
    \/ PowerLoss

Spec == Init /\ [][Next]_vars

-----------------------------------------------------------------------------
(* Properties. *)

DirType == {d \in [Leaf -> Object \cup Plan \cup Unwritten \cup {Nil}] :
              /\ \A l \in DocLeaf : d[l] \in Object \cup {Nil}
              /\ \A l \in MetaLeaf : d[l] \in Plan \cup Unwritten \cup {Nil}}

HistType == [wit : [Ids -> Witness], events : SUBSET Ids, refuses : BOOLEAN]

\* Every variable holds a value of its type.
TypeOK ==
    /\ dir \in DirType /\ disk \subseteq DirType
    /\ hist \in HistType /\ hdisk \subseteq HistType
    /\ lock \in Procs \cup {Nil}
    /\ pc \in [Procs -> Labels]
    /\ mode \in [Procs -> {"none", "settle", "apply", "abort", "recover"}]
    /\ req \in [Procs -> Request \cup {Nil}]
    /\ mem \in [Procs -> Plan \cup {Nil}]
    /\ out \in [Procs -> States]
    /\ txns \in 0..MaxTxns /\ faults \in 0..MaxFaults /\ crashes \in 0..MaxCrashes
    /\ verdict \in [Ids -> SUBSET (States \X BOOLEAN)]
    /\ effects \subseteq Ids

\* Whatever a kill or a power loss leaves behind at any moment, the next
\* recovery accepts it: no interleaving of failures and deaths of earlier
\* processes reaches the ErrUnsafe refusals of recover.
RecoveryAccepts ==
    \A d \in disk, h \in hdisk : classify(d, h) # "unsafe"

\* Before a decision, recovery aborts private preparation.
UndecidedAborts ==
    lock = Nil /\ dir["decision"] = Nil /\ dir["complete"] = Nil
        => classify(dir, hist) \in {"empty", "abort"}

\* The decision is durable before the effect: once a transaction has touched a
\* public name, every directory a power loss can leave still carries its
\* decision or receipt, or its event is durable.  Otherwise an effect could
\* survive a transaction that recovery reports as never committed.
EffectsAreDecided ==
    \A i \in effects :
        \/ \A d \in disk : record(d) # Nil /\ record(d).id = i
                           /\ (d["decision"] # Nil \/ d["complete"] # Nil)
        \/ \A h \in hdisk : i \in h.events

said(i) == {v[1] : v \in verdict[i]}

\* Outcome.State is never contradicted: an id is not reported both ways, and
\* not_committed means that it changed no public name and left no event, now or
\* after any later recovery.
OutcomesAgree ==
    \A i \in Ids : "not_committed" \in said(i) =>
        /\ "committed" \notin said(i)
        /\ i \notin effects /\ i \notin hist.events

\* A synchronized terminal receipt establishes commit: after committed was
\* reported no power loss can take back the event or lead a recovery into
\* aborting or redoing the transaction.
CommittedIsDurable ==
    \A i \in Ids : "committed" \in said(i) =>
        /\ \A h \in hdisk : i \in h.events
        /\ \A d \in disk : record(d) # Nil /\ record(d) \notin Unwritten /\ record(d).id = i
                           => d["complete"] # Nil

\* What a caller is told is true and stays true, whatever dies, fails or is
\* recovered later: an effect is never visible without its decision or event,
\* not_committed left nothing behind, and committed cannot be undone by a loss
\* of power (Outcome.State of Apply and recover).
OutcomesHonest == EffectsAreDecided /\ OutcomesAgree /\ CommittedIsDurable

\* RecoveryRequired is honest: a call that held the lock past its
\* synchronization and returns it false leaves no artifact and no witness.
RecoveryFlagHonest ==
    [][\A i \in Ids :
          /\ \E s \in States : <<s, FALSE>> \in verdict'[i] \ verdict[i]
          /\ \E p \in Procs : lock = p /\ pc[p] # "lockSync" /\ pc'[p] = "idle"
          => artifacts(dir') = {} /\ hist'.wit = [j \in Ids |-> "none"]]_vars

\* The states in which a process may touch public names and history.
Effecting == {"finish", "swapLink", "publish", "publishSync", "delete", "deleteSync",
              "historyCommit", "historyBind", "completePublish", "completeSync"}

\* What the lock holder may rely on at each of its steps.
Holder(p) ==
    /\ pc[p] = "lockSync" => mode[p] # "abort"
    /\ mode[p] \in {"settle", "apply", "abort"} => req[p] \in Request
    /\ pc[p] \in Preparing \cup {"validate", "decide"} => /\ dir["decision"] = Nil
                                                          /\ req[p] \in Request
    /\ pc[p] \in {"stageCreate", "stageWrite", "stageSync"} => req[p].c.op # "delete"
    /\ pc[p] = "planPublish" => dir["pending"] \in Plan
    /\ pc[p] \in {"planSync", "recheck", "validate", "decide"} => dir["plan"] \in Plan
    /\ pc[p] = "decide" => mem[p] = dir["plan"]
    /\ pc[p] = "decisionSync" => mem[p] \in Plan /\ dir["decision"] = mem[p]
    /\ pc[p] \in Effecting => /\ mem[p] \in Plan
                              /\ dir["decision"] = mem[p]
                              /\ \A d \in disk : d["decision"] = mem[p]
    /\ pc[p] = "recover" => IF mode[p] = "abort" THEN dir["decision"] = Nil ELSE disk = {dir}
    /\ pc[p] = "historyAbort" => artifacts(dir) = {}

\* Only the lock holder is active, and its evidence is where its step expects
\* it: nothing was decided while it prepares, recovery reads a synchronized
\* directory, and whoever may touch a public name acts for a decision that no
\* power loss can take back.
HolderHasEvidence ==
    \A p \in Procs : pc[p] # "idle" => lock = p /\ Holder(p)

\* The steps that may change a public name: a process whose plan is the
\* published decision in every directory a power loss can leave.  Power loss
\* itself, which only goes back to such a directory, starts with a crash.
DecidedWriter ==
    \E p \in Procs : lock = p /\ mem[p] \in Plan
                     /\ \A d \in disk : d["decision"] = mem[p]

\* No step changes a public name before its decision is durable.
DecisionPrecedesEffect ==
    [][\A n \in Names : dir'[n] # dir[n] => DecidedWriter \/ crashes' # crashes]_vars

\* The lock holder keeps running or dies, and somebody runs a recovery again.
Fairness == \A p \in Procs : WF_vars(Step(p)) /\ WF_vars(Recover(p))

FairSpec == Spec /\ Fairness

\* An interrupted historyCommit left behind what validateHistoryAttachment,
\* readLineage or publishHistoryRecord refuse: nobody is at work, and the
\* decision is still there for every later call to report.
Refused(i) ==
    /\ lock = Nil /\ hist.refuses
    /\ dir["decision"] # Nil /\ dir["decision"].id = i /\ dir["complete"] = Nil

\* A durable decision is rolled forward: its event is published and its
\* artifacts are retired, whatever failures and deaths happen on the way - with
\* the one exception the code has, a commit interrupted where its own remains
\* are refused by every later recovery.
DecisionRollsForward ==
    \A i \in Ids :
        (\A d \in disk : d["decision"] # Nil /\ d["decision"].id = i)
            ~> (i \in hist.events /\ artifacts(dir) = {}) \/ Refused(i)

=============================================================================
