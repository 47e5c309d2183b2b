-------------------------- MODULE LinuxSupervisor --------------------------
(***************************************************************************)
(* One contained process on Linux (internal/launch): ACS as the owner, the *)
(* re-executed supervisor outside the cgroup, Bubblewrap with the          *)
(* contained init, the restricted child that becomes the target, and a     *)
(* descendant it may leave behind.  The four talk over the owner socket,   *)
(* the control and the status pipe in one-byte frames; the supervisor      *)
(* proves with cgroup, pidfd and wait4 that the tree is gone and publishes *)
(* an authenticated cleanup proof before the owner hears of it.            *)
(*                                                                         *)
(* Abstractions.  "sig" is any forwarded signal.  Proof files are what     *)
(* they decode to.  Recipe compilation, transport and mounts succeed or    *)
(* fail; what they compute is in LaunchAuthority.                          *)
(***************************************************************************)
EXTENDS Naturals, Sequences, FiniteSets

CONSTANTS
    MaxSignals,     \* bound: signals the owner forwards
    MaxFaults       \* bound: failing calls, timeouts, deaths

ASSUME BoundsAssumption == MaxSignals \in Nat /\ MaxFaults \in Nat

Tree == {"bwrap", "init", "child", "orphan"}    \* what the cgroup can hold

VARIABLES
    owner,      \* linuxProductionProcess
    sup,        \* the supervisor's next step
    state,      \* linuxSessionProtocol: 0 preparing .. 3 executing
    result,     \* linuxSessionResult and whether an error is returned
    toSup, toOwner, toInit, fromInit,   \* the frames in flight
    init,       \* linuxRunContainedInit's next step
    image,      \* what the child runs
    life,       \* life of every process of the tree
    cg,         \* the disposable, then the Session's cgroup
    proof,      \* the cleanup proof file
    binding,    \* the binding file
    protected,  \* recovery protection
    terminal,   \* who owns the host terminal
    surprise,   \* an unexpected byte ended the protocol
    signals, faults

wires == <<toSup, toOwner, toInit, fromInit>>
disk == <<proof, binding, protected>>
vars == <<owner, sup, state, result, wires, init, image, life, cg, disk, terminal, surprise,
          signals, faults>>

Fault == faults < MaxFaults /\ faults' = faults + 1
live(p) == life[p] = "live"
NoneLive == \A p \in Tree : ~live(p)
ended == sup \in {"exited", "killed"}
NoGroup == [st |-> "none", killed |-> FALSE]
fail == [result EXCEPT !.err = TRUE]

-----------------------------------------------------------------------------
(* The owner. *)

\* linuxProductionPrepare: kind, stdio, challenge, snapshot and a trial
\* compilation; the sealed specification and the owner socket.
Prepare ==
    /\ owner = "new"
    /\ \/ owner' = "prepared" /\ UNCHANGED faults
       \/ Fault /\ owner' = "refused"
    /\ UNCHANGED <<sup, state, result, wires, init, image, life, cg, disk, terminal, surprise, signals>>

\* Start: the supervisor is a child of ACS that dies with it.
Start ==
    /\ owner = "prepared"
    /\ \/ owner' = "awaitR" /\ sup' = "load" /\ UNCHANGED faults
       \/ Fault /\ owner' = "unproven" /\ UNCHANGED sup        \* AbortPrepared
    /\ UNCHANGED <<state, result, wires, init, image, life, cg, disk, terminal, surprise, signals>>

\* readOwner: exactly the expected byte.
readOwner(expect) == toOwner # <<>> /\ Head(toOwner) = expect /\ toOwner' = Tail(toOwner)

\* Start, continued: R, then S, then E.
OwnerReady ==
    /\ owner = "awaitR" /\ readOwner("R")
    /\ owner' = "awaitE" /\ toSup' = Append(toSup, "S")
    /\ UNCHANGED <<sup, state, result, toInit, fromInit, init, image, life, cg, disk, terminal,
                   surprise, signals, faults>>
OwnerExec ==
    /\ owner = "awaitE" /\ readOwner("E") /\ owner' = "running"
    /\ UNCHANGED <<sup, state, result, toSup, toInit, fromInit, init, image, life, cg, disk,
                   terminal, surprise, signals, faults>>

\* A wrong byte, the end of the stream or the 30 seconds are over: the
\* supervisor is killed and cleanup stays unproven.
StartFails ==
    /\ owner \in {"awaitR", "awaitE"}
    /\ \/ ended /\ toOwner = <<>> /\ UNCHANGED faults
       \/ toOwner # <<>> /\ Head(toOwner) # (IF owner = "awaitR" THEN "R" ELSE "E") /\ UNCHANGED faults
       \/ Fault
    /\ owner' = "unproven" /\ sup' = IF ended THEN sup ELSE "killed"
    /\ UNCHANGED <<state, result, wires, init, image, life, cg, disk, terminal, surprise, signals>>

\* Mutant: signals are sent before the exec receipt.
SignalEarly ==
    /\ owner \in {"awaitR", "awaitE", "running"} /\ ~ended
    /\ signals < MaxSignals /\ signals' = signals + 1 /\ toSup' = Append(toSup, "sig")
    /\ UNCHANGED <<owner, sup, state, result, toOwner, toInit, fromInit, init, image, life, cg,
                   disk, terminal, surprise, faults>>

\* Signal: only once exec was seen.
Signal ==
    /\ owner = "running" /\ ~ended
    /\ signals < MaxSignals /\ signals' = signals + 1 /\ toSup' = Append(toSup, "sig")
    /\ UNCHANGED <<owner, sup, state, result, toOwner, toInit, fromInit, init, image, life, cg,
                   disk, terminal, surprise, faults>>

\* Wait: X and the supervisor's exit; without X cleanup is unproven.
Wait ==
    /\ owner = "running"
    /\ \/ readOwner("X") /\ owner' = "done"
       \/ ended /\ toOwner = <<>> /\ owner' = "unproven" /\ UNCHANGED toOwner
    /\ UNCHANGED <<sup, state, result, toSup, toInit, fromInit, init, image, life, cg, disk,
                   terminal, surprise, signals, faults>>

\* ACS dies, or its context is cancelled: either way the supervisor is killed
\* (Pdeathsig, CommandContext).
OwnerDies ==
    /\ owner \in {"awaitR", "awaitE", "running"} /\ ~ended /\ Fault
    /\ owner' \in {"dead", owner} /\ sup' = "killed"
    /\ UNCHANGED <<state, result, wires, init, image, life, cg, disk, terminal, surprise, signals>>

-----------------------------------------------------------------------------
(* The supervisor, up to the start of Bubblewrap. *)

Sup(s) == sup' = s
Returns(r) == sup' = "finish" /\ result' = r

\* linuxProductionSupervisor: specification, snapshot, recipe, environment and
\* the prepared Session; a failure leaves the no-target proof as it is.
Load ==
    /\ sup = "load"
    /\ \/ Sup("protect") /\ UNCHANGED faults
       \/ Fault /\ Sup("exited")
    /\ UNCHANGED <<owner, state, result, wires, init, image, life, cg, disk, terminal, surprise, signals>>

\* linuxPrepareCleanup: protection and binding precede the revocation of the
\* no-target proof; all of them precede any child.
Protect ==
    /\ sup = "protect"
    /\ \/ protected' = TRUE /\ Sup("binding") /\ UNCHANGED faults
       \/ Fault /\ Sup("exited") /\ UNCHANGED protected
    /\ UNCHANGED <<owner, state, result, wires, init, image, life, cg, proof, binding, terminal,
                   surprise, signals>>

WriteBinding ==
    /\ sup = "binding"
    /\ \/ binding' = "generation" /\ Sup("revoke") /\ UNCHANGED faults
       \/ Fault /\ binding' \in {binding, "generation"} /\ Sup("exited")
    /\ UNCHANGED <<owner, state, result, wires, init, image, life, cg, proof, protected, terminal,
                   surprise, signals>>

Revoke ==
    /\ sup = "revoke"
    /\ \/ proof' = "none" /\ Sup("recipe") /\ UNCHANGED faults
       \/ Fault /\ proof' \in {proof, "none"} /\ Sup("exited")
    /\ UNCHANGED <<owner, state, result, wires, init, image, life, cg, binding, protected, terminal,
                   surprise, signals>>

\* linuxRunRecipe before supervision: the prerequisites, then the terminal in
\* raw mode.  No child exists yet, so a failure is settled.
RunRecipe ==
    /\ sup = "recipe"
    /\ \/ Sup("bwrap") /\ terminal' \in {"host", "raw"} /\ UNCHANGED <<result, faults>>
       \/ Fault /\ terminal' \in {"host", "raw"} /\ Returns([fail EXCEPT !.settled = TRUE])
    /\ UNCHANGED <<owner, state, wires, init, image, life, cg, disk, surprise, signals>>

\* linuxPrepareBwrap: the transmitted rules are the compiled ones, transport and
\* filter are sealed, every source is pinned.
PrepareBwrap ==
    /\ sup = "bwrap"
    /\ \/ Sup("probe") /\ UNCHANGED <<result, faults>>
       \/ Fault /\ Returns([fail EXCEPT !.settled = TRUE])
    /\ UNCHANGED <<owner, state, wires, init, image, life, cg, disk, terminal, surprise, signals>>

\* linuxAllocateSessionCgroup: a fresh, empty leaf; an incomplete one is removed
\* again, or settlement is uncertain.
Allocate(next) ==
    \/ /\ cg' = [st |-> "open", killed |-> FALSE]
       /\ Sup(next) /\ UNCHANGED <<result, faults>>
    \/ Fault /\ cg' = NoGroup /\ Returns([fail EXCEPT !.settled = TRUE])
    \/ Fault /\ cg' = [st |-> "left", killed |-> FALSE] /\ Returns(fail)

\* linuxCreateSessionCgroup: cgroup.kill is exercised on a disposable sibling,
AllocateProbe ==
    /\ sup = "probe" /\ Allocate("preflight")
    /\ UNCHANGED <<owner, state, wires, init, image, life, disk, terminal, surprise, signals>>

\* which is then removed and never used for the Session.
KillPreflight ==
    /\ sup = "preflight"
    /\ \/ cg' = NoGroup /\ Sup("group") /\ UNCHANGED <<result, faults>>
       \/ Fault /\ cg' = NoGroup /\ Returns([fail EXCEPT !.settled = TRUE])
       \/ Fault /\ cg' = [st |-> "left", killed |-> TRUE] /\ Returns(fail)
    /\ UNCHANGED <<owner, state, wires, init, image, life, disk, terminal, surprise, signals>>

AllocateSession ==
    /\ sup = "group" /\ Allocate("bind")
    /\ UNCHANGED <<owner, state, wires, init, image, life, disk, terminal, surprise, signals>>

\* bindCgroup: the binding names the group before anything runs in it; a failed
\* write may have come as far as its rename, and the group may stay.
BindCgroup ==
    /\ sup = "bind"
    /\ \/ binding' = "cgroup" /\ Sup("spawn") /\ UNCHANGED <<cg, result, faults>>
       \/ Fault /\ binding' \in {binding, "cgroup"} /\ cg' \in {cg, NoGroup} /\ Returns(fail)
    /\ UNCHANGED <<owner, state, wires, init, image, life, proof, protected, terminal, surprise,
                   signals>>

\* command.Start with CLONE_INTO_CGROUP; after a failed start there is nobody
\* to reap and the group is removed again.
Spawn ==
    /\ sup = "spawn"
    /\ \/ /\ life' = [life EXCEPT !["bwrap"] = "live", !["init"] = "live"]
          /\ init' = "boot" /\ Sup("protocol") /\ UNCHANGED <<cg, result, faults>>
       \/ Fault /\ cg' = NoGroup /\ Returns([fail EXCEPT !.settled = TRUE]) /\ UNCHANGED <<life, init>>
       \/ Fault /\ Returns(fail) /\ UNCHANGED <<life, init, cg>>
    /\ UNCHANGED <<owner, state, wires, image, disk, terminal, surprise, signals>>

-----------------------------------------------------------------------------
(* linuxSessionProtocol. *)

\* A request of the owner: S once, signals only while executing.  The write to
\* the contained init fails when that is gone, or for another reason.
Request ==
    /\ sup = "protocol" /\ toSup # <<>> /\ toSup' = Tail(toSup)
    /\ LET byte == Head(toSup)
           expected == <<byte, state>> \in {<<"S", 1>>, <<"sig", 3>>}
       IN  \/ /\ expected /\ state' = (IF byte = "S" THEN 2 ELSE state)
              /\ toInit' = Append(toInit, byte) /\ UNCHANGED <<sup, result, surprise, faults>>
           \/ /\ expected /\ state' = (IF byte = "S" THEN 2 ELSE state)
              /\ IF init = "gone" THEN UNCHANGED faults ELSE Fault
              /\ sup' = "kill" /\ result' = fail /\ UNCHANGED <<toInit, surprise>>
           \/ /\ ~expected /\ sup' = "kill" /\ result' = fail /\ surprise' = TRUE
              /\ UNCHANGED <<state, toInit, faults>>
    /\ UNCHANGED <<owner, toOwner, fromInit, init, image, life, cg, disk, terminal, signals>>

\* A report of the contained init: R needs proof of membership, X ends the
\* protocol and is not passed on yet.  The owner's end closes with the owner,
\* whose death ends the supervisor as well (OwnerDies).
Report ==
    /\ sup = "protocol" /\ fromInit # <<>> /\ fromInit' = Tail(fromInit)
    /\ \/ /\ Head(fromInit) = "R" /\ state = 0 /\ live("bwrap")
          /\ state' = 1 /\ toOwner' = Append(toOwner, "R") /\ UNCHANGED <<sup, result, surprise>>
       \/ /\ Head(fromInit) = "R" /\ state = 0 /\ ~live("bwrap")
          /\ sup' = "kill" /\ result' = fail /\ UNCHANGED <<state, toOwner, surprise>>
       \/ /\ Head(fromInit) = "E" /\ state = 2
          /\ state' = 3 /\ toOwner' = Append(toOwner, "E") /\ UNCHANGED <<sup, result, surprise>>
       \/ /\ Head(fromInit) = "X" /\ state = 3
          /\ sup' = "kill" /\ result' = [result EXCEPT !.exited = TRUE]
          /\ UNCHANGED <<state, toOwner, surprise>>
       \/ /\ <<Head(fromInit), state>> \notin {<<"R", 0>>, <<"E", 2>>, <<"X", 3>>}
          /\ sup' = "kill" /\ result' = fail /\ surprise' = TRUE /\ UNCHANGED <<state, toOwner>>
    /\ UNCHANGED <<owner, toSup, toInit, init, image, life, cg, disk, terminal, signals, faults>>

\* The other ends of the protocol: the status pipe is at its end, or nothing
\* happened in time before exec.
ProtocolFails ==
    /\ sup = "protocol"
    /\ \/ fromInit = <<>> /\ init = "gone" /\ UNCHANGED faults
       \/ state < 3 /\ Fault
    /\ sup' = "kill" /\ result' = fail
    /\ UNCHANGED <<owner, state, wires, init, image, life, cg, disk, terminal, surprise, signals>>

-----------------------------------------------------------------------------
(* Settlement. *)

\* linuxSettleSession: close the control pipe, write cgroup.kill.
Kill ==
    /\ sup = "kill"
    /\ \/ cg' = [cg EXCEPT !.killed = TRUE] /\ Sup("settle") /\ UNCHANGED <<result, faults>>
       \/ Fault /\ Returns(fail) /\ UNCHANGED cg
    /\ UNCHANGED <<owner, state, wires, init, image, life, disk, terminal, surprise, signals>>

\* The goroutine that waits for Bubblewrap itself.
CmdWait ==
    /\ ~ended /\ life["bwrap"] = "zombie" /\ life' = [life EXCEPT !["bwrap"] = "waited"]
    /\ UNCHANGED <<owner, sup, state, result, wires, init, image, cg, disk, terminal, surprise,
                   signals, faults>>

\* linuxReapChildren, once exec.Cmd has its own child.
Reap ==
    /\ sup = "settle" /\ life["bwrap"] = "waited" /\ \E p \in Tree : life[p] = "zombie"
    /\ life' = [p \in Tree |-> IF life[p] = "zombie" THEN "reaped" ELSE life[p]]
    /\ UNCHANGED <<owner, sup, state, result, wires, init, image, cg, disk, terminal, surprise,
                   signals, faults>>

\* What settles: pidfd death, ECHILD and an unpopulated group.
proven == life["bwrap"] = "waited" /\ \A p \in Tree : life[p] \notin {"live", "zombie"}

\* The settlement loop removes the group, or gives up at its deadline.
Settle ==
    /\ sup = "settle"
    /\ \/ /\ proven /\ cg' = NoGroup
          /\ Returns([result EXCEPT !.settled = TRUE]) /\ UNCHANGED faults
       \/ Fault /\ Returns(fail) /\ UNCHANGED cg
    /\ UNCHANGED <<owner, state, wires, init, image, life, disk, terminal, surprise, signals>>

\* restore: attributes, pending input and the foreground group of the host.
restored == "host"

\* cleanup.finish: the terminal first, then the proof; a failure keeps the
\* quarantine for good, and may come after the rename of the proof.
Finish ==
    /\ sup = "finish" /\ sup' = "report"
    /\ \/ /\ result.settled /\ terminal' = restored /\ proof' = "settled" /\ UNCHANGED <<result, faults>>
       \/ ~result.settled /\ result' = fail /\ UNCHANGED <<terminal, proof, faults>>
       \/ /\ result.settled /\ Fault
          /\ \/ terminal' \in {terminal, restored} /\ UNCHANGED proof
             \/ terminal' = restored /\ proof' = "settled"
          /\ result' = [fail EXCEPT !.settled = FALSE]
    /\ UNCHANGED <<owner, state, wires, init, image, life, cg, binding, protected, surprise, signals>>

\* Mutant: the target's exit is reported although nothing is proven.
FinishSessionEager ==
    /\ sup = "report" /\ Sup("exited")
    /\ toOwner' = IF result.exited THEN Append(toOwner, "X") ELSE toOwner
    /\ UNCHANGED <<owner, state, result, toSup, toInit, fromInit, init, image, life, cg, disk, terminal,
                   surprise, signals, faults>>

\* linuxFinishSession: X only for a settled exit without error; then the
\* supervisor exits and with it the owner's stream ends.
FinishSession ==
    /\ sup = "report" /\ Sup("exited")
    /\ toOwner' = IF ~result.err /\ result.exited /\ result.settled THEN Append(toOwner, "X") ELSE toOwner
    /\ UNCHANGED <<owner, state, result, toSup, toInit, fromInit, init, image, life, cg, disk, terminal,
                   surprise, signals, faults>>

-----------------------------------------------------------------------------
(* The contained side. *)

\* Bubblewrap's init is reaped by Bubblewrap while that lives, else by the
\* subreaper; deeper processes by the contained init or the kernel.
dies(p) == IF p = "bwrap" \/ (p = "init" /\ ~live("bwrap")) THEN "zombie" ELSE "reaped"

Dies(ps) ==
    /\ life' = [p \in Tree |-> IF p \in ps /\ live(p) THEN dies(p) ELSE life[p]]
    /\ init' = IF "init" \in ps THEN "gone" ELSE init

\* The deferred calls of the contained init kill its child.
InitReturns == Dies({"init", "child"})

\* linuxReadTransport: only a sealed, complete and valid transport is used.
ReadTransport ==
    /\ init = "boot" /\ live("init")
    /\ \/ init' = "fork" /\ UNCHANGED <<life, faults>>
       \/ Fault /\ InitReturns
    /\ UNCHANGED <<owner, sup, state, result, wires, image, cg, disk, terminal, surprise, signals>>

\* linuxStartRestrictedTerminal: the child stops behind its gate once every
\* restriction is installed.
StartRestricted ==
    /\ init = "fork" /\ live("init")
    /\ \/ life' = [life EXCEPT !["child"] = "live"] /\ image' = "gated" /\ init' = "ready" /\ UNCHANGED faults
       \/ Fault /\ InitReturns /\ UNCHANGED image
    /\ UNCHANGED <<owner, sup, state, result, wires, cg, disk, terminal, surprise, signals>>

\* linuxRunContainedInit: the child's receipt, then R.
Ready ==
    /\ init = "ready" /\ live("init")
    /\ \/ init' = "awaitS" /\ fromInit' = Append(fromInit, "R") /\ UNCHANGED <<life, faults>>
       \/ Fault /\ InitReturns /\ UNCHANGED fromInit
    /\ UNCHANGED <<owner, sup, state, result, toSup, toOwner, toInit, image, cg, disk, terminal, surprise, signals>>

\* S opens the gate; anything else ends the init.
Authorize ==
    /\ init = "awaitS" /\ live("init") /\ toInit # <<>> /\ toInit' = Tail(toInit)
    /\ IF Head(toInit) = "S" THEN init' = "exec" /\ UNCHANGED <<life, surprise>>
       ELSE InitReturns /\ surprise' = TRUE
    /\ UNCHANGED <<owner, sup, state, result, toSup, toOwner, fromInit, image, cg, disk, terminal,
                   signals, faults>>

\* The restricted child passes the gate and executes the target; the closed
\* status pipe is the receipt for E.
Exec ==
    /\ init = "exec" /\ live("init") /\ live("child")
    /\ \/ image' = "target" /\ init' = "run" /\ fromInit' = Append(fromInit, "E") /\ UNCHANGED <<life, faults>>
       \/ Fault /\ InitReturns /\ UNCHANGED <<image, fromInit>>
    /\ UNCHANGED <<owner, sup, state, result, toSup, toOwner, toInit, cg, disk, terminal, surprise, signals>>

\* A forwarded signal or resize.
Forward ==
    /\ init = "run" /\ live("init") /\ toInit # <<>> /\ toInit' = Tail(toInit)
    /\ IF Head(toInit) = "sig" THEN UNCHANGED <<life, init, surprise>>
       ELSE InitReturns /\ surprise' = TRUE
    /\ UNCHANGED <<owner, sup, state, result, toSup, toOwner, fromInit, image, cg, disk, terminal,
                   signals, faults>>

\* drain: a descendant that keeps the private terminal open makes it time out.
drains == ~(terminal = "raw" /\ live("orphan"))

\* The target ended: drain the terminal, report X.
Exited ==
    /\ init = "run" /\ live("init") /\ ~live("child")
    /\ \/ fromInit' = Append(fromInit, "X") /\ UNCHANGED faults
       \/ ~drains /\ UNCHANGED <<fromInit, faults>>
       \/ Fault /\ UNCHANGED fromInit
    /\ InitReturns
    /\ UNCHANGED <<owner, sup, state, result, toSup, toOwner, toInit, image, cg, disk, terminal,
                   surprise, signals>>

\* The end of the control pipe, a child that died at its gate, or the timeout
\* ends the init.
InitLost ==
    /\ live("init") /\ init \in {"awaitS", "exec", "run"}
    /\ \/ sup # "protocol" /\ toInit = <<>> /\ UNCHANGED faults
       \/ init \in {"awaitS", "exec"} /\ ~live("child") /\ UNCHANGED faults
       \/ init \in {"awaitS", "exec"} /\ Fault
    /\ InitReturns
    /\ UNCHANGED <<owner, sup, state, result, wires, image, cg, disk, terminal, surprise, signals>>

\* The target leaves a descendant behind, or ends.
Forks ==
    /\ image = "target" /\ live("child") /\ life["orphan"] = "none"
    /\ life' = [life EXCEPT !["orphan"] = "live"]
    /\ UNCHANGED <<owner, sup, state, result, wires, init, image, cg, disk, terminal, surprise,
                   signals, faults>>
TargetEnds ==
    /\ image = "target" /\ live("child") /\ Dies({"child"})
    /\ UNCHANGED <<owner, sup, state, result, wires, image, cg, disk, terminal, surprise, signals, faults>>

\* The kernel: cgroup.kill, and the end of Bubblewrap with its init.
KernelKills(p) ==
    /\ cg.killed /\ live(p) /\ Dies({p})
    /\ UNCHANGED <<owner, sup, state, result, wires, image, cg, disk, terminal, surprise, signals, faults>>
BwrapExits ==
    /\ live("bwrap") /\ ~live("init") /\ Dies({"bwrap"})
    /\ UNCHANGED <<owner, sup, state, result, wires, image, cg, disk, terminal, surprise, signals, faults>>

\* Mutant: without a PID namespace of their own descendants live on.
NamespaceShared(p) == p = "init" /\ life["bwrap"] \notin {"none", "live"} /\ live(p) /\ Dies({p})
    /\ UNCHANGED <<owner, sup, state, result, wires, image, cg, disk, terminal, surprise, signals, faults>>

\* --unshare-pid: the namespace ends with Bubblewrap.
NamespaceEnds(p) ==
    /\ life["bwrap"] \notin {"none", "live"} /\ p # "bwrap" /\ live(p) /\ Dies({p})
    /\ UNCHANGED <<owner, sup, state, result, wires, image, cg, disk, terminal, surprise, signals, faults>>

\* --die-with-parent.
DieWithParent ==
    /\ ended /\ live("bwrap") /\ Dies({"bwrap"})
    /\ UNCHANGED <<owner, sup, state, result, wires, image, cg, disk, terminal, surprise, signals, faults>>

-----------------------------------------------------------------------------
Init ==
    /\ owner = "new" /\ sup = "off" /\ state = 0
    /\ result = [exited |-> FALSE, settled |-> FALSE, err |-> FALSE]
    /\ toSup = <<>> /\ toOwner = <<>> /\ toInit = <<>> /\ fromInit = <<>>
    /\ init = "off" /\ image = "none" /\ life = [p \in Tree |-> "none"]
    /\ cg = NoGroup
    /\ proof = "legacy" /\ binding = "none" /\ protected \in BOOLEAN
    /\ terminal = "host" /\ surprise = FALSE /\ signals = 0 /\ faults = 0

OwnerStep == OwnerReady \/ OwnerExec \/ StartFails \/ Wait
SupStep ==
    \/ Load \/ Protect \/ WriteBinding \/ Revoke \/ RunRecipe \/ PrepareBwrap \/ AllocateProbe
    \/ KillPreflight \/ AllocateSession \/ BindCgroup \/ Spawn \/ Request \/ Report \/ ProtocolFails \/ Kill \/ Reap \/ Settle \/ Finish \/ FinishSession
InitStep == ReadTransport \/ StartRestricted \/ Ready \/ Authorize \/ Exec \/ Forward \/ Exited \/ InitLost
KernelStep == BwrapExits \/ DieWithParent \/ \E p \in Tree : KernelKills(p) \/ NamespaceEnds(p)

Next == Prepare \/ Start \/ OwnerStep \/ Signal \/ OwnerDies \/ SupStep \/ CmdWait \/ InitStep \/ Forks
        \/ TargetEnds \/ KernelStep

Spec == Init /\ [][Next]_vars

\* Every process that runs is scheduled and the kernel delivers what was
\* asked of it; nothing is assumed of the target.
Fairness ==
    /\ WF_vars(OwnerStep) /\ WF_vars(SupStep) /\ WF_vars(CmdWait) /\ WF_vars(InitStep)
    /\ WF_vars(KernelStep)

LiveSpec == Spec /\ Fairness

-----------------------------------------------------------------------------
(* Properties. *)

\* The state has its type; in particular the pipes never hold more frames than
\* the protocol of linuxSessionProtocol can have in flight.
TypeOK ==
    /\ owner \in {"new", "refused", "prepared", "awaitR", "awaitE", "running", "done", "unproven", "dead"}
    /\ sup \in {"off", "load", "protect", "binding", "revoke", "recipe", "bwrap", "probe", "preflight", "group", "bind", "spawn",
                "protocol", "kill", "settle", "finish", "report", "exited", "killed"}
    /\ state \in 0..3 /\ result \in [exited : BOOLEAN, settled : BOOLEAN, err : BOOLEAN]
    /\ \A w \in {toSup, toInit} : w \in Seq({"S", "sig"}) /\ Len(w) <= MaxSignals + 1
    /\ \A w \in {toOwner, fromInit} : w \in Seq({"R", "E", "X"}) /\ Len(w) <= 2
    /\ init \in {"off", "boot", "fork", "ready", "awaitS", "exec", "run", "gone"} /\ image \in {"none", "gated", "target"}
    /\ life \in [Tree -> {"none", "live", "zombie", "waited", "reaped"}]
    /\ cg \in [st : {"none", "open", "left"}, killed : BOOLEAN]
    /\ proof \in {"legacy", "none", "settled"} /\ binding \in {"none", "generation", "cgroup"}
    /\ protected \in BOOLEAN /\ terminal \in {"host", "raw"} /\ surprise \in BOOLEAN
    /\ signals \in 0..MaxSignals /\ faults \in 0..MaxFaults

\* A published proof means what recovery takes it for: nothing of the Session
\* runs, its cgroup is gone and the terminal belongs to the host again.
ProofMeansEmpty ==
    proof = "settled" => NoneLive /\ cg = NoGroup /\ terminal = "host"

\* The owner regards cleanup as done only when the proof is durable, so that a
\* removal it starts next can never race a process of the Session.
DoneMeansProven == owner = "done" => proof = "settled"

\* Whatever dies at which step: while anything of the Session runs there is no
\* proof on disk that a recovery would accept, and the Session is protected.
RunningIsQuarantined ==
    ~NoneLive => proof = "none" /\ binding = "cgroup" /\ protected

\* The proof on disk and the owner's view of it are right at every step at which
\* ACS or its supervisor can die: settled means empty, and running means no
\* proof (Finish, Revoke, FinishSession).
ProofIsHonest == TypeOK /\ ProofMeansEmpty /\ DoneMeansProven /\ RunningIsQuarantined

\* The target executes only after the owner has read R and answered S.
TargetIsAuthorized == image = "target" => owner # "awaitR" /\ state >= 2

\* Nothing is ever started in a group whose kill control was used before
\* (cgroup_linux.go: never reuse a killed group).
FreshCgroup == sup = "protocol" => ~cg.killed

\* The exit status of Bubblewrap is collected by exec.Cmd and never stolen by
\* the reaping of descendants.
StatusNotStolen == life["bwrap"] # "reaped"

\* No interleaving of signals, start-up and exit makes the two ends of a pipe
\* disagree about the protocol.
NoUnexpectedByte == ~surprise

\* Owner, supervisor and init agree on where the protocol stands, so that the
\* target runs only when authorised, in a group nobody has killed, and its
\* status reaches the one who waits for it (the session protocol of
\* supervisor_linux_amd64.go).
ProtocolHolds == TargetIsAuthorized /\ FreshCgroup /\ StatusNotStolen /\ NoUnexpectedByte

\* Once the supervisor has ended, however it ended, the tree ends.
TreeDies == ended ~> NoneLive

\* The owner is not left waiting: when the supervisor has ended, or the target
\* has, Wait returns.
WaitReturns ==
    (owner = "running" /\ (ended \/ (image = "target" /\ ~live("child")))) ~> owner # "running"

\* Nothing is left behind or left waiting: the tree ends with its supervisor and
\* the owner's Wait returns (NamespaceEnds, Wait).
TreeEnds == TreeDies /\ WaitReturns

=============================================================================
