-------------------------- MODULE DarwinSupervisor --------------------------
(***************************************************************************)
(* One contained process on macOS (internal/launch, Seatbelt): ACS as the  *)
(* owner, the supervisor that runs inside the sandbox policy of the target *)
(* (the status proxy between them only carries the exit status), and the   *)
(* processes of the Session.  macOS has no pidfd and no cgroup: both sides *)
(* settle the tree by passes over process-table snapshots, the supervisor  *)
(* over what it may signal, the owner over what answers to the Session's   *)
(* policy name, and the supervisor's proof is confirmed by the owner's     *)
(* own settlement.                                                         *)
(*                                                                         *)
(* Abstractions.  A process entry that is gone and a zombie are both       *)
(* "free".  A process identity (start time) is a generation of its PID.    *)
(* The last revalidation of an identity and the kill that follows it are   *)
(* two steps: a process can end, and its PID be taken, in between.         *)
(*                                                                         *)
(* Ghost state, read by no action: "raced" holds the PIDs an unrelated     *)
(* process took between the two; a settlement's "forked" says that a member*)
(* was born or woken behind the snapshot of its pass, "missed" how many    *)
(* quiet passes in a row that, or a failed query, kept from seeing them all*)
(***************************************************************************)
EXTENDS Naturals, Sequences, FiniteSets

CONSTANTS
    Pids,           \* process identifiers; 0 is the supervisor, 1 the target
    MaxForks,       \* bound: forks and SIGCONTs of the target's processes
    MaxHosts,       \* bound: unrelated processes that take a free PID
    MaxFaults       \* bound: failing calls and queries, deadlines, the death of ACS

ASSUME PidsAssumption == {0, 1} \subseteq Pids /\ Pids \subseteq Nat
ASSUME BoundsAssumption == {MaxForks, MaxHosts, MaxFaults} \subseteq Nat

VARIABLES
    owner,      \* seatbeltProcess: the step ACS is at
    cancelled,  \* the context is done
    verified,   \* sessionIdentityVerified
    control,    \* the owner's end of the control socket
    toSup, toOwner,     \* what the socket holds
    sup,        \* runSeatbeltSupervisor's next step
    started,    \* the target was started
    proc,       \* the process table
    settling,   \* settleSeatbeltInstance of the owner and of the supervisor
    proof,      \* the cleanup proof file
    answer,     \* the proof the owner has read
    forks, hosts, raced, faults

wire == <<control, toSup, toOwner>>
ownerVars == <<owner, cancelled, verified, answer>>
supVars == <<sup, started>>
count == <<forks, hosts, raced, faults>>
vars == <<ownerVars, wire, supVars, proc, settling, proof, count>>

Fault == faults < MaxFaults /\ faults' = faults + 1 /\ UNCHANGED <<forks, hosts, raced>>
Free == [st |-> "free", kind |-> "member", gen |-> 0]
alive(p) == proc[p].st # "free"
member(p) == alive(p) /\ proc[p].kind = "member"
targets == {p \in Pids \ {0} : member(p)}
supLive == proc[0].st = "running"
killed(e) == IF e.st = "free" THEN e ELSE [e EXCEPT !.st = "dying"]
takes(p, kind) == [proc EXCEPT ![p] = [st |-> "running", kind |-> kind, gen |-> @.gen + 1]]
gone(p) == [proc EXCEPT ![p].st = "free"]
supOver == sup = "exited" \/ (sup # "off" /\ ~alive(0))

-----------------------------------------------------------------------------
(* settleSeatbeltInstance, for w = "sup" or "owner". *)

Idle == [at |-> "idle", phase |-> "stop", todo |-> {}, hit |-> FALSE, stable |-> 0, pid |-> 0, gen |-> 0,
         unsure |-> FALSE, forked |-> FALSE, missed |-> 0]
\* settleSession and the supervisor start a settlement.
begins(w) == settling' = [settling EXCEPT ![w] = [Idle EXCEPT !.at = "snap"]]
runs(w) == IF w = "sup" THEN supLive /\ sup = "settle" ELSE owner \in {"settle", "failSettle"}
\* settleSeatbeltInstance returned; the ghosts of one that succeeded are kept.
ends(w) == settling' = [settling EXCEPT ![w] = IF @.at \in {"ok", "idle"} THEN [@ EXCEPT !.at = "idle"] ELSE Idle]
\* A member was born, or woken, behind a snapshot that is being visited.
renewed == [w \in {"owner", "sup"} |-> IF settling[w].at \in {"visit", "act", "send"}
                THEN [settling[w] EXCEPT !.forked = TRUE] ELSE settling[w]]
frame == <<ownerVars, wire, supVars, proof>>

\* A quiet pass proves nothing about a member that its snapshot does not hold.
newPass(s) == [s EXCEPT !.at = "snap", !.todo = {}, !.hit = FALSE, !.pid = 0, !.gen = 0, !.forked = FALSE]
quietPass(s) == [newPass(s) EXCEPT !.missed = IF s.forked \/ s.unsure THEN s.missed + 1 ELSE 0]

\* Mutant: one quiet stop pass is enough.
passedOnce(s, hit) ==
    CASE s.phase = "stop" /\ hit  -> [newPass(s) EXCEPT !.stable = 0, !.missed = 0]
      [] s.phase = "stop" /\ ~hit -> [quietPass(s) EXCEPT !.stable = 2, !.phase = "kill"]
      [] s.phase = "kill" /\ hit  -> newPass(s)
      [] OTHER                    -> [quietPass(s) EXCEPT !.at = "ok"]

\* The end of a pass: two quiet stop passes, then kill passes until one finds
\* nothing live.  An unstable view counts as a change.
passed(s, hit) ==
    CASE s.phase = "stop" /\ hit  -> [newPass(s) EXCEPT !.stable = 0, !.missed = 0]
      [] s.phase = "stop" /\ ~hit -> [quietPass(s) EXCEPT !.stable = IF s.stable = 1 THEN 2 ELSE 1,
                                         !.phase = IF s.stable = 1 THEN "kill" ELSE "stop"]
      [] s.phase = "kill" /\ hit  -> newPass(s)
      [] OTHER                    -> [quietPass(s) EXCEPT !.at = "ok"]

\* A pass goes on while its snapshot has entries left.
goOn(s) == IF s.todo = {} THEN passed(s, s.hit) ELSE s

\* allPIDs: the supervisor sees every process but itself, the owner those the
\* policy query identifies.  Queries that fail are passed over while there is
\* a member to settle, and are an error when there is none.
allPIDs(w) ==
    LET s == settling[w] IN
    /\ runs(w) /\ s.at = "snap"
    /\ \/ /\ settling' = [settling EXCEPT ![w] = goOn([s EXCEPT !.at = "visit", !.unsure = FALSE,
                              !.todo = IF w = "sup" THEN {p \in Pids \ {0} : alive(p)} ELSE {p \in Pids : member(p)}])]
          /\ UNCHANGED count
       \/ /\ w = "owner" /\ Fault /\ \E q \in Pids : alive(q) /\ {p \in Pids \ {q} : member(p)} = {}
          /\ settling' = [settling EXCEPT ![w] = [s EXCEPT !.at = "err"]]
       \/ /\ w = "owner" /\ Fault
          /\ \E q \in Pids :
                LET found == {p \in Pids \ {q} : member(p)} IN
                /\ alive(q) /\ found # {}
                /\ settling' = [settling EXCEPT ![w] = [s EXCEPT !.at = "visit", !.todo = found, !.unsure = TRUE]]
    /\ UNCHANGED <<frame, proc>>

\* visitLiveSeatbeltTargets: one entry of the snapshot.
visitEntry(w) ==
    LET s == settling[w] IN
    /\ runs(w) /\ s.at = "visit" /\ s.todo # {}
    /\ \E p \in s.todo :
        LET rest == [s EXCEPT !.todo = @ \ {p}]
            acts == [rest EXCEPT !.at = "act", !.pid = p, !.gen = proc[p].gen, !.hit = @ \/ s.phase = "kill"] IN
        \/ /\ member(p) /\ UNCHANGED count
           /\ settling' = [settling EXCEPT ![w] =
                  IF s.phase = "stop" /\ proc[p].st = "stopped" THEN goOn(rest) ELSE acts]
        \/ /\ ~alive(p) \/ (w = "sup" /\ ~member(p) /\ p # 1)      \* ESRCH, zombie, EPERM
           /\ settling' = [settling EXCEPT ![w] = goOn(rest)] /\ UNCHANGED count
        \/ /\ w = "sup" /\ alive(p) /\ ~member(p) /\ UNCHANGED count  \* EPERM for a recorded PID
           /\ settling' = [settling EXCEPT ![w] = [s EXCEPT !.at = "err"]]
        \/ /\ w = "owner" /\ alive(p) /\ ~member(p) /\ UNCHANGED count    \* the PID was reused
           /\ \/ settling' = [settling EXCEPT ![w] = passed(s, TRUE)]
              \/ settling' = [settling EXCEPT ![w] = [s EXCEPT !.at = "err"]]
        \/ /\ alive(p) /\ Fault                             \* unstable entry, or ambiguous credentials
           /\ \/ settling' = [settling EXCEPT ![w] = passed(s, TRUE)]
              \/ settling' = [settling EXCEPT ![w] = [s EXCEPT !.at = "err"]]
    /\ UNCHANGED <<frame, proc>>

\* Mutant: the PID is signalled without revalidating its identity.
sameIdentityUnchecked(w) ==
    LET s == settling[w] IN
    /\ runs(w) /\ s.at = "act"
    /\ settling' = [settling EXCEPT ![w] = [s EXCEPT !.at = "send"]]
    /\ UNCHANGED <<frame, proc, count>>

\* sameSeatbeltProcessIdentity: nothing there, another process of the Session
\* or a view that cannot be read is not signalled.
sameIdentity(w) ==
    LET s == settling[w]
        rest == [s EXCEPT !.at = "visit", !.pid = 0, !.gen = 0] IN
    /\ runs(w) /\ s.at = "act"
    /\ \/ /\ proc[s.pid].kind = "member" /\ proc[s.pid].gen = s.gen
          /\ settling' = [settling EXCEPT ![w] = [s EXCEPT !.at = "send"]] /\ UNCHANGED count
       \/ /\ ~alive(s.pid) \/ (member(s.pid) /\ proc[s.pid].gen # s.gen)
          /\ settling' = [settling EXCEPT ![w] = goOn(rest)] /\ UNCHANGED count
       \/ /\ alive(s.pid) /\ IF member(s.pid) THEN Fault ELSE UNCHANGED count
          /\ settling' = [settling EXCEPT ![w] = passed(s, TRUE)]
    /\ UNCHANGED <<frame, proc>>

\* SIGSTOP (stopSeatbeltPass) or SIGKILL (killSeatbeltPass), to whatever has
\* the PID by now: the sandbox lets the supervisor signal members only, ACS may
\* signal every process of its user.
signal(w) ==
    LET s == settling[w]
        rest == [s EXCEPT !.at = "visit", !.pid = 0, !.gen = 0] IN
    /\ runs(w) /\ s.at = "send"
    /\ \/ /\ ~alive(s.pid)                                 \* ESRCH, or a zombie
          /\ \E hit \in {s.hit, TRUE} : settling' = [settling EXCEPT ![w] = goOn([rest EXCEPT !.hit = hit])]
          /\ UNCHANGED proc
       \/ /\ member(s.pid) \/ (w = "owner" /\ alive(s.pid))
          /\ settling' = [settling EXCEPT ![w] = goOn([rest EXCEPT !.hit = TRUE])]
          /\ proc' = [proc EXCEPT ![s.pid].st =
                          IF @ = "dying" \/ s.phase = "kill" THEN "dying" ELSE "stopped"]
       \/ /\ alive(s.pid) /\ ~member(s.pid)                 \* authorization failed
          /\ settling' = [settling EXCEPT ![w] = [s EXCEPT !.at = "err"]] /\ UNCHANGED proc
    /\ UNCHANGED <<frame, count>>

\* The fixed cleanup deadline.
Deadline(w) ==
    /\ runs(w) /\ settling[w].at = "snap" /\ Fault
    /\ settling' = [settling EXCEPT ![w] = [@ EXCEPT !.at = "err"]]
    /\ UNCHANGED <<frame, proc>>

Settling(w) == allPIDs(w) \/ visitEntry(w) \/ sameIdentity(w) \/ signal(w) \/ Deadline(w)

-----------------------------------------------------------------------------
(* The owner. *)

\* Start: the proxy and through it the supervisor, and the challenge.
Start ==
    /\ owner = "prepared"
    /\ \/ /\ owner' = "awaitR" /\ sup' = "challenge" /\ proc' = takes(0, "member")
          /\ toSup' = <<"C">> /\ UNCHANGED <<control, count>>
       \/ Fault /\ owner' = "startFailed" /\ control' = "closed" /\ UNCHANGED <<sup, proc, toSup>>
    /\ UNCHANGED <<cancelled, verified, answer, toOwner, started, settling, proof>>

\* AbortPrepared.
AbortPrepared ==
    /\ owner = "prepared" /\ owner' = "aborted" /\ control' = "closed"
    /\ UNCHANGED <<cancelled, verified, answer, toSup, toOwner, supVars, proc, settling, proof, count>>

\* startSupervisor: R, then verifySessionIdentity, then environment and start.
startSupervisor ==
    /\ owner = "awaitR" /\ toOwner # <<>> /\ Head(toOwner) = "R" /\ control = "open"
    /\ supLive /\ verified' = TRUE
    /\ toOwner' = Tail(toOwner) /\ toSup' = Append(toSup, "G") /\ owner' = "sent"
    /\ UNCHANGED <<cancelled, answer, control, supVars, proc, settling, proof, count>>

\* supervisorStarted.Store: from here on cancellation goes through the control.
supervisorStarted ==
    /\ owner = "sent" /\ owner' = "running"
    /\ UNCHANGED <<cancelled, verified, answer, wire, supVars, proc, settling, proof, count>>

\* Any failure of startSupervisor: settle if the identity was verified, kill
\* the group of the proxy.
startSupervisorFails ==
    /\ owner \in {"awaitR", "sent"}
    /\ \/ owner = "awaitR" /\ (supOver \/ control = "closed") /\ UNCHANGED count
       \/ Fault
    /\ control' = "closed"
    /\ verified' \in {verified} \cup (IF toOwner # <<>> /\ supLive THEN {TRUE} ELSE {})
    /\ IF verified' THEN owner' = "failSettle" /\ proof' = "none" /\ begins("owner") /\ UNCHANGED proc
       ELSE owner' = "quarantine" /\ proc' = [proc EXCEPT ![0] = killed(@)] /\ UNCHANGED <<proof, settling>>
    /\ UNCHANGED <<cancelled, answer, toSup, toOwner, supVars>>

\* Start, after a failed handshake: done only when the Session was settled and
\* the direct child was awaited.
startSettled ==
    /\ owner = "failSettle"
    /\ \/ settling["owner"].at = "ok" /\ owner' = "recovered" /\ proof' = "settled" /\ UNCHANGED count
       \/ settling["owner"].at = "ok" /\ Fault /\ owner' = "quarantine" /\ proof' \in {proof, "settled"}
       \/ settling["owner"].at = "err" /\ owner' = "quarantine" /\ UNCHANGED <<proof, count>>
    /\ proc' = [proc EXCEPT ![0] = killed(@)]
    /\ ends("owner")
    /\ UNCHANGED <<cancelled, verified, answer, wire, supVars>>

\* Signal: one packet on the control.
Signal ==
    /\ owner = "running" /\ control = "open" /\ toSup = <<>> /\ toSup' = Append(toSup, "sig")
    /\ UNCHANGED <<ownerVars, control, toOwner, supVars, proc, settling, proof, count>>

\* cancel: before supervisorStarted the group of the proxy is killed, later the
\* supervisor is told to kill the target.
cancel ==
    /\ owner \in {"awaitR", "sent", "running"} /\ ~cancelled /\ cancelled' = TRUE
    /\ IF owner = "running"
       THEN toSup' = (IF control = "open" THEN Append(toSup, "KILL") ELSE toSup) /\ UNCHANGED <<control, proc>>
       ELSE control' = "closed" /\ proc' = [proc EXCEPT ![0] = killed(@)] /\ UNCHANGED toSup
    /\ UNCHANGED <<owner, verified, answer, toOwner, supVars, settling, proof, count>>

\* readCleanupProof: everything up to the end of the stream; after cancellation
\* only for a while.  Then settleSession, which clears the proof first.
readCleanupProof ==
    /\ owner = "running"
    /\ \/ supOver /\ answer' = (IF toOwner = <<>> \/ control = "closed" THEN "bad" ELSE Head(toOwner)) /\ UNCHANGED control
       \/ cancelled /\ answer' = "bad" /\ control' = "closed"
       \/ control = "closed" /\ answer' = "bad" /\ UNCHANGED control
    /\ owner' = "settle" /\ proof' = "none" /\ begins("owner")
    /\ UNCHANGED <<cancelled, verified, toSup, toOwner, supVars, proc, count>>

\* validateSeatbeltCleanupProof: only this launch's proofs are accepted.
proofAccepted == answer \in {"proof", "noTarget"}

\* waitForSupervisorProof: done with the target's status when proof and own
\* settlement agree, recovered when only the settlement succeeded.
waitForSupervisorProof ==
    /\ owner = "settle" /\ settling["owner"].at \in {"ok", "err"} /\ ends("owner")
    /\ \/ /\ settling["owner"].at = "ok" /\ proof' = "settled" /\ UNCHANGED count
          /\ owner' = IF proofAccepted THEN "done" ELSE "recovered"
       \/ settling["owner"].at = "ok" /\ Fault /\ owner' = "quarantine" /\ proof' \in {proof, "settled"}
       \/ settling["owner"].at = "err" /\ owner' = "quarantine" /\ UNCHANGED <<proof, count>>
    /\ UNCHANGED <<cancelled, verified, answer, wire, supVars, proc>>

\* ACS itself dies; its end of the socket closes.
OwnerDies ==
    /\ owner \in {"awaitR", "sent", "running", "settle", "failSettle"} /\ Fault
    /\ owner' = "dead" /\ control' = "closed" /\ ends("owner")
    /\ proof' \in {proof} \cup (IF settling["owner"].at = "ok" THEN {"settled"} ELSE {})
    /\ UNCHANGED <<cancelled, verified, answer, toSup, toOwner, supVars, proc>>

-----------------------------------------------------------------------------
(* The supervisor. *)

Sup(s) == sup' = s /\ supLive
Leaves == sup' = "exited" /\ supLive /\ proc' = gone(0)
next(b) == toSup # <<>> /\ Head(toSup) = b /\ toSup' = Tail(toSup)
ended == toSup = <<>> /\ control = "closed"

\* The challenge, then clearSessionCleanupProof, before anything else.
clearProof ==
    /\ sup = "challenge"
    /\ \/ next("C") /\ Sup("ready") /\ proof' = "none" /\ UNCHANGED <<proc, count>>
       \/ next("C") /\ Fault /\ Leaves /\ proof' \in {proof, "none"}
       \/ ended /\ Leaves /\ UNCHANGED <<toSup, proof, count>>
    /\ UNCHANGED <<ownerVars, control, toOwner, started, settling>>

\* R tells the owner to check the policy identity.
ready ==
    /\ sup = "ready" /\ Sup("start") /\ toOwner' = Append(toOwner, "R")
    /\ UNCHANGED <<ownerVars, control, toSup, started, proc, settling, proof, count>>

\* seatbeltNoTargetFailure: the no-target proof, on disk and to the owner.
seatbeltNoTargetFailure ==
    /\ sup = "noTarget" /\ Leaves
    /\ \/ proof' = "settled" /\ toOwner' = Append(toOwner, "noTarget") /\ UNCHANGED count
       \/ Fault /\ proof' \in {proof, "settled"} /\ UNCHANGED toOwner
    /\ UNCHANGED <<ownerVars, control, toSup, started, settling>>

\* Environment frame and start byte.
readStart ==
    /\ sup = "start"
    /\ \/ next("G") /\ Sup("seal") /\ UNCHANGED count
       \/ ended /\ Sup("noTarget") /\ UNCHANGED <<toSup, count>>
       \/ next("G") /\ Sup("noTarget") /\ Fault
    /\ UNCHANGED <<ownerVars, control, toOwner, started, proc, settling, proof>>

\* sealSeatbeltTargetDescriptors: three snapshots must agree within eight attempts.
sealDescriptors ==
    /\ sup = "seal"
    /\ \/ Sup("spawn") /\ UNCHANGED count
       \/ Sup("noTarget") /\ Fault
    /\ UNCHANGED <<ownerVars, wire, started, proc, settling, proof>>

\* command.Start of the target in a group of its own.
startTarget ==
    /\ sup = "spawn"
    /\ \/ Sup("wait") /\ started' = TRUE /\ proc' = takes(1, "member") /\ settling' = renewed
          /\ UNCHANGED count
       \/ Sup("noTarget") /\ Fault /\ UNCHANGED <<started, proc, settling>>
    /\ ~alive(1)
    /\ UNCHANGED <<ownerVars, wire, proof>>

\* Mutant: the end of the control is ignored.
forwardSeatbeltControlDeaf ==
    /\ sup \in {"wait", "settle", "record", "report"} /\ supLive
    /\ toSup # <<>> /\ toSup' = Tail(toSup)
    /\ IF Head(toSup) = "KILL" THEN \E s \in SUBSET targets : proc' = [p \in Pids |-> IF p \in s \cup (targets \cap {1}) THEN killed(proc[p]) ELSE proc[p]]
       ELSE UNCHANGED proc
    /\ UNCHANGED <<ownerVars, control, toOwner, supVars, settling, proof, count>>

\* forwardSeatbeltControl: signals for the target's group; the end of the
\* stream kills it.  Descendants may have left the group.
forwardSeatbeltControl ==
    /\ sup \in {"wait", "settle", "record", "report"} /\ supLive
    /\ \/ next("sig") /\ UNCHANGED proc
       \/ /\ \/ next("KILL")
             \/ ended /\ UNCHANGED toSup /\ \E p \in targets : proc[p].st # "dying"
          /\ \E s \in SUBSET targets : proc' = [p \in Pids |-> IF p \in s \cup (targets \cap {1}) THEN killed(proc[p]) ELSE proc[p]]
    /\ UNCHANGED <<ownerVars, control, toOwner, supVars, settling, proof, count>>

\* command.Wait; a failed observer ends without a proof.
waitTarget ==
    /\ sup = "wait" /\ ~(member(1) /\ proc[1].gen = 1)
    /\ \/ Sup("settle") /\ begins("sup") /\ UNCHANGED <<proc, count>>
       \/ Leaves /\ UNCHANGED settling /\ Fault
       \/ Leaves /\ UNCHANGED <<settling, count>> /\ \E p \in Pids : alive(p) /\ ~member(p)
    /\ UNCHANGED <<ownerVars, wire, started, proof>>

\* The proof is recorded before it is sent.
recordProof ==
    /\ sup = "settle" /\ settling["sup"].at \in {"ok", "err"} /\ ends("sup")
    /\ \/ settling["sup"].at = "ok" /\ Sup("report") /\ proof' = "settled" /\ UNCHANGED <<proc, count>>
       \/ settling["sup"].at = "ok" /\ Leaves /\ Fault /\ proof' \in {proof, "settled"}
       \/ settling["sup"].at = "err" /\ Leaves /\ UNCHANGED <<proof, count>>
    /\ UNCHANGED <<ownerVars, wire, started>>

reportProof ==
    /\ sup = "report" /\ Leaves
    /\ toOwner' = IF control = "open" THEN Append(toOwner, "proof") ELSE toOwner
    /\ UNCHANGED <<ownerVars, control, toSup, started, settling, proof, count>>

-----------------------------------------------------------------------------
(* The Session's processes, the kernel, and the rest of the host. *)

\* A descendant, or SIGCONT for a stopped process of the same sandbox (the
\* supervisor is one).
Forks(p) ==
    /\ p \in targets /\ proc[p].st = "running" /\ forks < MaxForks /\ forks' = forks + 1
    /\ \/ \E q \in Pids \ {0} : ~alive(q) /\ proc' = takes(q, "member")
       \/ \E q \in Pids : member(q) /\ proc[q].st = "stopped" /\ proc' = [proc EXCEPT ![q].st = "running"]
    /\ settling' = renewed
    /\ UNCHANGED <<ownerVars, wire, supVars, proof, hosts, raced, faults>>
Exits(p) ==
    /\ p \in targets /\ proc[p].st = "running" /\ proc' = gone(p)
    /\ UNCHANGED <<ownerVars, wire, supVars, settling, proof, count>>
\* The supervisor is in the sandbox of the target too.
Kills(p) ==
    /\ p \in targets /\ proc[p].st = "running" /\ member(0) /\ proc' = [proc EXCEPT ![0] = killed(@)]
    /\ UNCHANGED <<ownerVars, wire, supVars, settling, proof, count>>
Dies(p) ==
    /\ alive(p) /\ proc[p].st = "dying" /\ proc' = gone(p)
    /\ UNCHANGED <<ownerVars, wire, supVars, settling, proof, count>>
\* An unrelated process, perhaps just when ACS is about to signal the PID.
HostTakes(p) ==
    /\ p # 0 /\ ~alive(p) /\ proc[p].gen > 0 /\ hosts < MaxHosts /\ hosts' = hosts + 1
    /\ proc' = takes(p, "host")
    /\ raced' = IF settling["owner"].at = "send" /\ settling["owner"].pid = p THEN raced \cup {p} ELSE raced \ {p}
    /\ UNCHANGED <<ownerVars, wire, supVars, settling, proof, forks, faults>>

Init ==
    /\ owner = "prepared" /\ cancelled = FALSE /\ verified = FALSE /\ answer = "none"
    /\ control = "open" /\ toSup = <<>> /\ toOwner = <<>>
    /\ sup = "off" /\ started = FALSE /\ proc = [p \in Pids |-> Free]
    /\ settling = [w \in {"owner", "sup"} |-> Idle]
    /\ proof = "prepared" /\ forks = 0 /\ hosts = 0 /\ raced = {} /\ faults = 0

OwnerStep ==
    \/ startSupervisor \/ supervisorStarted \/ startSupervisorFails \/ startSettled
    \/ readCleanupProof \/ waitForSupervisorProof \/ Settling("owner")
SupStep ==
    \/ clearProof \/ ready \/ readStart \/ sealDescriptors \/ startTarget \/ waitTarget \/ recordProof \/ reportProof
    \/ seatbeltNoTargetFailure \/ Settling("sup")

Next ==
    \/ Start \/ AbortPrepared \/ Signal \/ cancel \/ OwnerDies \/ OwnerStep
    \/ SupStep \/ forwardSeatbeltControl
    \/ \E p \in Pids : Forks(p) \/ Exits(p) \/ Kills(p) \/ Dies(p) \/ HostTakes(p)

Spec == Init /\ [][Next]_vars

\* ACS and the supervisor are scheduled, the forwarder is a goroutine of its
\* own, and a killed process dies.  Nothing is assumed of the target.
Fairness ==
    /\ WF_vars(OwnerStep) /\ WF_vars(SupStep) /\ WF_vars(forwardSeatbeltControl)
    /\ \A p \in Pids : WF_vars(Dies(p))

LiveSpec == Spec /\ Fairness

-----------------------------------------------------------------------------
(* Properties. *)

\* The state has its type; in particular neither direction of the control socket
\* ever holds more than one exchange (startSupervisor, reportProof).
TypeOK ==
    /\ owner \in {"prepared", "aborted", "startFailed", "awaitR", "sent", "running", "failSettle", "settle",
                  "done", "recovered", "quarantine", "dead"}
    /\ cancelled \in BOOLEAN /\ verified \in BOOLEAN /\ answer \in {"none", "bad", "R", "proof", "noTarget"}
    /\ control \in {"open", "closed"}
    /\ toSup \in Seq({"C", "G", "sig", "KILL"}) /\ Len(toSup) <= 3
    /\ toOwner \in Seq({"R", "proof", "noTarget"}) /\ Len(toOwner) <= 2
    /\ sup \in {"off", "challenge", "ready", "start", "noTarget", "seal", "spawn", "wait", "settle", "report", "exited"}
    /\ started \in BOOLEAN /\ proof \in {"prepared", "none", "settled"}
    /\ proc \in [Pids -> [st : {"free", "running", "stopped", "dying"}, kind : {"member", "host"},
                          gen : 0..(MaxForks + MaxHosts + 1)]]
    /\ settling \in [{"owner", "sup"} ->
          [at : {"idle", "snap", "visit", "act", "send", "ok", "err"}, phase : {"stop", "kill"}, todo : SUBSET Pids,
           hit : BOOLEAN, stable : 0..2, pid : Pids, gen : 0..(MaxForks + MaxHosts + 1), unsure : BOOLEAN,
           forked : BOOLEAN, missed : Nat]]
    /\ forks \in 0..MaxForks /\ hosts \in 0..MaxHosts /\ faults \in 0..MaxFaults /\ raced \subseteq Pids

\* A settlement that found the Session empty was outrun: its last snapshot left
\* out a PID whose policy query failed, or its last three quiet passes all missed
\* one: behind each of their snapshots a process was born or woken, or a query of
\* theirs had failed.
outrun(w) == settling[w].at \in {"ok", "idle"} /\ (settling[w].unsure \/ settling[w].missed >= 3)

\* A proof a recovery would accept is never on disk while a process of the
\* target is alive, whichever of the supervisor, ACS or nobody wrote it and
\* however the two settlements interleave, unless one of them was outrun.
ProofMeansEmpty == proof \in {"prepared", "settled"} /\ targets # {} => \E w \in {"owner", "sup"} : outrun(w)

\* ACS lets the Session go only when every process under the Session's policy,
\* the supervisor included, is gone or was sent its last signal, unless its own
\* settlement was outrun.
DoneMeansEmpty ==
    owner \in {"done", "recovered", "aborted", "startFailed"} =>
        outrun("owner") \/ \A p \in Pids : member(p) => proc[p].st = "dying"

\* A process outside of the Session is stopped or killed only if it took the PID
\* of a target between the last look of ACS at that target and the signal; the
\* supervisor never signals one.
HostUntouched == \A p \in Pids \ raced : proc[p].kind = "host" /\ alive(p) => proc[p].st = "running"

\* The target is released only after ACS has proved that its policy query
\* identifies the Session: without it a crashed supervisor's tree could never
\* be settled.
TargetIsIdentified == started => verified

\* A no-target answer is honest.
NoTargetHonest == answer = "noTarget" => ~started

\* A proof, a no-target answer or the release of the Session means what recovery
\* takes it for, whichever of ACS and the supervisor settled the tree and
\* however the two interleaved (settle, waitForSupervisorProof, waitTarget).
ReleaseIsProven ==
    TypeOK /\ ProofMeansEmpty /\ DoneMeansEmpty /\ TargetIsIdentified /\ NoTargetHonest

\* ACS always comes to an end with the process, whatever the supervisor does.
WaitReturns == (owner = "running" /\ (cancelled \/ supOver)) ~> owner \notin {"running", "settle"}

\* When ACS dies the supervisor kills the target and ends by itself, unless ACS
\* had already stopped it in a settlement of its own.
OrphanEnds == (owner = "dead" /\ supLive) ~> supOver

\* Neither side waits for ever for the other: ACS ends when the supervisor does,
\* and the supervisor when ACS dies (readCleanupProof, forwardSeatbeltControl).
SettlementEnds == WaitReturns /\ OrphanEnds

\* seatbelt_session_darwin.go: "never report an empty Session while any policy
\* query is inconclusive" (visitLiveSeatbeltTargets may find the members gone
\* that made allPIDs pass over the query).
EmptyMeansConclusive == settling["owner"].at = "ok" => ~settling["owner"].unsure

\* docs/guides/codex.md: "proof is durably synced only after zero live target
\* processes are established".
SettledMeansEmpty == proof = "settled" => targets = {}

\* seatbelt_supervisor_darwin.go: "Do not signal an identity that could not be
\* revalidated"; the cleanup tests leave an unrelated process alone.
HostsLeftAlone == \A p \in Pids : proc[p].kind = "host" /\ alive(p) => proc[p].st = "running"

=============================================================================
