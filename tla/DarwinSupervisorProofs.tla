----------------------- MODULE DarwinSupervisorProofs -----------------------
(***************************************************************************)
(* Proofs about DarwinSupervisor for any set of PIDs and any number of     *)
(* descendants, reused PIDs and faults: the process table (TableInv), what *)
(* the handshake on the control socket has established before the target   *)
(* runs (HandshakeInv), the books of PIDs, packets and control points      *)
(* (BookInv), and what a settlement that was quiet so far has established  *)
(* about the processes it is about (SettledInv): after a quiet pass behind *)
(* whose snapshot nobody was born nobody runs, so nobody is born any more, *)
(* and the quiet kill pass that ends the settlement has seen everybody.    *)
(***************************************************************************)
EXTENDS DarwinSupervisor, SequenceTheorems, TLAPS

\* The process table: the supervisor's PID is never anybody else's.
Entry == [st : {"free", "running", "stopped", "dying"}, kind : {"member", "host"}, gen : Nat]
TableInv == proc \in [Pids -> Entry] /\ proc[0].kind = "member"

\* The two directions of the control socket, and what has been said on them.
ToSup == {"C", "G", "sig", "KILL"}
ToOwner == {"R", "proof", "noTarget"}
Holds(q, m) == \E i \in 1..Len(q) : q[i] = m
Launching == {"seal", "spawn", "wait", "settle", "report"}
Launched == {"wait", "settle", "report", "exited"}
HandshakeInv ==
    /\ toSup \in Seq(ToSup) /\ toOwner \in Seq(ToOwner)
    /\ answer \in {"none", "bad"} \cup ToOwner
    /\ sup \in Launching \/ started \/ Holds(toSup, "G") => verified
    /\ started => sup \in Launched
    /\ owner = "prepared" => sup = "off"
    /\ Holds(toOwner, "noTarget") \/ answer = "noTarget" => ~started /\ sup = "exited"

-----------------------------------------------------------------------------
(* What a quiet settlement has established. *)

Gens == 0..(MaxForks + MaxHosts + 1)

\* One settlement's record.
Settlement ==
    [at : {"idle", "snap", "visit", "act", "send", "ok", "err"}, phase : {"stop", "kill"}, todo : SUBSET Pids,
     hit : BOOLEAN, stable : 0..2, pid : Pids, gen : Gens, unsure : BOOLEAN, forked : BOOLEAN, missed : Nat]

\* The plain variables have their types.
Scalars ==
    /\ owner \in {"prepared", "aborted", "startFailed", "awaitR", "sent", "running", "failSettle", "settle",
                  "done", "recovered", "quarantine", "dead"}
    /\ cancelled \in BOOLEAN /\ verified \in BOOLEAN /\ started \in BOOLEAN
    /\ control \in {"open", "closed"} /\ proof \in {"prepared", "none", "settled"}
    /\ sup \in {"off", "challenge", "ready", "start", "noTarget", "seal", "spawn", "wait", "settle",
               "report", "exited"}

\* Every generation of a PID was a start, a fork or a process of the host.
Born(p) == IF (p = 1 /\ started) \/ (p = 0 /\ sup # "off") THEN 1 ELSE 0
CountInv ==
    /\ forks \in 0..MaxForks /\ hosts \in 0..MaxHosts /\ faults \in 0..MaxFaults /\ raced \subseteq Pids
    /\ \A p \in Pids : proc[p].gen <= forks + hosts + Born(p)

\* The control socket holds at most the challenge and the start byte, or a signal
\* and the kill; and the ready byte and one answer.
WireInv ==
    /\ Len(toSup) <= 3 /\ (~cancelled => Len(toSup) <= 2)
    /\ owner = "awaitR" => Len(toSup) <= 1
    /\ owner = "prepared" => toSup = <<>>
    /\ Len(toOwner) <= 2
    /\ sup \in {"off", "challenge", "ready"} => toOwner = <<>>
    /\ sup # "exited" => Len(toOwner) <= 1

\* Who settles when, and what there is before the supervisor and before the target.
ControlInv ==
    /\ settling["sup"].at # "idle" => sup = "settle"
    /\ sup \notin {"settle", "report", "exited"} => settling["sup"] = Idle
    /\ settling["owner"].at # "idle" => owner \in {"settle", "failSettle"}
    /\ sup = "off" => \A p \in Pids : proc[p] = Free
    /\ owner \in {"prepared", "aborted", "startFailed"} => sup = "off"
    /\ ~started => \A p \in Pids \ {0} : proc[p] = Free
    /\ owner = "prepared" => proof = "prepared"
    /\ proof = "prepared" /\ alive(0) => sup \in {"off", "challenge"}

BookInv == Scalars /\ settling \in [{"owner", "sup"} -> Settlement] /\ CountInv /\ WireInv /\ ControlInv

\* The processes a settlement is about, those of them that run, and the part of a
\* pass that is still ahead.
Covered(w, P) == {p \in Pids : P[p].st # "free" /\ P[p].kind = "member" /\ (w = "sup" => p # 0)}
Running(w, P) == {p \in Covered(w, P) : P[p].st = "running"}
Pending(s, P) == s.todo \cup {p \in Pids : s.at \in {"act", "send"} /\ p = s.pid /\ P[p].gen = s.gen}
Quiet(s) == s.at \in {"visit", "act", "send"} /\ ~s.hit
Sighted(s) == ~s.forked /\ ~s.unsure

\* What is known of the table P when a settlement is at s.  Once a quiet pass saw
\* every process (missed # stable) none of them runs, so none is born or woken; a quiet pass
\* that sees every process has dealt with all but those still ahead.
PassOf(w, s, P) ==
    /\ s.phase = "kill" <=> s.stable = 2
    /\ w = "sup" => 0 \notin s.todo /\ (s.at \in {"act", "send"} => s.pid # 0)
    /\ s.at \in {"snap", "visit", "act", "send"} =>
           s.missed <= s.stable /\ (s.missed # s.stable => Running(w, P) = {}) /\ (s.forked => s.missed = s.stable)
    /\ Quiet(s) /\ s.phase = "kill" => s.at = "visit"
    /\ Quiet(s) /\ Sighted(s) =>
           IF s.phase = "kill" THEN Covered(w, P) \subseteq s.todo ELSE Running(w, P) \subseteq Pending(s, P)
    /\ s.at = "ok" => s.unsure \/ s.missed >= 3 \/ Covered(w, P) = {}

\* What recovery and the caller take a proof and a release for.
EmptyInv ==
    /\ proof \in {"prepared", "settled"} => targets = {} \/ outrun("sup") \/ outrun("owner")
    /\ proof = "settled" /\ alive(0) => sup = "report" \/ outrun("owner")
    /\ owner \in {"done", "recovered", "aborted", "startFailed"} =>
           outrun("owner") \/ \A p \in Pids : member(p) => proc[p].st = "dying"

\* Whom ACS may be about to signal.
RaceInv ==
    /\ HostUntouched
    /\ settling["owner"].at = "send" /\ alive(settling["owner"].pid) =>
           member(settling["owner"].pid) \/ settling["owner"].pid \in raced

SettledInv ==
    /\ PassOf("sup", settling["sup"], proc) /\ PassOf("owner", settling["owner"], proc)
    /\ EmptyInv /\ RaceInv

-----------------------------------------------------------------------------
\* What the operations of a channel do to what it holds.
LEMMA Sent ==
  ASSUME NEW S, NEW q \in Seq(S), NEW m \in S, NEW x
  PROVE  Append(q, m) \in Seq(S) /\ (Holds(Append(q, m), x) => x = m \/ Holds(q, x))
  BY AppendProperties DEF Holds

LEMMA Received ==
  ASSUME NEW S, NEW q \in Seq(S), q # <<>>, NEW x
  PROVE  /\ Head(q) \in S /\ Tail(q) \in Seq(S) /\ Holds(q, Head(q))
         /\ Holds(Tail(q), x) => Holds(q, x)
<1>1. Len(q) \in Nat \ {0} /\ Head(q) = q[1] /\ Head(q) \in S
  BY HeadTailProperties, EmptySeq, LenProperties
<1>2. /\ Tail(q) \in Seq(S) /\ Len(Tail(q)) = Len(q) - 1
      /\ \A i \in 1..Len(Tail(q)) : Tail(q)[i] = q[i + 1]
  BY <1>1, HeadTailProperties
<1> QED
  BY <1>1, <1>2 DEF Holds

LEMMA SentToSup ==
  ASSUME toSup \in Seq(ToSup), NEW m \in ToSup, toSup' = Append(toSup, m)
  PROVE  toSup' \in Seq(ToSup) /\ (Holds(toSup', "G") => m = "G" \/ Holds(toSup, "G"))
  BY Sent

LEMMA SentToOwner ==
  ASSUME toOwner \in Seq(ToOwner), NEW m \in ToOwner, toOwner' = Append(toOwner, m)
  PROVE  /\ toOwner' \in Seq(ToOwner)
         /\ Holds(toOwner', "noTarget") => m = "noTarget" \/ Holds(toOwner, "noTarget")
  BY Sent

LEMMA ReadBySup ==
  ASSUME toSup \in Seq(ToSup), NEW b, next(b)
  PROVE  /\ toSup' \in Seq(ToSup) /\ (Holds(toSup', "G") => Holds(toSup, "G"))
         /\ b = "G" => Holds(toSup, "G")
  BY Received DEF next

LEMMA Challenge == <<"C">> \in Seq(ToSup) /\ ~Holds(<<"C">>, "G")
  BY DEF ToSup, Holds

\* A process that takes a PID, one that is signalled, one that is gone.
LEMMA Taking ==
  ASSUME TableInv, NEW p \in Pids, NEW k \in {"member", "host"}, p = 0 => k = "member", proc' = takes(p, k)
  PROVE  TableInv'
<1> DEFINE e == [st |-> "running", kind |-> k, gen |-> proc[p].gen + 1]
<1>1. e \in Entry /\ e.kind = k
  BY DEF Entry, TableInv
<1>2. proc' = [proc EXCEPT ![p] = e] /\ proc \in [Pids -> Entry]
  BY DEF takes, TableInv
<1> HIDE DEF e
<1> QED
  BY <1>1, <1>2, PidsAssumption DEF TableInv

LEMMA Striking ==
  ASSUME TableInv, NEW q \in Pids, NEW x \in {"free", "running", "stopped", "dying"}, proc' = [proc EXCEPT ![q].st = x]
  PROVE  TableInv'
<1> DEFINE e == [proc[q] EXCEPT !.st = x]
<1>1. e \in Entry /\ e.kind = proc[q].kind
  BY DEF Entry, TableInv
<1>2. proc' = [proc EXCEPT ![q] = e] /\ proc \in [Pids -> Entry]
  BY DEF TableInv
<1> HIDE DEF e
<1> QED
  BY <1>1, <1>2, PidsAssumption DEF TableInv

LEMMA Killing ==
  ASSUME NEW e \in Entry
  PROVE  killed(e) \in Entry /\ killed(e).kind = e.kind /\ (e.st = "free" => killed(e) = e)
  BY DEF killed, Entry

LEMMA KillingSupervisor == ASSUME TableInv, proc' = [proc EXCEPT ![0] = killed(@)] PROVE TableInv'
<1>1. killed(proc[0]) \in Entry /\ killed(proc[0]).kind = proc[0].kind
  BY Killing, PidsAssumption DEF TableInv
<1>2. proc' = [proc EXCEPT ![0] = killed(proc[0])]
  OBVIOUS
<1> QED
  BY <1>1, <1>2, PidsAssumption DEF TableInv

LEMMA Leaving == ASSUME TableInv, NEW p \in Pids, proc' = gone(p) PROVE TableInv'
  BY Striking DEF gone

\* The end of the control kills targets only.
LEMMA KillingTargets ==
  ASSUME TableInv, NEW s \in SUBSET targets,
         proc' = [p \in Pids |-> IF p \in s \cup (targets \cap {1}) THEN killed(proc[p]) ELSE proc[p]]
  PROVE  TableInv'
<1>1. \A p \in Pids : proc[p] \in Entry
  BY DEF TableInv
<1>2. proc' \in [Pids -> Entry]
  BY <1>1, Killing
<1>3. proc'[0].kind = "member"
  BY <1>1, Killing, PidsAssumption DEF TableInv
<1> QED
  BY <1>2, <1>3 DEF TableInv

\* SIGSTOP and SIGKILL change the state of an entry.
LEMMA Signalling == ASSUME TableInv, NEW w, signal(w) PROVE TableInv'
<1>1. CASE proc' = proc
  BY <1>1 DEF TableInv
<1>2. CASE proc' # proc
  <2> DEFINE x == IF proc[settling[w].pid].st = "dying" \/ settling[w].phase = "kill" THEN "dying" ELSE "stopped"
  <2>1. proc' = [proc EXCEPT ![settling[w].pid].st = x]
    BY <1>2 DEF signal
  <2>2. settling[w].pid \in Pids
    BY <1>2, <2>1 DEF TableInv
  <2>3. x \in {"dying", "stopped"}
    OBVIOUS
  <2> HIDE DEF x
  <2> QED
    BY <2>1, <2>2, <2>3, Striking
<1> QED
  BY <1>1, <1>2

-----------------------------------------------------------------------------
\* The settlements: snapshots and revalidations change no process.
LEMMA allPIDsHolds == ASSUME TableInv, HandshakeInv, NEW w, allPIDs(w) PROVE TableInv' /\ HandshakeInv'
<1>1. TableInv'
  BY DEF allPIDs, frame, TableInv
<1>2. HandshakeInv'
  BY Received DEF allPIDs, frame, ownerVars, wire, supVars, count, Leaves, Sup, HandshakeInv,
     Launching, Launched, ToSup, ToOwner
<1> QED
  BY <1>1, <1>2

LEMMA visitEntryHolds == ASSUME TableInv, HandshakeInv, NEW w, visitEntry(w) PROVE TableInv' /\ HandshakeInv'
<1>1. TableInv'
  BY DEF visitEntry, frame, TableInv
<1>2. HandshakeInv'
  BY Received DEF visitEntry, frame, ownerVars, wire, supVars, HandshakeInv
<1> QED
  BY <1>1, <1>2

LEMMA sameIdentityHolds == ASSUME TableInv, HandshakeInv, NEW w, sameIdentity(w) PROVE TableInv' /\ HandshakeInv'
<1>1. TableInv'
  BY DEF sameIdentity, frame, TableInv
<1>2. HandshakeInv'
  BY Received DEF sameIdentity, frame, ownerVars, wire, supVars, HandshakeInv
<1> QED
  BY <1>1, <1>2

\* The only step of a settlement that signals anybody.
LEMMA signalHolds == ASSUME TableInv, HandshakeInv, NEW w, signal(w) PROVE TableInv' /\ HandshakeInv'
<1>1. TableInv'
  BY Signalling
<1>2. HandshakeInv'
  BY Received DEF signal, frame, ownerVars, wire, supVars, HandshakeInv
<1> QED
  BY <1>1, <1>2

LEMMA DeadlineHolds == ASSUME TableInv, HandshakeInv, NEW w, Deadline(w) PROVE TableInv' /\ HandshakeInv'
<1>1. TableInv'
  BY DEF Deadline, frame, TableInv
<1>2. HandshakeInv'
  BY Received DEF Deadline, frame, ownerVars, wire, supVars, HandshakeInv
<1> QED
  BY <1>1, <1>2

\* The handshake: nothing has been said before the owner starts the supervisor.
LEMMA StartHolds == ASSUME TableInv, HandshakeInv, Start PROVE TableInv' /\ HandshakeInv'
<1>1. TableInv'
  BY Taking, PidsAssumption DEF Start, TableInv
<1>2. HandshakeInv'
  BY Challenge DEF Start, frame, ownerVars, wire, supVars, count, Leaves, Sup, HandshakeInv,
     Launching, Launched, ToSup, ToOwner
<1> QED
  BY <1>1, <1>2

LEMMA AbortPreparedHolds == ASSUME TableInv, HandshakeInv, AbortPrepared PROVE TableInv' /\ HandshakeInv'
<1>1. TableInv'
  BY DEF AbortPrepared, frame, TableInv
<1>2. HandshakeInv'
  BY Received DEF AbortPrepared, supVars, HandshakeInv
<1> QED
  BY <1>1, <1>2

\* The start byte is sent after the identity of the Session was verified.
LEMMA startSupervisorHolds == ASSUME TableInv, HandshakeInv, startSupervisor PROVE TableInv' /\ HandshakeInv'
<1>1. TableInv'
  BY DEF startSupervisor, frame, TableInv
<1>2. HandshakeInv'
  BY SentToSup, Received DEF startSupervisor, supVars, HandshakeInv, ToSup
<1> QED
  BY <1>1, <1>2

LEMMA supervisorStartedHolds == ASSUME TableInv, HandshakeInv, supervisorStarted PROVE TableInv' /\ HandshakeInv'
<1>1. TableInv'
  BY DEF supervisorStarted, frame, TableInv
<1>2. HandshakeInv'
  BY Received DEF supervisorStarted, wire, supVars, HandshakeInv
<1> QED
  BY <1>1, <1>2

LEMMA startSupervisorFailsHolds ==
  ASSUME TableInv, HandshakeInv, startSupervisorFails
  PROVE TableInv' /\ HandshakeInv'
<1>1. TableInv'
  BY KillingSupervisor DEF startSupervisorFails, TableInv
<1>2. HandshakeInv'
  BY Received DEF startSupervisorFails, frame, ownerVars, wire, supVars, count, Leaves, Sup,
     HandshakeInv, Launching, Launched, ToSup, ToOwner
<1> QED
  BY <1>1, <1>2

LEMMA startSettledHolds == ASSUME TableInv, HandshakeInv, startSettled PROVE TableInv' /\ HandshakeInv'
<1>1. TableInv'
  BY KillingSupervisor DEF startSettled
<1>2. HandshakeInv'
  BY Received DEF startSettled, wire, supVars, HandshakeInv
<1> QED
  BY <1>1, <1>2

LEMMA SignalHolds == ASSUME TableInv, HandshakeInv, Signal PROVE TableInv' /\ HandshakeInv'
<1>1. TableInv'
  BY DEF Signal, frame, TableInv
<1>2. HandshakeInv'
  BY SentToSup DEF Signal, ownerVars, supVars, HandshakeInv, ToSup
<1> QED
  BY <1>1, <1>2

\* The direct child is the supervisor, whatever its PID means later.
LEMMA cancelHolds == ASSUME TableInv, HandshakeInv, cancel PROVE TableInv' /\ HandshakeInv'
<1>1. TableInv'
  BY KillingSupervisor DEF cancel, TableInv
<1>2. HandshakeInv'
  BY SentToSup DEF cancel, supVars, HandshakeInv, ToSup
<1> QED
  BY <1>1, <1>2

LEMMA readCleanupProofHolds == ASSUME TableInv, HandshakeInv, readCleanupProof PROVE TableInv' /\ HandshakeInv'
<1>1. TableInv'
  BY DEF readCleanupProof, frame, TableInv
<1>2. HandshakeInv'
  BY Received DEF readCleanupProof, supVars, HandshakeInv
<1> QED
  BY <1>1, <1>2

LEMMA waitForSupervisorProofHolds ==
  ASSUME TableInv, HandshakeInv, waitForSupervisorProof
  PROVE TableInv' /\ HandshakeInv'
<1>1. TableInv'
  BY DEF waitForSupervisorProof, frame, TableInv
<1>2. HandshakeInv'
  BY Received DEF waitForSupervisorProof, wire, supVars, HandshakeInv
<1> QED
  BY <1>1, <1>2

LEMMA OwnerDiesHolds == ASSUME TableInv, HandshakeInv, OwnerDies PROVE TableInv' /\ HandshakeInv'
<1>1. TableInv'
  BY DEF OwnerDies, frame, TableInv
<1>2. HandshakeInv'
  BY Received DEF OwnerDies, supVars, HandshakeInv
<1> QED
  BY <1>1, <1>2

LEMMA clearProofHolds == ASSUME TableInv, HandshakeInv, clearProof PROVE TableInv' /\ HandshakeInv'
<1>1. TableInv'
  BY Leaving, PidsAssumption DEF clearProof, Leaves, TableInv
<1>2. HandshakeInv'
  BY ReadBySup DEF clearProof, ownerVars, Leaves, Sup, HandshakeInv, Launching, Launched
<1> QED
  BY <1>1, <1>2

LEMMA readyHolds == ASSUME TableInv, HandshakeInv, ready PROVE TableInv' /\ HandshakeInv'
<1>1. TableInv'
  BY DEF ready, frame, TableInv
<1>2. HandshakeInv'
  BY SentToOwner DEF ready, ownerVars, Sup, HandshakeInv, Launching, Launched, ToOwner
<1> QED
  BY <1>1, <1>2

\* The no-target answer comes from a supervisor that never got to its target.
LEMMA seatbeltNoTargetFailureHolds ==
  ASSUME TableInv, HandshakeInv, seatbeltNoTargetFailure
  PROVE TableInv' /\ HandshakeInv'
<1>1. TableInv'
  BY Leaving, PidsAssumption DEF seatbeltNoTargetFailure, Leaves
<1>2. HandshakeInv'
  BY SentToOwner DEF seatbeltNoTargetFailure, ownerVars, Leaves, HandshakeInv, Launching, Launched,
     ToOwner
<1> QED
  BY <1>1, <1>2

\* The start byte is read only after it was sent.
LEMMA readStartHolds == ASSUME TableInv, HandshakeInv, readStart PROVE TableInv' /\ HandshakeInv'
<1>1. TableInv'
  BY DEF readStart, frame, TableInv
<1>2. HandshakeInv'
  BY ReadBySup DEF readStart, ownerVars, Sup, HandshakeInv, Launching, Launched
<1> QED
  BY <1>1, <1>2

LEMMA sealDescriptorsHolds == ASSUME TableInv, HandshakeInv, sealDescriptors PROVE TableInv' /\ HandshakeInv'
<1>1. TableInv'
  BY DEF sealDescriptors, frame, TableInv
<1>2. HandshakeInv'
  BY Received DEF sealDescriptors, ownerVars, wire, HandshakeInv, Launching, Launched
<1> QED
  BY <1>1, <1>2

\* The target starts on a start byte, so after the identity was verified.
LEMMA startTargetHolds == ASSUME TableInv, HandshakeInv, startTarget PROVE TableInv' /\ HandshakeInv'
<1>1. TableInv'
  BY Taking, PidsAssumption DEF startTarget, TableInv
<1>2. HandshakeInv'
  BY Received DEF startTarget, ownerVars, wire, Sup, HandshakeInv, Launching, Launched
<1> QED
  BY <1>1, <1>2

LEMMA forwardSeatbeltControlHolds ==
  ASSUME TableInv, HandshakeInv, forwardSeatbeltControl
  PROVE TableInv' /\ HandshakeInv'
<1>1. TableInv'
  BY KillingTargets DEF forwardSeatbeltControl, TableInv
<1>2. HandshakeInv'
  BY ReadBySup DEF forwardSeatbeltControl, ownerVars, supVars, HandshakeInv
<1> QED
  BY <1>1, <1>2

LEMMA waitTargetHolds == ASSUME TableInv, HandshakeInv, waitTarget PROVE TableInv' /\ HandshakeInv'
<1>1. TableInv'
  BY Leaving, PidsAssumption DEF waitTarget, Leaves, TableInv
<1>2. HandshakeInv'
  BY Received DEF waitTarget, ownerVars, wire, Leaves, Sup, HandshakeInv, Launching, Launched
<1> QED
  BY <1>1, <1>2

LEMMA recordProofHolds == ASSUME TableInv, HandshakeInv, recordProof PROVE TableInv' /\ HandshakeInv'
<1>1. TableInv'
  BY Leaving, PidsAssumption DEF recordProof, Leaves, TableInv
<1>2. HandshakeInv'
  BY Received DEF recordProof, ownerVars, wire, Leaves, Sup, HandshakeInv, Launching, Launched
<1> QED
  BY <1>1, <1>2

LEMMA reportProofHolds == ASSUME TableInv, HandshakeInv, reportProof PROVE TableInv' /\ HandshakeInv'
<1>1. TableInv'
  BY Leaving, PidsAssumption DEF reportProof, Leaves
<1>2. HandshakeInv'
  BY SentToOwner DEF reportProof, ownerVars, Leaves, HandshakeInv, Launching, Launched, ToOwner
<1> QED
  BY <1>1, <1>2

LEMMA ForksHolds == ASSUME TableInv, HandshakeInv, NEW p \in Pids, Forks(p) PROVE TableInv' /\ HandshakeInv'
<1>1. TableInv'
  <2>1. CASE \E q \in Pids \ {0} : proc' = takes(q, "member")
    BY <2>1, Taking
  <2>2. CASE \E q \in Pids : proc' = [proc EXCEPT ![q].st = "running"]
    BY <2>2, Striking
  <2> QED
    BY <2>1, <2>2 DEF Forks
<1>2. HandshakeInv'
  BY Received DEF Forks, ownerVars, wire, supVars, HandshakeInv
<1> QED
  BY <1>1, <1>2

LEMMA ExitsHolds == ASSUME TableInv, HandshakeInv, NEW p \in Pids, Exits(p) PROVE TableInv' /\ HandshakeInv'
<1>1. TableInv'
  BY Leaving DEF Exits
<1>2. HandshakeInv'
  BY Received DEF Exits, ownerVars, wire, supVars, HandshakeInv
<1> QED
  BY <1>1, <1>2

LEMMA KillsHolds == ASSUME TableInv, HandshakeInv, NEW p \in Pids, Kills(p) PROVE TableInv' /\ HandshakeInv'
<1>1. TableInv'
  BY KillingSupervisor DEF Kills
<1>2. HandshakeInv'
  BY Received DEF Kills, ownerVars, wire, supVars, HandshakeInv
<1> QED
  BY <1>1, <1>2

LEMMA DiesHolds == ASSUME TableInv, HandshakeInv, NEW p \in Pids, Dies(p) PROVE TableInv' /\ HandshakeInv'
<1>1. TableInv'
  BY Leaving DEF Dies
<1>2. HandshakeInv'
  BY Received DEF Dies, ownerVars, wire, supVars, HandshakeInv
<1> QED
  BY <1>1, <1>2

\* A free PID is taken over by an unrelated process, but never the supervisor's.
LEMMA HostTakesHolds == ASSUME TableInv, HandshakeInv, NEW p \in Pids, HostTakes(p) PROVE TableInv' /\ HandshakeInv'
<1>1. TableInv'
  BY Taking DEF HostTakes
<1>2. HandshakeInv'
  BY Received DEF HostTakes, ownerVars, wire, supVars, HandshakeInv
<1> QED
  BY <1>1, <1>2

-----------------------------------------------------------------------------
LEMMA InitHolds == ASSUME Init PROVE TableInv /\ HandshakeInv
<1>1. Free \in Entry /\ Free.kind = "member"
  BY DEF Free, Entry
<1>2. proc \in [Pids -> Entry] /\ \A p \in Pids : proc[p] = Free
  BY <1>1 DEF Init
<1>3. TableInv
  BY <1>1, <1>2, PidsAssumption DEF TableInv, HostUntouched
<1>4. HandshakeInv
  BY DEF Init, HandshakeInv, Launching, Holds
<1> QED
  BY <1>3, <1>4

LEMMA StutterHolds == ASSUME TableInv, HandshakeInv, UNCHANGED vars PROVE TableInv' /\ HandshakeInv'
<1>1. TableInv'
  BY DEF vars, TableInv
<1>2. HandshakeInv'
  BY DEF vars, ownerVars, wire, supVars, HandshakeInv
<1> QED
  BY <1>1, <1>2

LEMMA SettlingHolds ==
  ASSUME TableInv, HandshakeInv, NEW w, Settling(w) PROVE TableInv' /\ HandshakeInv'
  BY allPIDsHolds, visitEntryHolds, sameIdentityHolds, signalHolds, DeadlineHolds DEF Settling

LEMMA StepHolds ==
  ASSUME TableInv, HandshakeInv, [Next]_vars PROVE TableInv' /\ HandshakeInv'
<1>1. CASE OwnerStep
  BY <1>1, startSupervisorHolds, supervisorStartedHolds, startSupervisorFailsHolds,
     startSettledHolds, readCleanupProofHolds, waitForSupervisorProofHolds, SettlingHolds DEF OwnerStep
<1>2. CASE SupStep
  BY <1>2, clearProofHolds, readyHolds, readStartHolds, sealDescriptorsHolds, startTargetHolds,
     waitTargetHolds, recordProofHolds, reportProofHolds, seatbeltNoTargetFailureHolds, SettlingHolds
     DEF SupStep
<1>3. CASE Start \/ AbortPrepared \/ Signal \/ cancel \/ OwnerDies \/ forwardSeatbeltControl
  BY <1>3, StartHolds, AbortPreparedHolds, SignalHolds, cancelHolds, OwnerDiesHolds,
     forwardSeatbeltControlHolds
<1>4. ASSUME NEW p \in Pids, Forks(p) \/ Exits(p) \/ Kills(p) \/ Dies(p) \/ HostTakes(p)
      PROVE  TableInv' /\ HandshakeInv'
  BY <1>4, ForksHolds, ExitsHolds, KillsHolds, DiesHolds, HostTakesHolds
<1>5. CASE UNCHANGED vars
  BY <1>5, StutterHolds
<1> QED
  BY <1>1, <1>2, <1>3, <1>4, <1>5 DEF Next

LEMMA InvariantHolds == Spec => [](TableInv /\ HandshakeInv)
<1>1. Init => TableInv /\ HandshakeInv
  BY InitHolds
<1>2. TableInv /\ HandshakeInv /\ [Next]_vars => (TableInv /\ HandshakeInv)'
  BY StepHolds
<1> QED
  BY <1>1, <1>2, PTL DEF Spec

\* The target runs only after ACS has proved that its policy query identifies the
\* Session, and an answer that there was no target is true, whatever fails in the
\* handshake (startSupervisor, seatbeltNoTargetFailure).
THEOREM TargetsAreIdentified == Spec => [](TargetIsIdentified /\ NoTargetHonest)
<1>1. HandshakeInv => TargetIsIdentified /\ NoTargetHonest
  BY DEF HandshakeInv, TargetIsIdentified, NoTargetHonest
<1> QED
  BY <1>1, InvariantHolds, PTL

-----------------------------------------------------------------------------
LEMMA Zero == 0 \in Pids /\ 0 \in Gens /\ 0 \in 0..2 /\ 1 \in 0..2 /\ 2 \in 0..2
  BY PidsAssumption, BoundsAssumption DEF Gens

LEMMA Fields ==
  ASSUME NEW s \in Settlement
  PROVE  /\ s.stable \in {0, 1, 2} /\ s.phase \in {"stop", "kill"} /\ s.hit \in BOOLEAN
         /\ s.todo \subseteq Pids /\ s.pid \in Pids /\ s.gen \in Gens
         /\ s.unsure \in BOOLEAN /\ s.forked \in BOOLEAN /\ s.missed \in Nat
  BY DEF Settlement

\* What a pass leaves behind.
LEMMA NewFields ==
  ASSUME NEW s \in Settlement
  PROVE  /\ newPass(s) \in Settlement /\ newPass(s).at = "snap" /\ newPass(s).todo = {}
         /\ newPass(s).phase = s.phase /\ newPass(s).stable = s.stable
         /\ newPass(s).missed = s.missed /\ newPass(s).unsure = s.unsure /\ ~newPass(s).forked
  BY Zero DEF newPass, Settlement

LEMMA QuietFields ==
  ASSUME NEW s \in Settlement
  PROVE  /\ quietPass(s) \in Settlement /\ quietPass(s).at = "snap" /\ quietPass(s).todo = {}
         /\ quietPass(s).phase = s.phase /\ quietPass(s).stable = s.stable
         /\ quietPass(s).missed = (IF s.forked \/ s.unsure THEN s.missed + 1 ELSE 0)
         /\ quietPass(s).unsure = s.unsure /\ ~quietPass(s).forked
<1> DEFINE n == newPass(s)
<1>1. /\ n \in Settlement /\ n.at = "snap" /\ n.todo = {} /\ n.phase = s.phase /\ n.stable = s.stable
      /\ n.missed = s.missed /\ n.unsure = s.unsure /\ ~n.forked
  BY NewFields
<1>2. quietPass(s) = [n EXCEPT !.missed = IF s.forked \/ s.unsure THEN s.missed + 1 ELSE 0]
  BY DEF quietPass
<1> HIDE DEF n
<1>3. PICK b \in Nat : b = (IF s.forked \/ s.unsure THEN s.missed + 1 ELSE 0)
  BY <1>1, Fields
<1>4. quietPass(s) = [n EXCEPT !.missed = b]
  BY <1>2, <1>3
<1>5. PICK r : r = [n EXCEPT !.missed = b]
  OBVIOUS
<1>6. /\ r \in Settlement /\ r.at = n.at /\ r.todo = n.todo /\ r.phase = n.phase /\ r.stable = n.stable
      /\ r.missed = b /\ r.unsure = n.unsure /\ r.forked = n.forked
  BY <1>1, <1>5 DEF Settlement
<1> QED
  BY <1>1, <1>3, <1>4, <1>5, <1>6

LEMMA PassedFields ==
  ASSUME NEW s \in Settlement
  PROVE  /\ passed(s, TRUE) \in Settlement /\ passed(s, TRUE).todo = {} /\ passed(s, TRUE).at = "snap"
         /\ passed(s, TRUE).phase = s.phase /\ ~passed(s, TRUE).forked
         /\ passed(s, TRUE).stable = (IF s.phase = "stop" THEN 0 ELSE s.stable)
         /\ passed(s, TRUE).missed = (IF s.phase = "stop" THEN 0 ELSE s.missed)
<1> DEFINE n == newPass(s)
           restarted == [n EXCEPT !.stable = 0, !.missed = 0]
<1>1. /\ n \in Settlement /\ n.at = "snap" /\ n.todo = {} /\ n.phase = s.phase /\ n.stable = s.stable
      /\ n.missed = s.missed /\ ~n.forked
  BY NewFields
<1>2. passed(s, TRUE) = IF s.phase = "stop" THEN restarted ELSE n
  BY Fields DEF passed
<1> HIDE DEF n
<1>3. /\ restarted \in Settlement /\ restarted.at = "snap" /\ restarted.todo = {} /\ restarted.phase = n.phase
      /\ restarted.stable = 0 /\ restarted.missed = 0 /\ ~restarted.forked
  BY <1>1, Zero DEF Settlement
<1> HIDE DEF restarted
<1> QED
  BY <1>1, <1>2, <1>3

LEMMA QuietlyFields ==
  ASSUME NEW s \in Settlement
  PROVE  /\ passed(s, FALSE) \in Settlement /\ passed(s, FALSE).todo = {}
         /\ passed(s, FALSE).at = (IF s.phase = "kill" THEN "ok" ELSE "snap")
         /\ passed(s, FALSE).phase = (IF s.phase = "stop" /\ s.stable # 1 THEN "stop" ELSE "kill")
         /\ passed(s, FALSE).stable = (IF s.phase = "kill" THEN s.stable ELSE IF s.stable = 1 THEN 2 ELSE 1)
         /\ passed(s, FALSE).missed = (IF s.forked \/ s.unsure THEN s.missed + 1 ELSE 0)
         /\ passed(s, FALSE).unsure = s.unsure /\ ~passed(s, FALSE).forked
<1> DEFINE n == quietPass(s)
           quiet == [n EXCEPT !.stable = 1, !.phase = "stop"]
           killing == [n EXCEPT !.stable = 2, !.phase = "kill"]
           stopped == [n EXCEPT !.at = "ok"]
<1>1. /\ n \in Settlement /\ n.at = "snap" /\ n.todo = {} /\ n.phase = s.phase /\ n.stable = s.stable
      /\ n.missed = (IF s.forked \/ s.unsure THEN s.missed + 1 ELSE 0) /\ n.unsure = s.unsure /\ ~n.forked
  BY QuietFields
<1>2. passed(s, FALSE) = IF s.phase = "stop" THEN IF s.stable = 1 THEN killing ELSE quiet ELSE stopped
  BY Fields DEF passed
<1> HIDE DEF n
<1>3. quiet \in Settlement /\ killing \in Settlement /\ stopped \in Settlement
  BY <1>1, Zero DEF Settlement
<1>4. /\ quiet.todo = {} /\ quiet.at = "snap" /\ quiet.phase = "stop" /\ quiet.stable = 1
      /\ quiet.missed = n.missed /\ quiet.unsure = n.unsure /\ ~quiet.forked
  BY <1>1 DEF Settlement
<1>5. /\ killing.todo = {} /\ killing.at = "snap" /\ killing.phase = "kill" /\ killing.stable = 2
      /\ killing.missed = n.missed /\ killing.unsure = n.unsure /\ ~killing.forked
  BY <1>1 DEF Settlement
<1>6. /\ stopped.todo = {} /\ stopped.at = "ok" /\ stopped.phase = n.phase /\ stopped.stable = n.stable
      /\ stopped.missed = n.missed /\ stopped.unsure = n.unsure /\ ~stopped.forked
  BY <1>1 DEF Settlement
<1> HIDE DEF quiet, killing, stopped
<1>7. CASE s.phase = "stop" /\ s.stable = 1
  BY <1>1, <1>2, <1>3, <1>5, <1>7
<1>8. CASE s.phase = "stop" /\ s.stable # 1
  BY <1>1, <1>2, <1>3, <1>4, <1>8
<1>9. CASE s.phase = "kill"
  BY <1>1, <1>2, <1>3, <1>6, <1>9
<1> QED
  BY <1>7, <1>8, <1>9, Fields

\* A pass that changed something starts over.
LEMMA PassedChanged ==
  ASSUME NEW w, NEW s \in Settlement, NEW P, PassOf(w, s, P), s.at \in {"visit", "act", "send"}
  PROVE  passed(s, TRUE) \in Settlement /\ passed(s, TRUE).at = "snap" /\ PassOf(w, passed(s, TRUE), P)
<1> DEFINE r == passed(s, TRUE)
<1>1. /\ r \in Settlement /\ r.at = "snap" /\ r.todo = {} /\ r.phase = s.phase /\ ~r.forked
      /\ r.stable = (IF s.phase = "stop" THEN 0 ELSE s.stable)
      /\ r.missed = (IF s.phase = "stop" THEN 0 ELSE s.missed)
  BY PassedFields
<1> HIDE DEF r
<1>2. /\ s.phase = "kill" <=> s.stable = 2
      /\ s.phase \in {"stop", "kill"}
      /\ s.missed \in Nat /\ s.stable \in {0, 1, 2} /\ s.missed <= s.stable /\ (s.missed # s.stable => Running(w, P) = {})
  BY Fields DEF PassOf
<1>3. (r.phase = "kill" <=> r.stable = 2) /\ r.missed <= r.stable /\ (r.missed # r.stable => Running(w, P) = {})
  BY <1>1, <1>2
<1>4. PassOf(w, r, P)
  BY <1>1, <1>3 DEF PassOf, Quiet
<1> QED
  BY <1>1, <1>4 DEF r

\* A pass that saw everything and changed nothing.
LEMMA PassedQuietly ==
  ASSUME NEW w, NEW s \in Settlement, NEW P, PassOf(w, s, P), s.at = "visit", s.todo = {}, s.hit = FALSE
  PROVE  /\ passed(s, FALSE) \in Settlement /\ passed(s, FALSE).at \in {"snap", "ok"}
         /\ PassOf(w, passed(s, FALSE), P)
<1> DEFINE r == passed(s, FALSE)
<1>1. /\ r \in Settlement /\ r.todo = {} /\ r.at = (IF s.phase = "kill" THEN "ok" ELSE "snap")
      /\ r.phase = (IF s.phase = "stop" /\ s.stable # 1 THEN "stop" ELSE "kill")
      /\ r.stable = (IF s.phase = "kill" THEN s.stable ELSE IF s.stable = 1 THEN 2 ELSE 1)
      /\ r.missed = (IF s.forked \/ s.unsure THEN s.missed + 1 ELSE 0) /\ r.unsure = s.unsure /\ ~r.forked
  BY QuietlyFields
<1> HIDE DEF r
<1>2. (s.phase = "kill" <=> s.stable = 2) /\ s.phase \in {"stop", "kill"} /\ s.stable \in {0, 1, 2} /\ s.missed \in Nat
      /\ s.forked \in BOOLEAN /\ s.unsure \in BOOLEAN /\ s.missed <= s.stable /\ (s.forked => s.missed = s.stable)
  BY Fields DEF PassOf
<1>3. Pending(s, P) = {} /\ Quiet(s)
  BY DEF Pending, Quiet
<1>4. ASSUME s.phase = "stop" PROVE PassOf(w, r, P)
  <2>1. r.missed <= r.stable /\ (r.missed # r.stable => Running(w, P) = {})
    BY <1>1, <1>2, <1>3, <1>4 DEF PassOf, Sighted
  <2> QED
    BY <1>1, <1>2, <1>4, <2>1 DEF PassOf, Quiet
<1>5. ASSUME s.phase = "kill" PROVE PassOf(w, r, P)
  <2>1. r.unsure \/ r.missed >= 3 \/ Covered(w, P) = {}
    BY <1>1, <1>2, <1>3, <1>5 DEF PassOf, Sighted
  <2> QED
    BY <1>1, <1>2, <1>5, <2>1 DEF PassOf, Quiet
<1> QED
  BY <1>1, <1>2, <1>4, <1>5 DEF r

LEMMA GoingOn ==
  ASSUME NEW w, NEW s \in Settlement, NEW P, PassOf(w, s, P), s.at = "visit"
  PROVE  goOn(s) \in Settlement /\ goOn(s).at \in {"visit", "snap", "ok"} /\ PassOf(w, goOn(s), P)
<1>1. s.hit = TRUE \/ s.hit = FALSE
  BY Fields
<1> QED
  BY <1>1, PassedChanged, PassedQuietly DEF goOn

LEMMA GoneOn ==
  ASSUME NEW s \in Settlement, s.at = "visit"
  PROVE  goOn(s) \in Settlement /\ goOn(s).at \in {"visit", "snap", "ok"}
<1>1. s.hit = TRUE \/ s.hit = FALSE
  BY Fields
<1> QED
  BY <1>1, PassedFields, QuietlyFields DEF goOn

LEMMA Failing ==
  ASSUME NEW w, NEW s \in Settlement, NEW P, PassOf(w, s, P), NEW r, r = [s EXCEPT !.at = "err"]
  PROVE  r \in Settlement /\ PassOf(w, r, P)
<1>1. r \in Settlement /\ r.at = "err" /\ r.phase = s.phase /\ r.stable = s.stable /\ r.todo = s.todo
  BY DEF Settlement
<1> QED
  BY <1>1 DEF PassOf, Quiet

\* A settlement that has not begun, one that begins, one that is over.
Begun == [Idle EXCEPT !.at = "snap"]
LEMMA Idling ==
  ASSUME NEW w, NEW P
  PROVE  /\ Idle \in Settlement /\ Idle.at = "idle" /\ PassOf(w, Idle, P)
         /\ Begun \in Settlement /\ Begun.at = "snap" /\ PassOf(w, Begun, P)
<1>1. /\ Idle \in Settlement /\ Idle.at = "idle" /\ Idle.phase = "stop" /\ Idle.stable = 0 /\ Idle.todo = {}
  BY Zero DEF Idle, Settlement
<1>2. /\ Begun \in Settlement /\ Begun.at = "snap" /\ Begun.phase = "stop" /\ Begun.stable = 0 /\ Begun.todo = {}
      /\ Begun.missed = 0 /\ ~Begun.forked
  BY Zero DEF Idle, Begun, Settlement
<1>3. PassOf(w, Idle, P)
  BY <1>1 DEF PassOf, Quiet
<1>4. PassOf(w, Begun, P)
  BY <1>2 DEF PassOf, Quiet
<1> QED
  BY <1>1, <1>2, <1>3, <1>4

LEMMA Parking ==
  ASSUME NEW w, NEW s \in Settlement, NEW P, PassOf(w, s, P), s.at \in {"ok", "idle"}, NEW r, r = [s EXCEPT !.at = "idle"]
  PROVE  r \in Settlement /\ r.at = "idle" /\ r.unsure = s.unsure /\ r.missed = s.missed /\ PassOf(w, r, P)
<1>1. /\ r \in Settlement /\ r.at = "idle" /\ r.phase = s.phase /\ r.stable = s.stable /\ r.todo = s.todo
      /\ r.unsure = s.unsure /\ r.missed = s.missed
  BY DEF Settlement
<1> QED
  BY <1>1 DEF PassOf, Quiet

\* A snapshot holds every process the settlement is about, unless a query failed.
LEMMA Listing ==
  ASSUME NEW w, NEW s \in Settlement, NEW P, PassOf(w, s, P), s.at = "snap",
         NEW X \in SUBSET Pids, NEW u \in BOOLEAN, u \/ Covered(w, P) \subseteq X, w = "sup" => 0 \notin X,
         NEW r, r = [s EXCEPT !.at = "visit", !.unsure = u, !.todo = X]
  PROVE  r \in Settlement /\ r.at = "visit" /\ PassOf(w, r, P)
<1>1. /\ r \in Settlement /\ r.at = "visit" /\ r.phase = s.phase /\ r.stable = s.stable /\ r.todo = X
      /\ r.unsure = u /\ r.missed = s.missed /\ r.forked = s.forked
  BY DEF Settlement
<1>2. X \subseteq Pending(r, P) /\ (~u => Running(w, P) \subseteq X)
  BY <1>1 DEF Pending, Running
<1> QED
  BY <1>1, <1>2 DEF PassOf, Quiet, Sighted

-----------------------------------------------------------------------------
\* The table while a settlement stands still: nobody is born or woken, and no
\* process of the host is touched.
Shrinks(P, Q) ==
    \A p \in Pids : Q[p].st # "free" /\ Q[p].kind = "member" =>
        /\ P[p].st # "free" /\ P[p].kind = "member" /\ Q[p].gen = P[p].gen
        /\ Q[p].st = "running" => P[p].st = "running"
        /\ P[p].st = "dying" => Q[p].st = "dying"
Spares(P, Q) == \A p \in Pids : Q[p].st # "free" /\ Q[p].kind = "host" => Q[p] = P[p]

\* Processes that stop, die or give their PID to the host take nothing back.
LEMMA Shrinking ==
  ASSUME NEW w, NEW s \in Settlement, NEW P, NEW Q, PassOf(w, s, P), Shrinks(P, Q)
  PROVE  PassOf(w, s, Q)
<1>1. Covered(w, Q) \subseteq Covered(w, P) /\ Running(w, Q) \subseteq Running(w, P)
  BY DEF Shrinks, Covered, Running
<1>2. \A p \in Running(w, Q) : p \in Pending(s, P) => p \in Pending(s, Q)
  BY DEF Shrinks, Covered, Running, Pending
<1>3. Quiet(s) /\ Sighted(s) => IF s.phase = "kill" THEN Covered(w, Q) \subseteq s.todo
                               ELSE Running(w, Q) \subseteq Pending(s, Q)
  BY <1>1, <1>2 DEF PassOf
<1>4. s.at \in {"snap", "visit", "act", "send"} => (s.missed # s.stable => Running(w, Q) = {})
  BY <1>1 DEF PassOf
<1>5. s.at = "ok" => s.unsure \/ s.missed >= 3 \/ Covered(w, Q) = {}
  BY <1>1 DEF PassOf
<1> HIDE DEF Quiet, Sighted, Pending, Running, Covered
<1> QED
  BY <1>3, <1>4, <1>5 DEF PassOf

\* A process is born or woken by one that runs: the pass in hand cannot tell.
LEMMA Renewing ==
  ASSUME NEW w, NEW s \in Settlement, NEW P, NEW Q, PassOf(w, s, P), Running(w, P) # {},
         NEW r, r = IF s.at \in {"visit", "act", "send"} THEN [s EXCEPT !.forked = TRUE] ELSE s
  PROVE  r \in Settlement /\ r.at = s.at /\ r.pid = s.pid /\ r.unsure = s.unsure /\ r.missed = s.missed /\ PassOf(w, r, Q)
<1>1. /\ r \in Settlement /\ r.at = s.at /\ r.pid = s.pid /\ r.phase = s.phase /\ r.stable = s.stable /\ r.todo = s.todo
      /\ r.unsure = s.unsure /\ r.missed = s.missed /\ r.hit = s.hit
      /\ (s.at \in {"visit", "act", "send"} => r.forked) /\ (s.at \notin {"visit", "act", "send"} => r.forked = s.forked)
  BY DEF Settlement
<1>2. Covered(w, P) # {} /\ (s.at \in {"snap", "visit", "act", "send"} => s.missed = s.stable)
  BY DEF PassOf, Running
<1>3. (s.at = "ok" => s.unsure \/ s.missed >= 3) /\ (Quiet(r) /\ r.phase = "kill" => r.at = "visit")
  BY <1>1, <1>2 DEF PassOf, Quiet
<1>4. ~(Quiet(r) /\ Sighted(r))
  BY <1>1 DEF Quiet, Sighted
<1>5. /\ r.phase = "kill" <=> r.stable = 2
      /\ w = "sup" => 0 \notin r.todo /\ (r.at \in {"act", "send"} => r.pid # 0)
  BY <1>1 DEF PassOf
<1> QED
  BY <1>1, <1>2, <1>3, <1>4, <1>5 DEF PassOf

\* An entry of the snapshot that is not running, or that is dealt with next.
LEMMA Skipping ==
  ASSUME NEW w, NEW s \in Settlement, NEW P, PassOf(w, s, P), s.at = "visit", NEW p \in s.todo,
         p \notin Covered(w, P) \/ (s.phase = "stop" /\ p \notin Running(w, P)),
         NEW r, r = [s EXCEPT !.todo = @ \ {p}]
  PROVE  PassOf(w, r, P)
<1>1. /\ r.at = "visit" /\ r.phase = s.phase /\ r.stable = s.stable /\ r.todo = s.todo \ {p}
      /\ r.hit = s.hit /\ r.unsure = s.unsure /\ r.forked = s.forked /\ r.missed = s.missed
  BY DEF Settlement
<1>2. Running(w, P) \ Pending(r, P) \subseteq Running(w, P) \ Pending(s, P)
  BY <1>1 DEF Pending, Running
<1>3. s.phase = "kill" => Covered(w, P) \ r.todo \subseteq Covered(w, P) \ s.todo
  BY <1>1
<1>4. Quiet(r) = Quiet(s) /\ Sighted(r) = Sighted(s)
  BY <1>1 DEF Quiet, Sighted
<1> QED
  BY <1>1, <1>2, <1>3, <1>4 DEF PassOf

LEMMA Acting ==
  ASSUME NEW w, NEW s \in Settlement, NEW P, PassOf(w, s, P), s.at = "visit", NEW p \in s.todo,
         NEW r \in Settlement, r.at = "act", r.pid = p, r.gen = P[p].gen, r.hit = (s.hit \/ s.phase = "kill"),
         r.todo = s.todo \ {p}, r.phase = s.phase, r.stable = s.stable, r.unsure = s.unsure, r.forked = s.forked,
         r.missed = s.missed
  PROVE  PassOf(w, r, P)
<1>1. Pending(s, P) \subseteq Pending(r, P)
  BY Fields DEF Pending
<1>2. (Quiet(r) => Quiet(s) /\ s.phase # "kill") /\ Sighted(r) = Sighted(s)
  BY DEF Quiet, Sighted
<1>3. w = "sup" => p # 0
  BY DEF PassOf
<1>4. s.phase \in {"stop", "kill"}
  BY Fields
<1> QED
  BY <1>1, <1>2, <1>3, <1>4 DEF PassOf

LEMMA Sending ==
  ASSUME NEW w, NEW s \in Settlement, NEW P, PassOf(w, s, P), s.at = "act", NEW r, r = [s EXCEPT !.at = "send"]
  PROVE  r \in Settlement /\ PassOf(w, r, P)
<1>1. /\ r \in Settlement /\ r.at = "send" /\ r.phase = s.phase /\ r.stable = s.stable /\ r.todo = s.todo
      /\ r.hit = s.hit /\ r.unsure = s.unsure /\ r.forked = s.forked /\ r.missed = s.missed /\ r.pid = s.pid /\ r.gen = s.gen
  BY DEF Settlement
<1>2. Pending(r, P) = Pending(s, P) /\ Quiet(r) = Quiet(s) /\ Sighted(r) = Sighted(s)
  BY <1>1 DEF Pending, Quiet, Sighted
<1> QED
  BY <1>1, <1>2 DEF PassOf

\* After a signal, or when the identity no longer matches.
LEMMA Acted ==
  ASSUME NEW w, NEW s \in Settlement, NEW P, PassOf(w, s, P), s.at \in {"act", "send"},
         P[s.pid].st = "free" \/ P[s.pid].gen # s.gen \/ P[s.pid].kind # "member",
         NEW r, r = [s EXCEPT !.at = "visit", !.pid = 0, !.gen = 0]
  PROVE  PassOf(w, r, P)
<1>1. /\ r.at = "visit" /\ r.phase = s.phase /\ r.stable = s.stable /\ r.todo = s.todo
      /\ r.hit = s.hit /\ r.unsure = s.unsure /\ r.forked = s.forked /\ r.missed = s.missed
  BY Zero DEF Settlement
<1>2. Running(w, P) \ Pending(r, P) \subseteq Running(w, P) \ Pending(s, P)
  BY <1>1 DEF Pending, Running, Covered
<1>3. Quiet(r) = Quiet(s) /\ Sighted(r) = Sighted(s) /\ ~(Quiet(s) /\ s.phase = "kill")
  BY <1>1 DEF Quiet, Sighted, PassOf
<1> QED
  BY <1>1, <1>2, <1>3 DEF PassOf

LEMMA Hitting ==
  ASSUME NEW w, NEW s \in Settlement, NEW P, PassOf(w, s, P), s.at \in {"act", "send"},
         NEW r, r = [[s EXCEPT !.at = "visit", !.pid = 0, !.gen = 0] EXCEPT !.hit = TRUE]
  PROVE  r \in Settlement /\ r.at = "visit" /\ PassOf(w, r, P)
<1> DEFINE t == [s EXCEPT !.at = "visit", !.pid = 0, !.gen = 0]
<1>1. /\ t \in Settlement /\ t.at = "visit" /\ t.phase = s.phase /\ t.stable = s.stable /\ t.todo = s.todo
      /\ t.unsure = s.unsure /\ t.forked = s.forked /\ t.missed = s.missed
  BY Zero DEF Settlement
<1> HIDE DEF t
<1>2. r = [t EXCEPT !.hit = TRUE]
  BY DEF t
<1>3. /\ r \in Settlement /\ r.at = "visit" /\ r.phase = s.phase /\ r.stable = s.stable /\ r.todo = s.todo
      /\ r.hit /\ r.unsure = s.unsure /\ r.forked = s.forked /\ r.missed = s.missed
  BY <1>1, <1>2 DEF Settlement
<1>4. ~Quiet(r)
  BY <1>3 DEF Quiet
<1> QED
  BY <1>3, <1>4 DEF PassOf

-----------------------------------------------------------------------------
\* What the operations on the table do to its entries.
Kept(P, Q) == \A p \in Pids : Q[p].gen = P[p].gen /\ (P[p].st = "free" => Q[p] = P[p])

LEMMA Gone ==
  ASSUME TableInv, NEW q \in Pids, proc' = gone(q), proc[q].st # "free"
  PROVE  /\ Shrinks(proc, proc') /\ Kept(proc, proc') /\ Spares(proc, proc')
         /\ proc'[q].st = "free" /\ \A p \in Pids \ {q} : proc'[p] = proc[p]
<1> DEFINE e == [proc[q] EXCEPT !.st = "free"]
<1>1. e.st = "free" /\ e.kind = proc[q].kind /\ e.gen = proc[q].gen
  BY DEF Entry, TableInv
<1>2. proc' = [proc EXCEPT ![q] = e] /\ proc \in [Pids -> Entry]
  BY DEF gone, TableInv
<1> HIDE DEF e
<1> QED
  BY <1>1, <1>2 DEF Shrinks, Kept, Spares

LEMMA Took ==
  ASSUME TableInv, NEW q \in Pids, NEW k \in {"member", "host"}, proc' = takes(q, k)
  PROVE  /\ proc'[q].st = "running" /\ proc'[q].kind = k /\ proc'[q].gen = proc[q].gen + 1
         /\ \A p \in Pids \ {q} : proc'[p] = proc[p]
         /\ k = "member" => Spares(proc, proc')
<1> DEFINE e == [st |-> "running", kind |-> k, gen |-> proc[q].gen + 1]
<1>1. e.st = "running" /\ e.kind = k /\ e.gen = proc[q].gen + 1
  OBVIOUS
<1>2. proc' = [proc EXCEPT ![q] = e] /\ proc \in [Pids -> Entry]
  BY DEF takes, TableInv
<1> HIDE DEF e
<1> QED
  BY <1>1, <1>2 DEF Spares

LEMMA Woken ==
  ASSUME TableInv, NEW q \in Pids, member(q), proc' = [proc EXCEPT ![q].st = "running"]
  PROVE  /\ Kept(proc, proc') /\ Spares(proc, proc') /\ proc'[q].st = "running"
         /\ \A p \in Pids \ {q} : proc'[p] = proc[p]
<1> DEFINE e == [proc[q] EXCEPT !.st = "running"]
<1>1. e.st = "running" /\ e.kind = proc[q].kind /\ e.gen = proc[q].gen
  BY DEF Entry, TableInv
<1>2. proc' = [proc EXCEPT ![q] = e] /\ proc \in [Pids -> Entry] /\ proc[q].st # "free" /\ proc[q].kind = "member"
  BY DEF TableInv, member, alive
<1> HIDE DEF e
<1> QED
  BY <1>1, <1>2 DEF Kept, Spares

LEMMA Killed ==
  ASSUME NEW e \in Entry
  PROVE  /\ killed(e).kind = e.kind /\ killed(e).gen = e.gen /\ (e.st = "free" => killed(e) = e)
         /\ killed(e).st # "running" /\ (e.st # "free" => killed(e).st = "dying")
  BY DEF killed, Entry

LEMMA SupKilled ==
  ASSUME TableInv, proc' = [proc EXCEPT ![0] = killed(@)]
  PROVE  /\ Shrinks(proc, proc') /\ Kept(proc, proc') /\ Spares(proc, proc')
         /\ proc'[0].st # "running" /\ \A p \in Pids \ {0} : proc'[p] = proc[p]
<1>1. proc[0] \in Entry /\ proc \in [Pids -> Entry] /\ 0 \in Pids /\ proc[0].kind = "member"
  BY PidsAssumption DEF TableInv
<1>2. proc'[0] = killed(proc[0]) /\ \A p \in Pids \ {0} : proc'[p] = proc[p]
  BY <1>1
<1> QED
  BY <1>1, <1>2, Killed DEF Shrinks, Kept, Spares

LEMMA TargetsKilled ==
  ASSUME TableInv, NEW s \in SUBSET targets,
         proc' = [p \in Pids |-> IF p \in s \cup (targets \cap {1}) THEN killed(proc[p]) ELSE proc[p]]
  PROVE  Shrinks(proc, proc') /\ Kept(proc, proc') /\ Spares(proc, proc') /\ proc'[0] = proc[0]
<1>1. \A p \in Pids : proc[p] \in Entry
  BY DEF TableInv
<1>2. \A p \in Pids : proc'[p] = proc[p] \/ (proc'[p] = killed(proc[p]) /\ p \in targets)
  OBVIOUS
<1>3. 0 \notin targets /\ 0 \in Pids
  BY PidsAssumption DEF targets
<1>4. Shrinks(proc, proc')
  BY <1>1, <1>2, Killed DEF Shrinks, targets, member, alive
<1>5. Kept(proc, proc')
  BY <1>1, <1>2, Killed DEF Kept
<1>6. Spares(proc, proc')
  BY <1>1, <1>2, Killed DEF Spares, targets, member
<1> QED
  BY <1>2, <1>3, <1>4, <1>5, <1>6

\* Whoever has the PID: of the processes of the host only that one is touched.
LEMMA Signalled ==
  ASSUME TableInv, NEW q \in Pids, alive(q), NEW x \in {"dying", "stopped"}, proc[q].st = "dying" => x = "dying",
         proc' = [proc EXCEPT ![q].st = x]
  PROVE  /\ Shrinks(proc, proc') /\ Kept(proc, proc') /\ (member(q) => Spares(proc, proc'))
         /\ proc'[q].st = x /\ proc'[q].kind = proc[q].kind /\ \A p \in Pids \ {q} : proc'[p] = proc[p]
<1> DEFINE e == [proc[q] EXCEPT !.st = x]
<1>1. e.st = x /\ e.kind = proc[q].kind /\ e.gen = proc[q].gen
  BY DEF Entry, TableInv
<1>2. proc' = [proc EXCEPT ![q] = e] /\ proc \in [Pids -> Entry] /\ proc[q].st # "free"
  BY DEF TableInv, alive
<1> HIDE DEF e
<1>3. proc'[q] = e /\ \A p \in Pids \ {q} : proc'[p] = proc[p]
  BY <1>2
<1>4. Shrinks(proc, proc')
  BY <1>1, <1>2, <1>3 DEF Shrinks
<1>5. Kept(proc, proc')
  BY <1>1, <1>2, <1>3 DEF Kept
<1>6. member(q) => Spares(proc, proc')
  BY <1>1, <1>3 DEF Spares, member
<1> QED
  BY <1>1, <1>3, <1>4, <1>5, <1>6

LEMMA Unmoved == Shrinks(proc, proc) /\ Kept(proc, proc) /\ Spares(proc, proc)
  BY DEF Shrinks, Kept, Spares

-----------------------------------------------------------------------------
\* One step of a settlement: it leaves a settlement behind, what is known of the
\* table is known of what is left of it, and a signal is for a PID whose last
\* process was one of the Session.
Settled(w, r) ==
    /\ r \in Settlement /\ settling' = [settling EXCEPT ![w] = r]
    /\ PassOf(w, settling[w], proc) => PassOf(w, r, proc')
    /\ r.at = "send" => proc'[r.pid].kind = "member"

LEMMA MembersCovered ==
  ASSUME NEW w \in {"owner", "sup"}
  PROVE  /\ Covered(w, proc) = (IF w = "sup" THEN targets ELSE {p \in Pids : member(p)})
         /\ \A p \in Pids : ~alive(p) \/ ~member(p) => p \notin Covered(w, proc)
         /\ \A p \in Pids : proc[p].st = "stopped" => p \notin Running(w, proc)
  BY DEF Covered, Running, targets, member, alive

LEMMA FailingSettles ==
  ASSUME BookInv, NEW w \in {"owner", "sup"}, settling' = [settling EXCEPT ![w] = [settling[w] EXCEPT !.at = "err"]], proc' = proc
  PROVE  \E r : Settled(w, r)
<1>1. PICK s, t : s = settling[w] /\ t = [s EXCEPT !.at = "err"]
  OBVIOUS
<1>2. s \in Settlement /\ settling' = [settling EXCEPT ![w] = t]
  BY <1>1 DEF BookInv
<1>3. t \in Settlement /\ t.at = "err"
  BY <1>1, <1>2 DEF Settlement
<1>4. PassOf(w, s, proc) => PassOf(w, t, proc)
  BY <1>1, <1>2, Failing
<1> QED
  BY <1>1, <1>2, <1>3, <1>4 DEF Settled

LEMMA ChangedSettles ==
  ASSUME BookInv, NEW w \in {"owner", "sup"}, settling[w].at \in {"visit", "act", "send"},
         settling' = [settling EXCEPT ![w] = passed(settling[w], TRUE)], proc' = proc
  PROVE  \E r : Settled(w, r)
<1>1. PICK s, t : s = settling[w] /\ t = passed(s, TRUE)
  OBVIOUS
<1>2. s \in Settlement /\ settling' = [settling EXCEPT ![w] = t]
  BY <1>1 DEF BookInv
<1>3. t \in Settlement /\ t.at = "snap"
  BY <1>1, <1>2, PassedFields
<1>4. PassOf(w, s, proc) => PassOf(w, t, proc)
  BY <1>1, <1>2, PassedChanged
<1> QED
  BY <1>1, <1>2, <1>3, <1>4 DEF Settled

\* The rest of a pass that goes on.
LEMMA GoesOn ==
  ASSUME NEW w \in {"owner", "sup"}, NEW t \in Settlement, t.at = "visit",
         settling' = [settling EXCEPT ![w] = goOn(t)], PassOf(w, settling[w], proc) => PassOf(w, t, proc')
  PROVE  \E r : Settled(w, r)
<1>1. goOn(t) \in Settlement /\ goOn(t).at # "send"
  BY GoneOn
<1>2. PassOf(w, t, proc') => PassOf(w, goOn(t), proc')
  BY GoingOn
<1> QED
  BY <1>1, <1>2 DEF Settled

LEMMA allPIDsSettles ==
  ASSUME TableInv, BookInv, NEW w \in {"owner", "sup"}, allPIDs(w)
  PROVE  \E r : Settled(w, r)
<1>0. PICK s : s = settling[w]
  OBVIOUS
<1>1. s \in Settlement /\ s.at = "snap" /\ proc' = proc
  BY <1>0 DEF BookInv, allPIDs
<1>2. PICK X \in SUBSET Pids : X = IF w = "sup" THEN {p \in Pids \ {0} : alive(p)} ELSE {p \in Pids : member(p)}
  OBVIOUS
<1>3. Covered(w, proc) \subseteq X /\ (w = "sup" => 0 \notin X)
  BY <1>2, MembersCovered DEF targets, member
<1>4. CASE settling' = [settling EXCEPT ![w] = goOn([s EXCEPT !.at = "visit", !.unsure = FALSE, !.todo = X])]
  <2>1. PICK t : t = [s EXCEPT !.at = "visit", !.unsure = FALSE, !.todo = X]
    OBVIOUS
  <2>2. t \in Settlement /\ t.at = "visit"
    BY <1>1, <2>1 DEF Settlement
  <2>3. PassOf(w, s, proc) => PassOf(w, t, proc)
    BY <1>1, <1>3, <2>1, Listing
  <2> QED
    BY <1>0, <1>1, <1>4, <2>1, <2>2, <2>3, GoesOn
<1>5. CASE settling' = [settling EXCEPT ![w] = [s EXCEPT !.at = "err"]]
  BY <1>0, <1>1, <1>5, FailingSettles
<1>6. CASE w = "owner" /\ \E q \in Pids : LET found == {p \in Pids \ {q} : member(p)} IN
               settling' = [settling EXCEPT ![w] = [s EXCEPT !.at = "visit", !.todo = found, !.unsure = TRUE]]
  <2>0. PICK F \in SUBSET Pids :
          settling' = [settling EXCEPT ![w] = [s EXCEPT !.at = "visit", !.todo = F, !.unsure = TRUE]]
    BY <1>6
  <2>1. PICK t : t = [s EXCEPT !.at = "visit", !.unsure = TRUE, !.todo = F]
    OBVIOUS
  <2>2. t \in Settlement /\ t.at = "visit" /\ t = [s EXCEPT !.at = "visit", !.todo = F, !.unsure = TRUE]
    BY <1>1, <2>1 DEF Settlement
  <2>3. PassOf(w, s, proc) => PassOf(w, t, proc)
    BY <1>1, <1>6, <2>1, Listing
  <2> QED
    BY <1>0, <1>1, <2>0, <2>2, <2>3 DEF Settled
<1> QED
  BY <1>0, <1>2, <1>4, <1>5, <1>6 DEF allPIDs

LEMMA DeadlineSettles ==
  ASSUME TableInv, BookInv, NEW w \in {"owner", "sup"}, Deadline(w)
  PROVE  \E r : Settled(w, r)
<1>1. proc' = proc /\ settling' = [settling EXCEPT ![w] = [settling[w] EXCEPT !.at = "err"]]
  BY DEF Deadline
<1> QED
  BY <1>1, FailingSettles

LEMMA GenBound == ASSUME TableInv, CountInv, NEW p \in Pids PROVE proc[p].gen \in Gens
<1>1. proc[p].gen \in Nat
  BY DEF TableInv, Entry
<1>2. Born(p) \in {0, 1} /\ proc[p].gen <= forks + hosts + Born(p) /\ forks \in 0..MaxForks /\ hosts \in 0..MaxHosts
  BY DEF CountInv, Born
<1>3. MaxForks \in Nat /\ MaxHosts \in Nat
  BY BoundsAssumption
<1>4. proc[p].gen <= MaxForks + MaxHosts + 1
  BY <1>1, <1>2, <1>3
<1> QED
  BY <1>1, <1>3, <1>4 DEF Gens

LEMMA visitEntrySettles ==
  ASSUME TableInv, BookInv, NEW w \in {"owner", "sup"}, visitEntry(w)
  PROVE  \E r : Settled(w, r)
<1>0. PICK s : s = settling[w]
  OBVIOUS
<1>1. s \in Settlement /\ proc' = proc /\ s.at = "visit"
  BY <1>0 DEF BookInv, visitEntry
<1>2. PICK p \in s.todo :
        LET rest == [s EXCEPT !.todo = @ \ {p}]
            acts == [rest EXCEPT !.at = "act", !.pid = p, !.gen = proc[p].gen, !.hit = @ \/ s.phase = "kill"] IN
        \/ /\ member(p)
           /\ settling' = [settling EXCEPT ![w] =
                  IF s.phase = "stop" /\ proc[p].st = "stopped" THEN goOn(rest) ELSE acts]
        \/ /\ ~alive(p) \/ (w = "sup" /\ ~member(p))
           /\ settling' = [settling EXCEPT ![w] = goOn(rest)]
        \/ settling' = [settling EXCEPT ![w] = passed(s, TRUE)]
        \/ settling' = [settling EXCEPT ![w] = [s EXCEPT !.at = "err"]]
  BY <1>0 DEF visitEntry
<1>3. p \in Pids /\ proc[p].gen \in Gens
  BY <1>1, Fields, GenBound DEF BookInv
<1>4. PICK rest, acts :
        /\ rest = [s EXCEPT !.todo = @ \ {p}]
        /\ acts = [rest EXCEPT !.at = "act", !.pid = p, !.gen = proc[p].gen, !.hit = @ \/ s.phase = "kill"]
  OBVIOUS
<1>5. /\ rest \in Settlement /\ rest.at = "visit" /\ rest.todo = s.todo \ {p} /\ rest.hit = s.hit /\ rest.phase = s.phase
      /\ rest.stable = s.stable /\ rest.unsure = s.unsure /\ rest.forked = s.forked /\ rest.missed = s.missed
  BY <1>1, <1>4 DEF Settlement
<1>6. CASE /\ p \notin Covered(w, proc) \/ (s.phase = "stop" /\ p \notin Running(w, proc))
           /\ settling' = [settling EXCEPT ![w] = goOn(rest)]
  <2>1. PassOf(w, s, proc) => PassOf(w, rest, proc)
    BY <1>1, <1>4, <1>6, Skipping
  <2> QED
    BY <1>0, <1>1, <1>5, <1>6, <2>1, GoesOn
<1>7. CASE settling' = [settling EXCEPT ![w] = acts]
  <2>1. PICK b \in BOOLEAN : b = (s.hit \/ s.phase = "kill")
    BY <1>1, Fields
  <2>2. acts = [rest EXCEPT !.at = "act", !.pid = p, !.gen = proc[p].gen, !.hit = b]
    BY <1>4, <1>5, <2>1
  <2>3. /\ acts \in Settlement /\ acts.at = "act" /\ acts.pid = p /\ acts.gen = proc[p].gen /\ acts.hit = b
        /\ acts.todo = rest.todo /\ acts.phase = rest.phase /\ acts.stable = rest.stable
        /\ acts.unsure = rest.unsure /\ acts.forked = rest.forked /\ acts.missed = rest.missed
    BY <1>3, <1>5, <2>1, <2>2 DEF Settlement
  <2>4. PassOf(w, s, proc) => PassOf(w, acts, proc)
    BY <1>1, <1>5, <2>1, <2>3, Acting
  <2> QED
    BY <1>0, <1>1, <1>7, <2>3, <2>4 DEF Settled
<1>8. CASE settling' = [settling EXCEPT ![w] = passed(s, TRUE)]
  BY <1>0, <1>1, <1>8, ChangedSettles
<1>9. CASE settling' = [settling EXCEPT ![w] = [s EXCEPT !.at = "err"]]
  BY <1>0, <1>1, <1>9, FailingSettles
<1>10. \/ settling' = [settling EXCEPT ![w] = passed(s, TRUE)]
       \/ settling' = [settling EXCEPT ![w] = [s EXCEPT !.at = "err"]]
       \/ settling' = [settling EXCEPT ![w] = acts]
       \/ /\ p \notin Covered(w, proc) \/ (s.phase = "stop" /\ p \notin Running(w, proc))
          /\ settling' = [settling EXCEPT ![w] = goOn(rest)]
  <2>1. ~alive(p) \/ ~member(p) => p \notin Covered(w, proc)
    BY <1>3, MembersCovered
  <2>2. proc[p].st = "stopped" => p \notin Running(w, proc)
    BY <1>3, MembersCovered
  <2> QED
    BY <1>2, <1>4, <2>1, <2>2
<1> QED
  BY <1>6, <1>7, <1>8, <1>9, <1>10

\* The identity is that of a process of the Session, here and now.
LEMMA sameIdentitySettles ==
  ASSUME TableInv, BookInv, NEW w \in {"owner", "sup"}, sameIdentity(w)
  PROVE  \E r : Settled(w, r)
<1>0. PICK s : s = settling[w]
  OBVIOUS
<1>1. s \in Settlement /\ proc' = proc /\ s.at = "act"
  BY <1>0 DEF BookInv, sameIdentity
<1>2. PICK rest, send : rest = [s EXCEPT !.at = "visit", !.pid = 0, !.gen = 0] /\ send = [s EXCEPT !.at = "send"]
  OBVIOUS
<1>3. CASE proc[s.pid].kind = "member" /\ settling' = [settling EXCEPT ![w] = send]
  <2>1. send \in Settlement /\ send.pid = s.pid
    BY <1>1, <1>2 DEF Settlement
  <2>2. PassOf(w, s, proc) => PassOf(w, send, proc)
    BY <1>1, <1>2, Sending
  <2> QED
    BY <1>0, <1>1, <1>3, <2>1, <2>2 DEF Settled
<1>4. CASE (~alive(s.pid) \/ proc[s.pid].gen # s.gen) /\ settling' = [settling EXCEPT ![w] = goOn(rest)]
  <2>1. rest \in Settlement /\ rest.at = "visit"
    BY <1>1, <1>2, Zero DEF Settlement
  <2>2. PassOf(w, s, proc) => PassOf(w, rest, proc)
    BY <1>1, <1>2, <1>4, Acted DEF alive
  <2> QED
    BY <1>0, <1>1, <1>4, <2>1, <2>2, GoesOn
<1>5. CASE settling' = [settling EXCEPT ![w] = passed(s, TRUE)]
  BY <1>0, <1>1, <1>5, ChangedSettles
<1>6. \/ proc[s.pid].kind = "member" /\ settling' = [settling EXCEPT ![w] = send]
      \/ (~alive(s.pid) \/ proc[s.pid].gen # s.gen) /\ settling' = [settling EXCEPT ![w] = goOn(rest)]
      \/ settling' = [settling EXCEPT ![w] = passed(s, TRUE)]
  BY <1>0, <1>2 DEF sameIdentity
<1> QED
  BY <1>3, <1>4, <1>5, <1>6

\* A signal reaches whoever has the PID by now.
Strikes(w) ==
    \/ proc' = proc
    \/ /\ alive(settling[w].pid) /\ (member(settling[w].pid) \/ w = "owner")
       /\ settling[w].pid \in Pids /\ settling[w].at = "send"
       /\ proc'[settling[w].pid].kind = proc[settling[w].pid].kind
       /\ \A p \in Pids \ {settling[w].pid} : proc'[p] = proc[p]
       /\ w = "sup" => Spares(proc, proc')

LEMMA signalSettles ==
  ASSUME TableInv, BookInv, NEW w \in {"owner", "sup"}, signal(w)
  PROVE  (\E r : Settled(w, r)) /\ Shrinks(proc, proc') /\ Kept(proc, proc') /\ Strikes(w)
<1>0. PICK s : s = settling[w]
  OBVIOUS
<1>1. s \in Settlement /\ s.at = "send" /\ s.pid \in Pids
  BY <1>0, Fields DEF BookInv, signal
<1>2. PICK rest, struck :
        /\ rest = [s EXCEPT !.at = "visit", !.pid = 0, !.gen = 0]
        /\ struck = [[s EXCEPT !.at = "visit", !.pid = 0, !.gen = 0] EXCEPT !.hit = TRUE]
  OBVIOUS
<1>3. /\ rest \in Settlement /\ rest.at = "visit" /\ rest.hit = s.hit /\ rest.hit \in BOOLEAN
      /\ struck = [rest EXCEPT !.hit = TRUE]
  BY <1>1, <1>2, Zero DEF Settlement
<1>3a. struck \in Settlement /\ struck.at = "visit"
  BY <1>3 DEF Settlement
<1>3b. PassOf(w, s, proc) => PassOf(w, struck, proc)
  BY <1>1, <1>2, Hitting
<1>4. CASE /\ alive(s.pid) /\ (member(s.pid) \/ w = "owner")
           /\ settling' = [settling EXCEPT ![w] = goOn(struck)]
           /\ proc' = [proc EXCEPT ![s.pid].st = IF @ = "dying" \/ s.phase = "kill" THEN "dying" ELSE "stopped"]
  <2>1. PICK x \in {"dying", "stopped"} : proc' = [proc EXCEPT ![s.pid].st = x] /\ (proc[s.pid].st = "dying" => x = "dying")
    BY <1>1, <1>4
  <2>2. /\ Shrinks(proc, proc') /\ Kept(proc, proc') /\ (member(s.pid) => Spares(proc, proc'))
        /\ proc'[s.pid].kind = proc[s.pid].kind /\ \A p \in Pids \ {s.pid} : proc'[p] = proc[p]
    BY <1>1, <1>4, <2>1, Signalled
  <2>3. PassOf(w, s, proc) => PassOf(w, struck, proc')
    BY <1>3a, <1>3b, <2>2, Shrinking
  <2>4. \E r : Settled(w, r)
    BY <1>0, <1>3a, <1>4, <2>3, GoesOn
  <2>5. Strikes(w)
    BY <1>0, <1>1, <1>4, <2>2 DEF Strikes
  <2> QED
    BY <2>2, <2>4, <2>5
<1>5. CASE ~alive(s.pid) /\ settling' = [settling EXCEPT ![w] = goOn(rest)] /\ proc' = proc
  <2>1. PassOf(w, s, proc) => PassOf(w, rest, proc)
    BY <1>1, <1>2, <1>5, Acted DEF alive
  <2>2. \E r : Settled(w, r)
    BY <1>0, <1>3, <1>5, <2>1, GoesOn
  <2> QED
    BY <1>5, <2>2, Unmoved DEF Strikes
<1>6. CASE settling' = [settling EXCEPT ![w] = goOn(struck)] /\ proc' = proc
  <2>1. \E r : Settled(w, r)
    BY <1>0, <1>3a, <1>3b, <1>6, GoesOn
  <2> QED
    BY <1>6, <2>1, Unmoved DEF Strikes
<1>7. CASE settling' = [settling EXCEPT ![w] = [s EXCEPT !.at = "err"]] /\ proc' = proc
  BY <1>0, <1>7, FailingSettles, Unmoved DEF Strikes
<1>8. [rest EXCEPT !.hit = s.hit] = rest
  BY <1>3 DEF Settlement
<1>9. \/ /\ alive(s.pid) /\ (member(s.pid) \/ w = "owner")
         /\ settling' = [settling EXCEPT ![w] = goOn(struck)]
         /\ proc' = [proc EXCEPT ![s.pid].st = IF @ = "dying" \/ s.phase = "kill" THEN "dying" ELSE "stopped"]
      \/ ~alive(s.pid) /\ settling' = [settling EXCEPT ![w] = goOn(rest)] /\ proc' = proc
      \/ settling' = [settling EXCEPT ![w] = goOn(struck)] /\ proc' = proc
      \/ settling' = [settling EXCEPT ![w] = [s EXCEPT !.at = "err"]] /\ proc' = proc
  <2>1. \/ /\ ~alive(s.pid)
           /\ \E hit \in {s.hit, TRUE} : settling' = [settling EXCEPT ![w] = goOn([rest EXCEPT !.hit = hit])]
           /\ proc' = proc
        \/ /\ member(s.pid) \/ (w = "owner" /\ alive(s.pid))
           /\ settling' = [settling EXCEPT ![w] = goOn(struck)]
           /\ proc' = [proc EXCEPT ![s.pid].st = IF @ = "dying" \/ s.phase = "kill" THEN "dying" ELSE "stopped"]
        \/ settling' = [settling EXCEPT ![w] = [s EXCEPT !.at = "err"]] /\ proc' = proc
    BY <1>0, <1>2, <1>3 DEF signal
  <2>2. member(s.pid) => alive(s.pid)
    BY DEF member
  <2> QED
    BY <2>1, <2>2, <1>3, <1>8
<1> QED
  BY <1>4, <1>5, <1>6, <1>7, <1>9

-----------------------------------------------------------------------------
\* How long the two directions of the socket are.
LEMMA Lengths ==
  ASSUME HandshakeInv
  PROVE  /\ Len(toSup) \in Nat /\ Len(toOwner) \in Nat /\ Len(<<>>) = 0 /\ Len(<<"C">>) = 1
         /\ toSup = <<>> <=> Len(toSup) = 0
         /\ toOwner = <<>> <=> Len(toOwner) = 0
  BY EmptySeq, LenProperties DEF HandshakeInv

LEMMA SupSent ==
  ASSUME HandshakeInv, NEW m \in ToSup, toSup' = Append(toSup, m) PROVE Len(toSup') = Len(toSup) + 1
  BY AppendProperties DEF HandshakeInv

LEMMA OwnerSent ==
  ASSUME HandshakeInv, NEW m \in ToOwner, toOwner' = Append(toOwner, m) PROVE Len(toOwner') = Len(toOwner) + 1
  BY AppendProperties DEF HandshakeInv

LEMMA SupRead == ASSUME HandshakeInv, NEW b, next(b) PROVE Len(toSup') = Len(toSup) - 1
  BY HeadTailProperties DEF HandshakeInv, next

LEMMA OwnerRead ==
  ASSUME HandshakeInv, toOwner # <<>>, toOwner' = Tail(toOwner)
  PROVE Len(toOwner') = Len(toOwner) - 1
  BY HeadTailProperties DEF HandshakeInv

\* Counters of what has happened only grow, within their bounds.
Counted ==
    /\ forks' = forks \/ (forks' = forks + 1 /\ forks < MaxForks)
    /\ hosts' = hosts \/ (hosts' = hosts + 1 /\ hosts < MaxHosts)
    /\ faults' = faults \/ (faults' = faults + 1 /\ faults < MaxFaults)
    /\ raced' \in SUBSET Pids

LEMMA Bounds ==
  ASSUME CountInv, Counted
  PROVE  /\ forks \in Nat /\ hosts \in Nat /\ forks' \in 0..MaxForks /\ hosts' \in 0..MaxHosts /\ faults' \in 0..MaxFaults
         /\ forks <= forks' /\ hosts <= hosts' /\ raced' \subseteq Pids
  BY BoundsAssumption DEF CountInv, Counted

LEMMA Uncounted == ASSUME CountInv, UNCHANGED count \/ Fault PROVE Counted /\ raced' = raced /\ forks' = forks /\ hosts' = hosts
  BY DEF CountInv, Counted, count, Fault

\* A PID counts its own generations.
LEMMA Counting ==
  ASSUME TableInv, CountInv, Kept(proc, proc'), Counted, started => started', sup # "off" => sup' # "off"
  PROVE  CountInv'
<1>1. ASSUME NEW p \in Pids
      PROVE  proc'[p].gen <= forks' + hosts' + Born(p)'
  <2>1. proc'[p].gen = proc[p].gen /\ proc[p].gen \in Nat /\ proc[p].gen <= forks + hosts + Born(p)
    BY DEF Kept, TableInv, Entry, CountInv
  <2>2. Born(p) \in {0, 1} /\ Born(p)' \in {0, 1} /\ Born(p) <= Born(p)'
    BY DEF Born
  <2>3. forks \in Nat /\ hosts \in Nat /\ forks' \in Nat /\ hosts' \in Nat /\ forks <= forks' /\ hosts <= hosts'
    BY Bounds
  <2> QED
    BY <2>1, <2>2, <2>3
<1> QED
  BY <1>1, Bounds DEF CountInv

LEMMA CountingTaken ==
  ASSUME TableInv, CountInv, NEW q \in Pids, proc'[q].gen = proc[q].gen + 1, \A p \in Pids \ {q} : proc'[p] = proc[p],
         Counted, started => started', sup # "off" => sup' # "off",
         (Born(q) = 0 /\ Born(q)' = 1) \/ forks' = forks + 1 \/ hosts' = hosts + 1
  PROVE  CountInv'
<1>1. ASSUME NEW p \in Pids
      PROVE  proc'[p].gen <= forks' + hosts' + Born(p)'
  <2>1. proc[p].gen \in Nat /\ proc[p].gen <= forks + hosts + Born(p)
    BY DEF CountInv, TableInv, Entry
  <2>2. Born(p) \in {0, 1} /\ Born(p)' \in {0, 1} /\ Born(p) <= Born(p)'
    BY DEF Born
  <2>3. forks \in Nat /\ hosts \in Nat /\ forks' \in Nat /\ hosts' \in Nat /\ forks <= forks' /\ hosts <= hosts'
    BY Bounds
  <2>4. CASE p # q
    BY <2>1, <2>2, <2>3, <2>4
  <2>5. CASE p = q
    BY <2>1, <2>2, <2>3, <2>5
  <2> QED
    BY <2>4, <2>5
<1> QED
  BY <1>1, Bounds DEF CountInv

-----------------------------------------------------------------------------
\* What can become of a settlement when it does not take a step of its own.
Moves(s, r) == r \in {s, Idle, Begun} \/ (s.at \in {"ok", "idle"} /\ r = [s EXCEPT !.at = "idle"])

LEMMA Moved ==
  ASSUME NEW w, NEW s \in Settlement, NEW P, NEW Q, PassOf(w, s, P), Shrinks(P, Q), NEW r, Moves(s, r)
  PROVE  r \in Settlement /\ PassOf(w, r, Q) /\ (r.at = "send" => r = s)
<1>1. CASE r = s
  BY <1>1, Shrinking
<1>2. CASE r \in {Idle, Begun}
  BY <1>2, Idling
<1>3. CASE s.at \in {"ok", "idle"} /\ r = [s EXCEPT !.at = "idle"]
  <2>1. r \in Settlement /\ r.at = "idle" /\ PassOf(w, r, P)
    BY <1>3, Parking
  <2> QED
    BY <2>1, Shrinking
<1> QED
  BY <1>1, <1>2, <1>3 DEF Moves

\* The end and the beginning of a settlement.
LEMMA Ended ==
  ASSUME BookInv, NEW w \in {"owner", "sup"}, ends(w)
  PROVE  /\ settling' \in [{"owner", "sup"} -> Settlement] /\ settling'[w].at = "idle"
         /\ Moves(settling[w], settling'[w])
         /\ \A v \in {"owner", "sup"} : v # w => settling'[v] = settling[v]
         /\ \A v \in {"owner", "sup"} : outrun(v)' <=> outrun(v)
<1>0. PICK s : s = settling[w]
  OBVIOUS
<1>1. s \in Settlement /\ settling \in [{"owner", "sup"} -> Settlement]
  BY <1>0 DEF BookInv
<1>2. PICK r : r = IF s.at \in {"ok", "idle"} THEN [s EXCEPT !.at = "idle"] ELSE Idle
  OBVIOUS
<1>3. settling' = [settling EXCEPT ![w] = r]
  BY <1>0, <1>2 DEF ends
<1>4. /\ r \in Settlement /\ r.at = "idle"
      /\ IF s.at \in {"ok", "idle"} THEN r.unsure = s.unsure /\ r.missed = s.missed ELSE ~r.unsure /\ r.missed = 0
  <2>1. CASE s.at \in {"ok", "idle"}
    BY <1>1, <1>2, <2>1 DEF Settlement
  <2>2. CASE s.at \notin {"ok", "idle"}
    <3>1. Idle \in Settlement /\ Idle.at = "idle"
      BY Idling
    <3>2. ~Idle.unsure /\ Idle.missed = 0
      BY DEF Idle
    <3> QED
      BY <1>2, <2>2, <3>1, <3>2
  <2> QED
    BY <2>1, <2>2
<1>5. settling'[w] = r /\ \A v \in {"owner", "sup"} : v # w => settling'[v] = settling[v]
  BY <1>1, <1>3
<1>6. settling' \in [{"owner", "sup"} -> Settlement]
  BY <1>1, <1>3, <1>4
<1>7. Moves(s, r)
  BY <1>2 DEF Moves
<1>8. ASSUME NEW v \in {"owner", "sup"} PROVE outrun(v)' <=> outrun(v)
  BY <1>0, <1>4, <1>5, <1>8 DEF outrun
<1> QED
  BY <1>0, <1>4, <1>5, <1>6, <1>7, <1>8

LEMMA Begins ==
  ASSUME BookInv, NEW w \in {"owner", "sup"}, begins(w)
  PROVE  /\ settling' \in [{"owner", "sup"} -> Settlement] /\ settling'[w] = Begun /\ Begun.at = "snap"
         /\ \A v \in {"owner", "sup"} : v # w => settling'[v] = settling[v]
<1>1. Begun \in Settlement /\ Begun.at = "snap"
  BY Idling
<1>2. settling' = [settling EXCEPT ![w] = Begun] /\ settling \in [{"owner", "sup"} -> Settlement]
  BY DEF begins, Begun, BookInv
<1> QED
  BY <1>1, <1>2

LEMMA Renewed ==
  ASSUME BookInv, settling' = renewed
  PROVE  /\ settling' \in [{"owner", "sup"} -> Settlement]
         /\ \A v \in {"owner", "sup"} :
                /\ settling'[v] = IF settling[v].at \in {"visit", "act", "send"}
                                  THEN [settling[v] EXCEPT !.forked = TRUE] ELSE settling[v]
                /\ settling'[v].at = settling[v].at /\ settling'[v].pid = settling[v].pid
                /\ settling[v] = Idle => settling'[v] = Idle
                /\ outrun(v)' <=> outrun(v)
<1>1. ASSUME NEW v \in {"owner", "sup"}
      PROVE  /\ settling'[v] = IF settling[v].at \in {"visit", "act", "send"}
                               THEN [settling[v] EXCEPT !.forked = TRUE] ELSE settling[v]
             /\ settling'[v] \in Settlement /\ settling'[v].at = settling[v].at /\ settling'[v].pid = settling[v].pid
             /\ settling'[v].unsure = settling[v].unsure /\ settling'[v].missed = settling[v].missed
             /\ settling[v] = Idle => settling'[v] = Idle
  <2>1. PICK s, r : s = settling[v] /\ r = IF s.at \in {"visit", "act", "send"} THEN [s EXCEPT !.forked = TRUE] ELSE s
    OBVIOUS
  <2>2. settling'[v] = r /\ s \in Settlement
    BY <1>1, <2>1 DEF renewed, BookInv
  <2>3. r \in Settlement /\ r.at = s.at /\ r.pid = s.pid /\ r.unsure = s.unsure /\ r.missed = s.missed
    BY <2>1, <2>2 DEF Settlement
  <2>4. s = Idle => r = Idle
    BY <2>1, Idling
  <2> QED
    BY <2>1, <2>2, <2>3, <2>4
<1>2. settling' \in [{"owner", "sup"} -> Settlement]
  <2>1. settling' = [w \in {"owner", "sup"} |-> settling'[w]]
    BY DEF renewed
  <2> QED
    BY <1>1, <2>1
<1>3. ASSUME NEW v \in {"owner", "sup"} PROVE outrun(v)' <=> outrun(v)
  BY <1>1 DEF outrun
<1> QED
  BY <1>1, <1>2, <1>3

LEMMA Unmoving ==
  ASSUME settling' = settling
  PROVE  \A v \in {"owner", "sup"} : Moves(settling[v], settling'[v]) /\ (outrun(v)' <=> outrun(v))
  BY DEF Moves, outrun

\* An empty tree stays empty, and the dying die.
LEMMA EmptyKept ==
  ASSUME TableInv', Shrinks(proc, proc')
  PROVE  /\ targets = {} => targets' = {}
         /\ (\A p \in Pids : member(p) => proc[p].st = "dying") => (\A p \in Pids : member(p) => proc[p].st = "dying")'
<1>1. \A p \in Pids : member(p)' => member(p) /\ (proc[p].st = "dying" => proc'[p].st = "dying")
  BY DEF Shrinks, member, alive
<1> QED
  BY <1>1 DEF targets

\* Nobody brings the supervisor back.
LEMMA NoRevival == ASSUME TableInv', Shrinks(proc, proc') PROVE alive(0)' => alive(0)
  BY PidsAssumption DEF Shrinks, alive, TableInv

\* Whatever was true of the releases stays true while processes only go.
LEMMA StillEmpty ==
  ASSUME TableInv', Shrinks(proc, proc'), EmptyInv, proof' \in {proof, "none"},
         owner' # owner => owner' \notin {"done", "recovered", "aborted", "startFailed"},
         \A v \in {"owner", "sup"} : outrun(v) => outrun(v)',
         sup = "report" => sup' = "report" \/ ~alive(0)'
  PROVE  EmptyInv'
<1>1. /\ targets = {} => targets' = {}
      /\ (\A p \in Pids : member(p) => proc[p].st = "dying") => (\A p \in Pids : member(p) => proc[p].st = "dying")'
      /\ alive(0)' => alive(0)
  BY EmptyKept, NoRevival
<1> QED
  BY <1>1 DEF EmptyInv

\* A settlement that came to its end has left nothing, unless it was outrun.
LEMMA SettledEmpty ==
  ASSUME TableInv, NEW w \in {"owner", "sup"}, PassOf(w, settling[w], proc), settling[w].at = "ok"
  PROVE  /\ outrun(w) \/ targets = {}
         /\ w = "owner" => outrun(w) \/ (~alive(0) /\ \A p \in Pids : ~member(p))
<1>1. outrun(w) \/ Covered(w, proc) = {}
  BY DEF PassOf, outrun
<1>2. targets \subseteq Covered(w, proc) /\ (w = "owner" => \A p \in Pids : member(p) => p \in Covered(w, proc))
  BY MembersCovered DEF targets
<1>3. alive(0) => member(0)
  BY DEF TableInv, member
<1> QED
  BY <1>1, <1>2, <1>3, PidsAssumption

LEMMA FreeIsNobody == Free.gen = 0 /\ Free.st = "free" /\ Free.kind = "member"
  BY DEF Free

LEMMA NobodyYet ==
  ASSUME ControlInv
  PROVE  /\ sup = "off" => \A p \in Pids : ~member(p)
         /\ ~started => targets = {}
  BY FreeIsNobody DEF ControlInv, targets, member, alive

\* While no process of the host is touched, ACS is about to signal the same one.
LEMMA StillRacing ==
  ASSUME TableInv, TableInv', BookInv, RaceInv, Spares(proc, proc'), raced' = raced,
         settling'["owner"].at = "send" => settling["owner"].at = "send" /\ settling'["owner"].pid = settling["owner"].pid
  PROVE  RaceInv'
<1>1. \A p \in Pids : alive(p)' => member(p)' \/ (proc'[p] = proc[p] /\ proc[p].kind = "host")
  BY DEF Spares, alive, member, TableInv, Entry
<1>2. HostUntouched'
  BY <1>1 DEF RaceInv, HostUntouched, Spares, alive
<1>3. ASSUME settling'["owner"].at = "send", NEW q, q = settling'["owner"].pid, proc'[q].st # "free"
      PROVE  proc'[q].kind = "member" \/ q \in raced'
  <2>1. q = settling["owner"].pid /\ settling["owner"].at = "send" /\ q \in Pids
    BY <1>3, Fields DEF BookInv
  <2>2. proc'[q].kind = "member" \/ (proc'[q] = proc[q] /\ proc[q].kind = "host")
    BY <1>1, <1>3, <2>1 DEF alive, member
  <2> QED
    BY <1>3, <2>1, <2>2 DEF RaceInv, alive, member
<1>4. (settling["owner"].at = "send" /\ alive(settling["owner"].pid) =>
          member(settling["owner"].pid) \/ settling["owner"].pid \in raced)'
  BY <1>3 DEF alive, member
<1> QED
  BY <1>2, <1>4 DEF RaceInv

\* A step that takes no PID and touches no process of the host leaves what the
\* settlements know, and whom ACS may signal.
LEMMA Undisturbed ==
  ASSUME TableInv, TableInv', BookInv, SettledInv, Shrinks(proc, proc'), Spares(proc, proc'), raced' = raced,
         \A v \in {"owner", "sup"} : Moves(settling[v], settling'[v]), EmptyInv'
  PROVE  SettledInv'
<1>1. ASSUME NEW v \in {"owner", "sup"}
      PROVE  PassOf(v, settling'[v], proc') /\ (settling'[v].at = "send" => settling'[v] = settling[v])
  <2>1. PassOf(v, settling[v], proc) /\ settling[v] \in Settlement
    BY DEF SettledInv, BookInv
  <2> QED
    BY <2>1, Moved
<1>2. RaceInv'
  BY <1>1, StillRacing DEF SettledInv
<1> QED
  BY <1>1, <1>2 DEF SettledInv

-----------------------------------------------------------------------------
\* A settlement's steps leave everything else alone.
Apart == UNCHANGED frame /\ Counted /\ forks' = forks /\ hosts' = hosts /\ raced' = raced

LEMMA SettlingStep ==
  ASSUME TableInv, BookInv, NEW w \in {"owner", "sup"}, Settling(w)
  PROVE  /\ runs(w) /\ Apart /\ Shrinks(proc, proc') /\ Kept(proc, proc') /\ Strikes(w)
         /\ settling[w].at \in {"snap", "visit", "act", "send"}
         /\ \E r : Settled(w, r)
<1>0. CountInv
  BY DEF BookInv
<1>1. CASE allPIDs(w)
  <2>1. UNCHANGED count \/ Fault
    BY <1>1 DEF allPIDs
  <2>2. runs(w) /\ UNCHANGED frame /\ proc' = proc /\ settling[w].at = "snap"
    BY <1>1 DEF allPIDs
  <2>3. Apart
    BY <1>0, <2>1, <2>2, Uncounted DEF Apart
  <2> QED
    BY <1>1, <2>2, <2>3, Unmoved, allPIDsSettles DEF Strikes
<1>2. CASE visitEntry(w)
  <2>1. UNCHANGED count \/ Fault
    BY <1>2 DEF visitEntry
  <2>2. runs(w) /\ UNCHANGED frame /\ proc' = proc /\ settling[w].at = "visit"
    BY <1>2 DEF visitEntry
  <2>3. Apart
    BY <1>0, <2>1, <2>2, Uncounted DEF Apart
  <2> QED
    BY <1>2, <2>2, <2>3, Unmoved, visitEntrySettles DEF Strikes
<1>3. CASE sameIdentity(w)
  <2>1. UNCHANGED count \/ Fault
    BY <1>3 DEF sameIdentity
  <2>2. runs(w) /\ UNCHANGED frame /\ proc' = proc /\ settling[w].at = "act"
    BY <1>3 DEF sameIdentity
  <2>3. Apart
    BY <1>0, <2>1, <2>2, Uncounted DEF Apart
  <2> QED
    BY <1>3, <2>2, <2>3, Unmoved, sameIdentitySettles DEF Strikes
<1>4. CASE signal(w)
  <2>1. UNCHANGED count /\ runs(w) /\ UNCHANGED frame /\ settling[w].at = "send"
    BY <1>4 DEF signal
  <2>2. Apart
    BY <1>0, <2>1, Uncounted DEF Apart
  <2> QED
    BY <1>4, <2>1, <2>2, signalSettles
<1>5. CASE Deadline(w)
  <2>1. runs(w) /\ Fault /\ UNCHANGED frame /\ proc' = proc /\ settling[w].at = "snap"
    BY <1>5 DEF Deadline
  <2>2. Apart
    BY <1>0, <2>1, Uncounted DEF Apart
  <2> QED
    BY <1>5, <2>1, <2>2, Unmoved, DeadlineSettles DEF Strikes
<1> QED
  BY <1>1, <1>2, <1>3, <1>4, <1>5 DEF Settling

LEMMA SettlingBooks ==
  ASSUME TableInv, TableInv', HandshakeInv, BookInv, NEW w \in {"owner", "sup"}, Settling(w)
  PROVE  BookInv'
<1>1. runs(w) /\ Apart /\ Kept(proc, proc') /\ Shrinks(proc, proc')
  BY SettlingStep
<1>2. PICK r : r \in Settlement /\ settling' = [settling EXCEPT ![w] = r]
  BY SettlingStep DEF Settled
<1>3. Scalars'
  BY <1>1 DEF BookInv, Scalars, Apart, frame, ownerVars, supVars, wire
<1>4. settling' \in [{"owner", "sup"} -> Settlement]
  BY <1>2 DEF BookInv
<1>5. CountInv'
  BY <1>1, Counting DEF BookInv, Apart, frame, supVars
<1>6. WireInv'
  BY <1>1 DEF BookInv, WireInv, Apart, frame, ownerVars, supVars, wire
<1>7. ControlInv'
  <2>1. /\ settling'["sup"].at # "idle" => sup = "settle"
        /\ sup \notin {"settle", "report", "exited"} => settling'["sup"] = Idle
        /\ settling'["owner"].at # "idle" => owner \in {"settle", "failSettle"}
    BY <1>1, <1>2 DEF BookInv, ControlInv, runs
  <2>2. sup' = sup /\ owner' = owner /\ started' = started /\ proof' = proof
    BY <1>1 DEF Apart, frame, ownerVars, supVars
  <2>3. \A p \in Pids : proc[p] = Free => proc'[p] = Free
    BY <1>1 DEF Kept, Free
  <2>4. alive(0)' => alive(0)
    BY <1>1, NoRevival
  <2> QED
    BY <2>1, <2>2, <2>3, <2>4 DEF BookInv, ControlInv
<1> QED
  BY <1>3, <1>4, <1>5, <1>6, <1>7 DEF BookInv

\* A signal of ACS hits a process of the host only when it took the PID of a
\* target since ACS looked at it.
LEMMA SettlingRaces ==
  ASSUME TableInv, TableInv', BookInv, RaceInv, NEW w \in {"owner", "sup"}, Settling(w)
  PROVE  RaceInv'
<1>1. Apart /\ Strikes(w) /\ settling[w] \in Settlement
  BY SettlingStep DEF BookInv
<1>2. PICK r : Settled(w, r)
  BY SettlingStep
<1>3. CASE w = "sup"
  <2>1. settling'["owner"] = settling["owner"]
    BY <1>2, <1>3 DEF Settled, BookInv
  <2>2. Spares(proc, proc')
    BY <1>1, <1>3, Unmoved DEF Strikes
  <2> QED
    BY <1>1, <2>1, <2>2, StillRacing DEF Apart
<1>4. CASE w = "owner"
  <2>1. settling'["owner"] = r /\ (r.at = "send" => proc'[r.pid].kind = "member") /\ raced' = raced
    BY <1>1, <1>2, <1>4 DEF Settled, BookInv, Apart
  <2>2. HostUntouched'
    <3>1. CASE proc' = proc
      BY <2>1, <3>1 DEF RaceInv, HostUntouched, alive
    <3>2. CASE proc' # proc
      <4>1. PICK q \in Pids : /\ q = settling["owner"].pid /\ settling["owner"].at = "send" /\ alive(q)
                              /\ proc'[q].kind = proc[q].kind /\ \A p \in Pids \ {q} : proc'[p] = proc[p]
        BY <1>1, <1>4, <3>2 DEF Strikes
      <4>2. member(q) \/ q \in raced
        BY <4>1 DEF RaceInv
      <4>3. ASSUME NEW p \in Pids \ raced, proc'[p].kind = "host", proc'[p].st # "free"
            PROVE  proc'[p].st = "running"
        <5>1. p # q
          BY <4>1, <4>2, <4>3 DEF member
        <5>2. proc'[p] = proc[p]
          BY <4>1, <5>1
        <5> QED
          BY <4>3, <5>2 DEF RaceInv, HostUntouched, alive
      <4> QED
        BY <2>1, <4>3 DEF HostUntouched, alive
    <3> QED
      BY <3>1, <3>2
  <2>3. (settling["owner"].at = "send" /\ alive(settling["owner"].pid) =>
            member(settling["owner"].pid) \/ settling["owner"].pid \in raced)'
    BY <2>1 DEF member, alive
  <2> QED
    BY <2>2, <2>3 DEF RaceInv
<1> QED
  BY <1>3, <1>4

LEMMA SettlingReleases ==
  ASSUME TableInv, TableInv', HandshakeInv, BookInv, BookInv', SettledInv, NEW w \in {"owner", "sup"}, Settling(w)
  PROVE  SettledInv'
<1>1. runs(w) /\ Apart /\ Shrinks(proc, proc') /\ settling[w].at \notin {"ok", "idle"}
  BY SettlingStep
<1>2. EmptyInv /\ RaceInv /\ \A v \in {"owner", "sup"} : PassOf(v, settling[v], proc) /\ settling[v] \in Settlement
  BY DEF SettledInv, BookInv
<1>3. PICK r : Settled(w, r)
  BY SettlingStep
<1>4. settling'[w] = r /\ \A v \in {"owner", "sup"} : v # w => settling'[v] = settling[v]
  BY <1>3 DEF Settled, BookInv
<1>5. EmptyInv'
  <2>1. sup' = sup /\ owner' = owner /\ proof' = proof
    BY <1>1 DEF Apart, frame, ownerVars, supVars
  <2>2. \A v \in {"owner", "sup"} : outrun(v) => outrun(v)'
    BY <1>1, <1>4 DEF outrun
  <2> QED
    BY <1>1, <1>2, <2>1, <2>2, StillEmpty
<1>6. ASSUME NEW v \in {"owner", "sup"}
      PROVE  PassOf(v, settling'[v], proc')
  <2>1. CASE v = w
    BY <1>2, <1>3, <1>4, <2>1 DEF Settled
  <2>2. CASE v # w
    BY <1>1, <1>2, <1>4, <2>2, Shrinking
  <2> QED
    BY <2>1, <2>2
<1>7. RaceInv'
  BY <1>2, SettlingRaces
<1> QED
  BY <1>5, <1>6, <1>7 DEF SettledInv

-----------------------------------------------------------------------------
(* The books, action by action. *)

\* Nothing was started yet, so there is nobody to settle.
LEMMA AbortPreparedBooks == ASSUME TableInv, TableInv', HandshakeInv, BookInv, AbortPrepared PROVE BookInv'
<1>1. Shrinks(proc, proc') /\ Kept(proc, proc')
  BY Unmoved DEF AbortPrepared
<1>2. Scalars'
  BY DEF BookInv, Scalars, AbortPrepared, supVars, count
<1>3. settling' \in [{"owner", "sup"} -> Settlement]
  BY DEF BookInv, AbortPrepared, supVars, count
<1>4. CountInv'
  BY <1>1, Uncounted, Counting DEF BookInv, AbortPrepared, supVars
<1>5. WireInv'
  BY DEF BookInv, WireInv, AbortPrepared, supVars
<1>6. ControlInv'
  <2>1. \A q \in Pids : proc[q] = Free => proc'[q] = Free
    BY <1>1 DEF Kept, Free
  <2>2. alive(0)' => alive(0)
    BY <1>1, NoRevival
  <2> QED
    BY <2>1, <2>2 DEF BookInv, ControlInv, AbortPrepared, supVars
<1> QED
  BY <1>2, <1>3, <1>4, <1>5, <1>6 DEF BookInv

\* The start byte follows the challenge, which was read before the ready byte
\* came.
LEMMA startSupervisorBooks == ASSUME TableInv, TableInv', HandshakeInv, BookInv, startSupervisor PROVE BookInv'
<1>1. Shrinks(proc, proc') /\ Kept(proc, proc')
  BY Unmoved DEF startSupervisor
<1>2. Scalars'
  BY DEF BookInv, Scalars, startSupervisor, supVars, count
<1>3. settling' \in [{"owner", "sup"} -> Settlement]
  BY DEF BookInv, startSupervisor, supVars, count
<1>4. CountInv'
  BY <1>1, Uncounted, Counting DEF BookInv, startSupervisor, supVars
<1>5. WireInv'
  BY DEF BookInv, WireInv, HandshakeInv, startSupervisor, supVars
<1>6. ControlInv'
  <2>1. \A q \in Pids : proc[q] = Free => proc'[q] = Free
    BY <1>1 DEF Kept, Free
  <2>2. alive(0)' => alive(0)
    BY <1>1, NoRevival
  <2> QED
    BY <2>1, <2>2 DEF BookInv, ControlInv, startSupervisor, supVars
<1> QED
  BY <1>2, <1>3, <1>4, <1>5, <1>6 DEF BookInv

LEMMA supervisorStartedBooks == ASSUME TableInv, TableInv', HandshakeInv, BookInv, supervisorStarted PROVE BookInv'
<1>1. Shrinks(proc, proc') /\ Kept(proc, proc')
  BY Unmoved DEF supervisorStarted
<1>2. Scalars'
  BY DEF BookInv, Scalars, supervisorStarted, wire, supVars
<1>3. settling' \in [{"owner", "sup"} -> Settlement]
  BY DEF BookInv, supervisorStarted, wire, supVars, count
<1>4. CountInv'
  BY <1>1, Uncounted, Counting DEF BookInv, supervisorStarted, wire, supVars
<1>5. WireInv'
  BY DEF BookInv, WireInv, supervisorStarted, wire, supVars
<1>6. ControlInv'
  <2>1. \A q \in Pids : proc[q] = Free => proc'[q] = Free
    BY <1>1 DEF Kept, Free
  <2>2. alive(0)' => alive(0)
    BY <1>1, NoRevival
  <2> QED
    BY <2>1, <2>2 DEF BookInv, ControlInv, supervisorStarted, supVars
<1> QED
  BY <1>2, <1>3, <1>4, <1>5, <1>6 DEF BookInv

\* A verified Session is settled, any other only loses the group of the proxy.
LEMMA startSupervisorFailsBooks ==
  ASSUME TableInv, TableInv', HandshakeInv, BookInv, startSupervisorFails
  PROVE BookInv'
<1>1. Shrinks(proc, proc') /\ Kept(proc, proc')
  BY Unmoved, SupKilled DEF startSupervisorFails
<1>2. Scalars'
  BY DEF BookInv, Scalars, startSupervisorFails, supVars, count, Fault, begins
<1>3. settling' \in [{"owner", "sup"} -> Settlement]
  BY Begins DEF BookInv, startSupervisorFails
<1>4. CountInv'
  BY <1>1, Uncounted, Counting DEF BookInv, startSupervisorFails, supVars
<1>5. WireInv'
  BY DEF BookInv, WireInv, startSupervisorFails, supVars
<1>6. ControlInv'
  <2>1. \A q \in Pids : proc[q] = Free => proc'[q] = Free
    BY <1>1 DEF Kept, Free
  <2>2. alive(0)' => alive(0)
    BY <1>1, NoRevival
  <2> QED
    BY <2>1, <2>2, Begins DEF BookInv, ControlInv, startSupervisorFails, supVars
<1> QED
  BY <1>2, <1>3, <1>4, <1>5, <1>6 DEF BookInv

LEMMA startSettledBooks == ASSUME TableInv, TableInv', HandshakeInv, BookInv, startSettled PROVE BookInv'
<1>1. Shrinks(proc, proc') /\ Kept(proc, proc')
  BY Unmoved, SupKilled DEF startSettled
<1>2. Scalars'
  BY DEF BookInv, Scalars, startSettled, wire, supVars
<1>3. settling' \in [{"owner", "sup"} -> Settlement]
  BY Ended DEF BookInv, startSettled
<1>4. CountInv'
  BY <1>1, Uncounted, Counting DEF BookInv, startSettled, supVars
<1>5. WireInv'
  BY DEF BookInv, WireInv, startSettled, wire, supVars
<1>6. ControlInv'
  <2>1. \A q \in Pids : proc[q] = Free => proc'[q] = Free
    BY <1>1 DEF Kept, Free
  <2>2. alive(0)' => alive(0)
    BY <1>1, NoRevival
  <2> QED
    BY <2>1, <2>2, Ended DEF BookInv, ControlInv, startSettled, supVars
<1> QED
  BY <1>2, <1>3, <1>4, <1>5, <1>6 DEF BookInv

LEMMA SignalBooks == ASSUME TableInv, TableInv', HandshakeInv, BookInv, Signal PROVE BookInv'
<1>1. Shrinks(proc, proc') /\ Kept(proc, proc')
  BY Unmoved DEF Signal
<1>2. Scalars'
  BY DEF BookInv, Scalars, Signal, ownerVars, supVars
<1>3. settling' \in [{"owner", "sup"} -> Settlement]
  BY DEF BookInv, Signal, ownerVars, supVars, count
<1>4. CountInv'
  BY <1>1, Uncounted, Counting DEF BookInv, Signal, ownerVars, supVars
<1>5. WireInv'
  BY DEF BookInv, WireInv, Signal, ownerVars, supVars
<1>6. ControlInv'
  <2>1. \A q \in Pids : proc[q] = Free => proc'[q] = Free
    BY <1>1 DEF Kept, Free
  <2>2. alive(0)' => alive(0)
    BY <1>1, NoRevival
  <2> QED
    BY <2>1, <2>2 DEF BookInv, ControlInv, Signal, ownerVars, supVars
<1> QED
  BY <1>2, <1>3, <1>4, <1>5, <1>6 DEF BookInv

\* The kill request is the third packet the control may have to hold.
LEMMA cancelBooks == ASSUME TableInv, TableInv', HandshakeInv, BookInv, cancel PROVE BookInv'
<1>1. Shrinks(proc, proc') /\ Kept(proc, proc')
  BY Unmoved, SupKilled DEF cancel
<1>2. Scalars'
  BY DEF BookInv, Scalars, cancel, supVars, count
<1>3. settling' \in [{"owner", "sup"} -> Settlement]
  BY DEF BookInv, cancel, supVars, count
<1>4. CountInv'
  BY <1>1, Uncounted, Counting DEF BookInv, cancel, supVars
<1>5. WireInv'
  BY DEF BookInv, WireInv, cancel, supVars
<1>6. ControlInv'
  <2>1. \A q \in Pids : proc[q] = Free => proc'[q] = Free
    BY <1>1 DEF Kept, Free
  <2>2. alive(0)' => alive(0)
    BY <1>1, NoRevival
  <2> QED
    BY <2>1, <2>2 DEF BookInv, ControlInv, cancel, supVars
<1> QED
  BY <1>2, <1>3, <1>4, <1>5, <1>6 DEF BookInv

\* ACS settles the Session whatever the answer was.
LEMMA readCleanupProofBooks == ASSUME TableInv, TableInv', HandshakeInv, BookInv, readCleanupProof PROVE BookInv'
<1>1. Shrinks(proc, proc') /\ Kept(proc, proc')
  BY Unmoved DEF readCleanupProof
<1>2. Scalars'
  BY DEF BookInv, Scalars, readCleanupProof, supVars
<1>3. settling' \in [{"owner", "sup"} -> Settlement]
  BY Begins DEF BookInv, readCleanupProof, supVars, count
<1>4. CountInv'
  BY <1>1, Uncounted, Counting DEF BookInv, readCleanupProof, supVars
<1>5. WireInv'
  BY DEF BookInv, WireInv, readCleanupProof, supVars
<1>6. ControlInv'
  <2>1. \A q \in Pids : proc[q] = Free => proc'[q] = Free
    BY <1>1 DEF Kept, Free
  <2>2. alive(0)' => alive(0)
    BY <1>1, NoRevival
  <2> QED
    BY <2>1, <2>2, Begins DEF BookInv, ControlInv, readCleanupProof, supVars
<1> QED
  BY <1>2, <1>3, <1>4, <1>5, <1>6 DEF BookInv

LEMMA waitForSupervisorProofBooks ==
  ASSUME TableInv, TableInv', HandshakeInv, BookInv, waitForSupervisorProof
  PROVE BookInv'
<1>1. Shrinks(proc, proc') /\ Kept(proc, proc')
  BY Unmoved DEF waitForSupervisorProof
<1>2. Scalars'
  BY DEF BookInv, Scalars, waitForSupervisorProof, wire, supVars
<1>3. settling' \in [{"owner", "sup"} -> Settlement]
  BY Ended DEF BookInv, waitForSupervisorProof
<1>4. CountInv'
  BY <1>1, Uncounted, Counting DEF BookInv, waitForSupervisorProof, supVars
<1>5. WireInv'
  BY DEF BookInv, WireInv, waitForSupervisorProof, wire, supVars
<1>6. ControlInv'
  <2>1. \A q \in Pids : proc[q] = Free => proc'[q] = Free
    BY <1>1 DEF Kept, Free
  <2>2. alive(0)' => alive(0)
    BY <1>1, NoRevival
  <2> QED
    BY <2>1, <2>2, Ended DEF BookInv, ControlInv, waitForSupervisorProof, supVars
<1> QED
  BY <1>2, <1>3, <1>4, <1>5, <1>6 DEF BookInv

LEMMA OwnerDiesBooks == ASSUME TableInv, TableInv', HandshakeInv, BookInv, OwnerDies PROVE BookInv'
<1>1. Shrinks(proc, proc') /\ Kept(proc, proc')
  BY Unmoved DEF OwnerDies
<1>2. Scalars'
  BY DEF BookInv, Scalars, OwnerDies, supVars, Fault
<1>3. settling' \in [{"owner", "sup"} -> Settlement]
  BY Ended DEF BookInv, OwnerDies, supVars, Fault
<1>4. CountInv'
  BY <1>1, Uncounted, Counting DEF BookInv, OwnerDies, supVars
<1>5. WireInv'
  BY DEF BookInv, WireInv, OwnerDies, supVars
<1>6. ControlInv'
  <2>1. \A q \in Pids : proc[q] = Free => proc'[q] = Free
    BY <1>1 DEF Kept, Free
  <2>2. alive(0)' => alive(0)
    BY <1>1, NoRevival
  <2> QED
    BY <2>1, <2>2, Ended DEF BookInv, ControlInv, OwnerDies, supVars
<1> QED
  BY <1>2, <1>3, <1>4, <1>5, <1>6 DEF BookInv

\* The old proof is cleared, or the supervisor is over.
LEMMA clearProofBooks == ASSUME TableInv, TableInv', HandshakeInv, BookInv, clearProof PROVE BookInv'
<1>1. Shrinks(proc, proc') /\ Kept(proc, proc') /\ (sup' = "exited" => ~alive(0)')
  BY Unmoved, Gone, PidsAssumption DEF clearProof, Leaves, Sup, supLive, alive
<1>2. Scalars'
  BY DEF BookInv, Scalars, clearProof, ownerVars, Sup, Leaves
<1>3. settling' \in [{"owner", "sup"} -> Settlement]
  BY DEF BookInv, clearProof
<1>4. CountInv'
  BY <1>1, Uncounted, Counting DEF BookInv, clearProof, Sup, Leaves
<1>5. WireInv'
  BY SupRead DEF BookInv, WireInv, clearProof, ownerVars
<1>6. ControlInv'
  <2>1. \A q \in Pids : proc[q] = Free => proc'[q] = Free
    BY <1>1 DEF Kept, Free
  <2>2. alive(0)' => alive(0)
    BY <1>1, NoRevival
  <2>3. sup' = "exited" => ~alive(0)'
    BY <1>1
  <2> QED
    BY <2>1, <2>3 DEF BookInv, ControlInv, clearProof, ownerVars, Sup, Leaves
<1> QED
  BY <1>2, <1>3, <1>4, <1>5, <1>6 DEF BookInv

LEMMA readyBooks == ASSUME TableInv, TableInv', HandshakeInv, BookInv, ready PROVE BookInv'
<1>1. Shrinks(proc, proc') /\ Kept(proc, proc')
  BY Unmoved DEF ready
<1>2. Scalars'
  BY DEF BookInv, Scalars, ready, ownerVars, Sup
<1>3. settling' \in [{"owner", "sup"} -> Settlement]
  BY DEF BookInv, ready, ownerVars, count, Sup
<1>4. CountInv'
  BY <1>1, Uncounted, Counting DEF BookInv, ready, ownerVars, Sup
<1>5. WireInv'
  BY DEF BookInv, WireInv, ready, ownerVars, Sup
<1>6. ControlInv'
  <2>1. \A q \in Pids : proc[q] = Free => proc'[q] = Free
    BY <1>1 DEF Kept, Free
  <2>2. alive(0)' => alive(0)
    BY <1>1, NoRevival
  <2> QED
    BY <2>1, <2>2 DEF BookInv, ControlInv, ready, ownerVars, Sup
<1> QED
  BY <1>2, <1>3, <1>4, <1>5, <1>6 DEF BookInv

LEMMA seatbeltNoTargetFailureBooks ==
  ASSUME TableInv, TableInv', HandshakeInv, BookInv, seatbeltNoTargetFailure
  PROVE BookInv'
<1>1. Shrinks(proc, proc') /\ Kept(proc, proc') /\ (sup' = "exited" => ~alive(0)')
  BY Unmoved, Gone, PidsAssumption DEF seatbeltNoTargetFailure, Leaves, Sup, supLive, alive
<1>2. Scalars'
  BY DEF BookInv, Scalars, seatbeltNoTargetFailure, ownerVars, Leaves
<1>3. settling' \in [{"owner", "sup"} -> Settlement]
  BY DEF BookInv, seatbeltNoTargetFailure
<1>4. CountInv'
  BY <1>1, Uncounted, Counting DEF BookInv, seatbeltNoTargetFailure, Leaves
<1>5. WireInv'
  BY DEF BookInv, WireInv, seatbeltNoTargetFailure, ownerVars, Leaves
<1>6. ControlInv'
  <2>1. \A q \in Pids : proc[q] = Free => proc'[q] = Free
    BY <1>1 DEF Kept, Free
  <2>2. alive(0)' => alive(0)
    BY <1>1, NoRevival
  <2>3. sup' = "exited" => ~alive(0)'
    BY <1>1
  <2> QED
    BY <2>1, <2>2, <2>3 DEF BookInv, ControlInv, seatbeltNoTargetFailure, ownerVars, Leaves
<1> QED
  BY <1>2, <1>3, <1>4, <1>5, <1>6 DEF BookInv

LEMMA readStartBooks == ASSUME TableInv, TableInv', HandshakeInv, BookInv, readStart PROVE BookInv'
<1>1. Shrinks(proc, proc') /\ Kept(proc, proc')
  BY Unmoved DEF readStart
<1>2. Scalars'
  BY DEF BookInv, Scalars, readStart, ownerVars, Sup
<1>3. settling' \in [{"owner", "sup"} -> Settlement]
  BY DEF BookInv, readStart
<1>4. CountInv'
  BY <1>1, Uncounted, Counting DEF BookInv, readStart, Sup
<1>5. WireInv'
  BY SupRead DEF BookInv, WireInv, readStart, ownerVars, Sup
<1>6. ControlInv'
  <2>1. \A q \in Pids : proc[q] = Free => proc'[q] = Free
    BY <1>1 DEF Kept, Free
  <2>2. alive(0)' => alive(0)
    BY <1>1, NoRevival
  <2> QED
    BY <2>1, <2>2 DEF BookInv, ControlInv, readStart, ownerVars, Sup
<1> QED
  BY <1>2, <1>3, <1>4, <1>5, <1>6 DEF BookInv

LEMMA sealDescriptorsBooks == ASSUME TableInv, TableInv', HandshakeInv, BookInv, sealDescriptors PROVE BookInv'
<1>1. Shrinks(proc, proc') /\ Kept(proc, proc')
  BY Unmoved DEF sealDescriptors
<1>2. Scalars'
  BY DEF BookInv, Scalars, sealDescriptors, ownerVars, wire, Sup
<1>3. settling' \in [{"owner", "sup"} -> Settlement]
  BY DEF BookInv, sealDescriptors
<1>4. CountInv'
  BY <1>1, Uncounted, Counting DEF BookInv, sealDescriptors, Sup
<1>5. WireInv'
  BY DEF BookInv, WireInv, sealDescriptors, ownerVars, wire, Sup
<1>6. ControlInv'
  <2>1. \A q \in Pids : proc[q] = Free => proc'[q] = Free
    BY <1>1 DEF Kept, Free
  <2>2. alive(0)' => alive(0)
    BY <1>1, NoRevival
  <2> QED
    BY <2>1, <2>2 DEF BookInv, ControlInv, sealDescriptors, ownerVars, Sup
<1> QED
  BY <1>2, <1>3, <1>4, <1>5, <1>6 DEF BookInv

LEMMA forwardSeatbeltControlBooks ==
  ASSUME TableInv, TableInv', HandshakeInv, BookInv, forwardSeatbeltControl
  PROVE BookInv'
<1>1. Shrinks(proc, proc') /\ Kept(proc, proc') /\ proc'[0] = proc[0]
  BY Unmoved, TargetsKilled DEF forwardSeatbeltControl
<1>2. Scalars'
  BY DEF BookInv, Scalars, forwardSeatbeltControl, ownerVars, supVars
<1>3. settling' \in [{"owner", "sup"} -> Settlement]
  BY DEF BookInv, forwardSeatbeltControl
<1>4. CountInv'
  BY <1>1, Uncounted, Counting DEF BookInv, forwardSeatbeltControl, supVars
<1>5. WireInv'
  BY SupRead DEF BookInv, WireInv, forwardSeatbeltControl, ownerVars, supVars
<1>6. ControlInv'
  <2>1. \A q \in Pids : proc[q] = Free => proc'[q] = Free
    BY <1>1 DEF Kept, Free
  <2>2. alive(0)' => alive(0)
    BY <1>1, NoRevival
  <2> QED
    BY <2>1, <2>2 DEF BookInv, ControlInv, forwardSeatbeltControl, ownerVars, supVars
<1> QED
  BY <1>2, <1>3, <1>4, <1>5, <1>6 DEF BookInv

LEMMA waitTargetBooks == ASSUME TableInv, TableInv', HandshakeInv, BookInv, waitTarget PROVE BookInv'
<1>1. Shrinks(proc, proc') /\ Kept(proc, proc') /\ (sup' = "exited" => ~alive(0)')
  BY Unmoved, Gone, PidsAssumption DEF waitTarget, Leaves, Sup, supLive, alive
<1>2. Scalars'
  BY DEF BookInv, Scalars, waitTarget, ownerVars, wire, Sup, Leaves
<1>3. settling' \in [{"owner", "sup"} -> Settlement]
  BY Begins DEF BookInv, waitTarget
<1>4. CountInv'
  BY <1>1, Uncounted, Counting DEF BookInv, waitTarget, Sup, Leaves
<1>5. WireInv'
  BY DEF BookInv, WireInv, waitTarget, ownerVars, wire, Sup, Leaves
<1>6. ControlInv'
  <2>1. \A q \in Pids : proc[q] = Free => proc'[q] = Free
    BY <1>1 DEF Kept, Free
  <2>2. alive(0)' => alive(0)
    BY <1>1, NoRevival
  <2>3. sup' = "exited" => ~alive(0)'
    BY <1>1
  <2> QED
    BY <2>1, <2>2, <2>3, Begins DEF BookInv, ControlInv, waitTarget, ownerVars, Sup, Leaves
<1> QED
  BY <1>2, <1>3, <1>4, <1>5, <1>6 DEF BookInv

\* The supervisor's settlement ends with its proof.
LEMMA recordProofBooks == ASSUME TableInv, TableInv', HandshakeInv, BookInv, recordProof PROVE BookInv'
<1>1. Shrinks(proc, proc') /\ Kept(proc, proc') /\ (sup' = "exited" => ~alive(0)')
  BY Unmoved, Gone, PidsAssumption DEF recordProof, Leaves, Sup, supLive, alive
<1>2. Scalars'
  BY DEF BookInv, Scalars, recordProof, ownerVars, wire, Sup, Leaves
<1>3. settling' \in [{"owner", "sup"} -> Settlement]
  BY Ended DEF BookInv, recordProof
<1>4. CountInv'
  BY <1>1, Uncounted, Counting DEF BookInv, recordProof, Sup, Leaves
<1>5. WireInv'
  BY DEF BookInv, WireInv, recordProof, ownerVars, wire, Sup, Leaves
<1>6. ControlInv'
  <2>1. \A q \in Pids : proc[q] = Free => proc'[q] = Free
    BY <1>1 DEF Kept, Free
  <2>2. alive(0)' => alive(0)
    BY <1>1, NoRevival
  <2>3. sup' = "exited" => ~alive(0)'
    BY <1>1
  <2> QED
    BY <2>1, <2>2, Ended DEF BookInv, ControlInv, recordProof, ownerVars, Sup, Leaves
<1> QED
  BY <1>2, <1>3, <1>4, <1>5, <1>6 DEF BookInv

LEMMA reportProofBooks == ASSUME TableInv, TableInv', HandshakeInv, BookInv, reportProof PROVE BookInv'
<1>1. Shrinks(proc, proc') /\ Kept(proc, proc') /\ (sup' = "exited" => ~alive(0)')
  BY Unmoved, Gone, PidsAssumption DEF reportProof, Leaves, Sup, supLive, alive
<1>2. Scalars'
  BY DEF BookInv, Scalars, reportProof, ownerVars, Leaves
<1>3. settling' \in [{"owner", "sup"} -> Settlement]
  BY DEF BookInv, reportProof, ownerVars, count, Leaves
<1>4. CountInv'
  BY <1>1, Uncounted, Counting DEF BookInv, reportProof, ownerVars, Leaves
<1>5. WireInv'
  BY DEF BookInv, WireInv, reportProof, ownerVars, Leaves
<1>6. ControlInv'
  <2>1. \A q \in Pids : proc[q] = Free => proc'[q] = Free
    BY <1>1 DEF Kept, Free
  <2>2. alive(0)' => alive(0)
    BY <1>1, NoRevival
  <2>3. sup' = "exited" => ~alive(0)'
    BY <1>1
  <2> QED
    BY <2>1, <2>2, <2>3 DEF BookInv, ControlInv, reportProof, ownerVars, Leaves
<1> QED
  BY <1>2, <1>3, <1>4, <1>5, <1>6 DEF BookInv

LEMMA ExitsBooks == ASSUME TableInv, TableInv', HandshakeInv, BookInv, NEW p \in Pids, Exits(p) PROVE BookInv'
<1>1. Shrinks(proc, proc') /\ Kept(proc, proc')
  BY Gone, PidsAssumption DEF Exits, alive, targets, supLive
<1>2. Scalars'
  BY DEF BookInv, Scalars, Exits, ownerVars, wire, supVars
<1>3. settling' \in [{"owner", "sup"} -> Settlement]
  BY DEF BookInv, Exits
<1>4. CountInv'
  BY <1>1, Uncounted, Counting DEF BookInv, Exits, supVars
<1>5. WireInv'
  BY DEF BookInv, WireInv, Exits, ownerVars, wire, supVars
<1>6. ControlInv'
  <2>1. \A q \in Pids : proc[q] = Free => proc'[q] = Free
    BY <1>1 DEF Kept, Free
  <2>2. alive(0)' => alive(0)
    BY <1>1, NoRevival
  <2> QED
    BY <2>1, <2>2 DEF BookInv, ControlInv, Exits, ownerVars, supVars
<1> QED
  BY <1>2, <1>3, <1>4, <1>5, <1>6 DEF BookInv

LEMMA DiesBooks == ASSUME TableInv, TableInv', HandshakeInv, BookInv, NEW p \in Pids, Dies(p) PROVE BookInv'
<1>1. Shrinks(proc, proc') /\ Kept(proc, proc')
  BY Gone, PidsAssumption DEF Dies, alive, targets, supLive
<1>2. Scalars'
  BY DEF BookInv, Scalars, Dies, ownerVars, wire, supVars
<1>3. settling' \in [{"owner", "sup"} -> Settlement]
  BY DEF BookInv, Dies
<1>4. CountInv'
  BY <1>1, Uncounted, Counting DEF BookInv, Dies, supVars
<1>5. WireInv'
  BY DEF BookInv, WireInv, Dies, ownerVars, wire, supVars
<1>6. ControlInv'
  <2>1. \A q \in Pids : proc[q] = Free => proc'[q] = Free
    BY <1>1 DEF Kept, Free
  <2>2. alive(0)' => alive(0)
    BY <1>1, NoRevival
  <2> QED
    BY <2>1, <2>2 DEF BookInv, ControlInv, Dies, ownerVars, supVars
<1> QED
  BY <1>2, <1>3, <1>4, <1>5, <1>6 DEF BookInv

LEMMA KillsBooks == ASSUME TableInv, TableInv', HandshakeInv, BookInv, NEW p \in Pids, Kills(p) PROVE BookInv'
<1>1. Shrinks(proc, proc') /\ Kept(proc, proc')
  BY SupKilled DEF Kills
<1>2. Scalars'
  BY DEF BookInv, Scalars, Kills, ownerVars, wire, supVars
<1>3. settling' \in [{"owner", "sup"} -> Settlement]
  BY DEF BookInv, Kills
<1>4. CountInv'
  BY <1>1, Uncounted, Counting DEF BookInv, Kills, supVars
<1>5. WireInv'
  BY DEF BookInv, WireInv, Kills, ownerVars, wire, supVars
<1>6. ControlInv'
  <2>1. \A q \in Pids : proc[q] = Free => proc'[q] = Free
    BY <1>1 DEF Kept, Free
  <2>2. alive(0)' => alive(0)
    BY <1>1, NoRevival
  <2> QED
    BY <2>1, <2>2 DEF BookInv, ControlInv, Kills, ownerVars, supVars
<1> QED
  BY <1>2, <1>3, <1>4, <1>5, <1>6 DEF BookInv

\* The steps by which a PID is taken, or a stopped process woken.
LEMMA StartBooks == ASSUME TableInv, TableInv', HandshakeInv, BookInv, Start PROVE BookInv'
<1>1. CASE proc' = takes(0, "member") /\ owner' = "awaitR" /\ sup' = "challenge" /\ toSup' = <<"C">>
           /\ UNCHANGED <<control, count>>
  <2>1. proc'[0].gen = proc[0].gen + 1 /\ \A p \in Pids \ {0} : proc'[p] = proc[p]
    BY <1>1, Took, PidsAssumption
  <2>2. owner = "prepared" /\ sup = "off"
        /\ UNCHANGED <<cancelled, verified, answer, toOwner, started, settling, proof>>
    BY DEF Start, BookInv, ControlInv
  <2>3. Scalars'
    BY <1>1, <2>2 DEF BookInv, Scalars
  <2>4. CountInv'
    <3>1. Born(0) = 0 /\ Born(0)' = 1
      BY <1>1, <2>2 DEF Born
    <3>2. Counted
      BY <1>1, Uncounted DEF BookInv
    <3> QED
      BY <1>1, <2>1, <2>2, <3>1, <3>2, CountingTaken, PidsAssumption DEF BookInv
  <2>5. WireInv'
    BY <1>1, <2>2, Lengths DEF BookInv, WireInv
  <2>6. ControlInv'
    BY <1>1, <2>1, <2>2 DEF BookInv, ControlInv
  <2> QED
    BY <2>2, <2>3, <2>4, <2>5, <2>6 DEF BookInv
<1>2. CASE Fault /\ owner' = "startFailed" /\ control' = "closed" /\ UNCHANGED <<sup, proc, toSup>>
  <2>1. UNCHANGED <<cancelled, verified, answer, toOwner, started, settling, proof>> /\ owner = "prepared"
    BY DEF Start
  <2>2. Scalars'
    BY <1>2, <2>1 DEF BookInv, Scalars
  <2>3. CountInv'
    BY <1>2, <2>1, Unmoved, Uncounted, Counting DEF BookInv
  <2>4. WireInv'
    BY <1>2, <2>1 DEF BookInv, WireInv
  <2>5. ControlInv'
    BY <1>2, <2>1 DEF BookInv, ControlInv, alive
  <2> QED
    BY <2>1, <2>2, <2>3, <2>4, <2>5 DEF BookInv
<1> QED
  BY <1>1, <1>2 DEF Start

LEMMA startTargetBooks == ASSUME TableInv, TableInv', HandshakeInv, BookInv, startTarget PROVE BookInv'
<1>1. CASE Sup("wait") /\ started' = TRUE /\ proc' = takes(1, "member") /\ settling' = renewed /\ UNCHANGED count
  <2>1. proc'[1].gen = proc[1].gen + 1 /\ \A p \in Pids \ {1} : proc'[p] = proc[p]
    BY <1>1, Took, PidsAssumption
  <2>2. sup = "spawn" /\ ~started /\ sup' = "wait" /\ UNCHANGED <<ownerVars, wire, proof>>
    BY <1>1 DEF startTarget, HandshakeInv, Launched, Sup
  <2>3. Scalars'
    BY <1>1, <2>2 DEF BookInv, Scalars, ownerVars, wire
  <2>4. CountInv'
    <3>1. Born(1) = 0 /\ Born(1)' = 1
      BY <1>1, <2>2 DEF Born
    <3>2. Counted
      BY <1>1, Uncounted DEF BookInv
    <3> QED
      BY <1>1, <2>1, <2>2, <3>1, <3>2, CountingTaken, PidsAssumption DEF BookInv
  <2>5. WireInv'
    BY <2>2 DEF BookInv, WireInv, ownerVars, wire
  <2>6. /\ settling' \in [{"owner", "sup"} -> Settlement] /\ settling'["sup"] = Idle
        /\ settling'["owner"].at = settling["owner"].at
    BY <1>1, <2>2, Renewed DEF BookInv, ControlInv
  <2>7. ControlInv'
    <3>1. Idle.at = "idle"
      BY Idling
    <3>2. alive(0)' <=> alive(0)
      BY <2>1, PidsAssumption DEF alive
    <3> QED
      BY <1>1, <2>1, <2>2, <2>6, <3>1, <3>2 DEF BookInv, ControlInv, ownerVars
  <2> QED
    BY <2>2, <2>3, <2>4, <2>5, <2>6, <2>7 DEF BookInv
<1>2. CASE Sup("noTarget") /\ Fault /\ UNCHANGED <<started, proc, settling>>
  <2>1. sup = "spawn" /\ sup' = "noTarget" /\ UNCHANGED <<ownerVars, wire, proof>>
    BY <1>2 DEF startTarget, Sup
  <2>2. Scalars'
    BY <1>2, <2>1 DEF BookInv, Scalars, ownerVars, wire
  <2>3. CountInv'
    BY <1>2, <2>1, Unmoved, Uncounted, Counting DEF BookInv
  <2>4. WireInv'
    BY <1>2, <2>1 DEF BookInv, WireInv, ownerVars, wire
  <2>5. ControlInv'
    BY <1>2, <2>1 DEF BookInv, ControlInv, alive, ownerVars
  <2> QED
    BY <1>2, <2>1, <2>2, <2>3, <2>4, <2>5 DEF BookInv
<1> QED
  BY <1>1, <1>2 DEF startTarget

LEMMA ForksBooks == ASSUME TableInv, TableInv', HandshakeInv, BookInv, NEW p \in Pids, Forks(p) PROVE BookInv'
<1>1. /\ p \in targets /\ forks < MaxForks /\ forks' = forks + 1 /\ settling' = renewed
      /\ UNCHANGED <<ownerVars, wire, supVars, proof, hosts, raced, faults>>
  BY DEF Forks
<1>2. Counted
  BY <1>1 DEF Counted, BookInv, CountInv
<1>3. CountInv' /\ \A x \in Pids : alive(x)' => alive(x) \/ x # 0
  <2>1. CASE \E q \in Pids \ {0} : proc' = takes(q, "member")
    <3>1. PICK q \in Pids \ {0} : proc' = takes(q, "member")
      BY <2>1
    <3>2. proc'[q].gen = proc[q].gen + 1 /\ \A x \in Pids \ {q} : proc'[x] = proc[x]
      BY <3>1, Took
    <3>3. CountInv'
      BY <1>1, <1>2, <3>2, CountingTaken DEF BookInv, supVars
    <3> QED
      BY <3>2, <3>3 DEF alive
  <2>2. CASE \E q \in Pids : member(q) /\ proc' = [proc EXCEPT ![q].st = "running"]
    <3>1. PICK q \in Pids : member(q) /\ proc' = [proc EXCEPT ![q].st = "running"]
      BY <2>2
    <3>2. Kept(proc, proc') /\ \A x \in Pids \ {q} : proc'[x] = proc[x]
      BY <3>1, Woken
    <3>3. CountInv'
      BY <1>1, <1>2, <3>2, Counting DEF BookInv, supVars
    <3> QED
      BY <3>1, <3>2, <3>3 DEF alive, member
  <2> QED
    BY <2>1, <2>2 DEF Forks
<1>4. Scalars'
  BY <1>1 DEF BookInv, Scalars, ownerVars, wire, supVars
<1>5. WireInv'
  BY <1>1 DEF BookInv, WireInv, ownerVars, wire, supVars
<1>6. /\ settling' \in [{"owner", "sup"} -> Settlement]
      /\ \A v \in {"owner", "sup"} : settling'[v].at = settling[v].at /\ (settling[v] = Idle => settling'[v] = Idle)
  BY <1>1, Renewed
<1>7. ControlInv'
  <2>1. sup # "off" /\ started
    BY <1>1, NobodyYet DEF BookInv, targets
  <2>2. alive(0)' => alive(0)
    BY <1>3, PidsAssumption
  <2> QED
    BY <1>1, <1>6, <2>1, <2>2 DEF BookInv, ControlInv, ownerVars, supVars
<1> QED
  BY <1>3, <1>4, <1>5, <1>6, <1>7 DEF BookInv

LEMMA HostTakesBooks == ASSUME TableInv, TableInv', HandshakeInv, BookInv, NEW p \in Pids, HostTakes(p) PROVE BookInv'
<1>1. proc'[p].gen = proc[p].gen + 1 /\ \A x \in Pids \ {p} : proc'[x] = proc[x]
  BY Took DEF HostTakes
<1>2. /\ p # 0 /\ proc[p].gen > 0 /\ hosts < MaxHosts /\ hosts' = hosts + 1 /\ raced' \in {raced \cup {p}, raced \ {p}}
      /\ UNCHANGED <<ownerVars, wire, supVars, settling, proof, forks, faults>>
  BY DEF HostTakes
<1>3. Scalars'
  BY <1>2 DEF BookInv, Scalars, ownerVars, wire, supVars
<1>4. CountInv'
  <2>1. Counted
    BY <1>2 DEF Counted, BookInv, CountInv
  <2> QED
    BY <1>1, <1>2, <2>1, CountingTaken DEF BookInv, supVars
<1>5. WireInv'
  BY <1>2 DEF BookInv, WireInv, ownerVars, wire, supVars
<1>6. ControlInv'
  <2>1. sup # "off" /\ started
    BY <1>2, FreeIsNobody DEF BookInv, ControlInv
  <2>2. alive(0)' <=> alive(0)
    BY <1>1, <1>2, PidsAssumption DEF alive
  <2> QED
    BY <1>2, <2>1, <2>2 DEF BookInv, ControlInv, ownerVars, supVars
<1> QED
  BY <1>2, <1>3, <1>4, <1>5, <1>6 DEF BookInv

-----------------------------------------------------------------------------
(* What the settlements know, action by action. *)

\* Released before anything ran.
LEMMA AbortPreparedReleases ==
  ASSUME TableInv, TableInv', HandshakeInv, BookInv, SettledInv, AbortPrepared PROVE SettledInv'
<1>1. Shrinks(proc, proc') /\ Spares(proc, proc')
  BY Unmoved DEF AbortPrepared
<1>2. raced' = raced
  BY Uncounted DEF BookInv, AbortPrepared, supVars, count
<1>3. \A v \in {"owner", "sup"} : Moves(settling[v], settling'[v]) /\ (outrun(v)' <=> outrun(v))
  BY Unmoving DEF AbortPrepared, supVars, count
<1>4. EmptyInv /\ \A v \in {"owner", "sup"} : PassOf(v, settling[v], proc)
  BY DEF SettledInv
<1>5. EmptyInv'
  <2>1. owner' = "aborted" /\ proof' = proof /\ sup' = sup /\ sup = "off" /\ \A q \in Pids : ~member(q)'
    BY NobodyYet DEF AbortPrepared, supVars, BookInv, ControlInv, member, alive
  <2>2. targets' = {} /\ ~alive(0)'
    BY <2>1, PidsAssumption DEF targets, TableInv, member
  <2> QED
    BY <2>1, <2>2 DEF EmptyInv
<1> QED
  BY <1>1, <1>2, <1>3, <1>5, Undisturbed

LEMMA startSupervisorReleases ==
  ASSUME TableInv, TableInv', HandshakeInv, BookInv, SettledInv, startSupervisor PROVE SettledInv'
<1>1. Shrinks(proc, proc') /\ Spares(proc, proc')
  BY Unmoved DEF startSupervisor
<1>2. raced' = raced
  BY Uncounted DEF BookInv, startSupervisor, supVars, count
<1>3. \A v \in {"owner", "sup"} : Moves(settling[v], settling'[v]) /\ (outrun(v)' <=> outrun(v))
  BY Unmoving DEF startSupervisor, supVars, count
<1>4. EmptyInv /\ \A v \in {"owner", "sup"} : PassOf(v, settling[v], proc)
  BY DEF SettledInv
<1>5. EmptyInv'
  BY <1>1, <1>3, <1>4, StillEmpty DEF startSupervisor, supVars, count
<1> QED
  BY <1>1, <1>2, <1>3, <1>5, Undisturbed

LEMMA supervisorStartedReleases ==
  ASSUME TableInv, TableInv', HandshakeInv, BookInv, SettledInv, supervisorStarted PROVE SettledInv'
<1>1. Shrinks(proc, proc') /\ Spares(proc, proc')
  BY Unmoved DEF supervisorStarted
<1>2. raced' = raced
  BY Uncounted DEF BookInv, supervisorStarted, supVars, count, wire
<1>3. \A v \in {"owner", "sup"} : Moves(settling[v], settling'[v]) /\ (outrun(v)' <=> outrun(v))
  BY Unmoving DEF supervisorStarted, supVars, count, wire
<1>4. EmptyInv /\ \A v \in {"owner", "sup"} : PassOf(v, settling[v], proc)
  BY DEF SettledInv
<1>5. EmptyInv'
  BY <1>1, <1>3, <1>4, StillEmpty DEF supervisorStarted, supVars, count, wire
<1> QED
  BY <1>1, <1>2, <1>3, <1>5, Undisturbed

LEMMA startSupervisorFailsReleases ==
  ASSUME TableInv, TableInv', HandshakeInv, BookInv, SettledInv, startSupervisorFails PROVE SettledInv'
<1>1. Shrinks(proc, proc') /\ Spares(proc, proc')
  BY Unmoved, SupKilled DEF startSupervisorFails
<1>2. raced' = raced
  BY Uncounted DEF BookInv, startSupervisorFails
<1>3. EmptyInv
  BY DEF SettledInv
<1>4. CASE proof' = "none" /\ owner' = "failSettle" /\ begins("owner")
  <2>1. \A v \in {"owner", "sup"} : Moves(settling[v], settling'[v])
    BY <1>4, Begins DEF Moves
  <2>2. EmptyInv'
    BY <1>4 DEF EmptyInv
  <2> QED
    BY <1>1, <1>2, <2>1, <2>2, Undisturbed
<1>5. CASE owner' = "quarantine" /\ UNCHANGED <<proof, settling>>
  <2>1. \A v \in {"owner", "sup"} : Moves(settling[v], settling'[v]) /\ (outrun(v)' <=> outrun(v))
    BY <1>5, Unmoving
  <2>2. EmptyInv'
    BY <1>1, <1>3, <1>5, <2>1, StillEmpty DEF startSupervisorFails, supVars
  <2> QED
    BY <1>1, <1>2, <2>1, <2>2, Undisturbed
<1> QED
  BY <1>4, <1>5 DEF startSupervisorFails

\* The owner's settlement after a failed start: the supervisor was one of the
\* processes it was about.
LEMMA startSettledReleases ==
  ASSUME TableInv, TableInv', HandshakeInv, BookInv, SettledInv, startSettled PROVE SettledInv'
<1>1. Shrinks(proc, proc') /\ Spares(proc, proc')
  BY Unmoved, SupKilled DEF startSettled
<1>2. raced' = raced
  BY Uncounted DEF BookInv, startSettled, wire, supVars
<1>3. \A v \in {"owner", "sup"} : Moves(settling[v], settling'[v]) /\ (outrun(v)' <=> outrun(v))
  BY Ended DEF Moves, startSettled, wire, supVars
<1>4. EmptyInv /\ \A v \in {"owner", "sup"} : PassOf(v, settling[v], proc)
  BY DEF SettledInv
<1>5. EmptyInv'
  <2>1. targets = {} => targets' = {}
    BY <1>1, EmptyKept
  <2>2. (\A p \in Pids : member(p) => proc[p].st = "dying") => (\A p \in Pids : member(p) => proc[p].st = "dying")'
    BY <1>1, EmptyKept
  <2>3. alive(0)' => alive(0)
    BY <1>1, NoRevival
  <2>4. settling["owner"].at = "ok" =>
          /\ outrun("owner") \/ targets = {}
          /\ outrun("owner") \/ (~alive(0) /\ \A p \in Pids : ~member(p))
    BY <1>4, SettledEmpty
  <2>5. CASE settling["owner"].at = "ok"
    BY <1>3, <1>4, <2>1, <2>2, <2>3, <2>4, <2>5 DEF EmptyInv, startSettled, supVars
  <2>6. CASE settling["owner"].at # "ok"
    <3>1. proof' = proof /\ sup' = sup /\ owner' \in {"quarantine", "dead"}
      BY <2>6 DEF startSettled, supVars
    <3> QED
      BY <1>1, <1>3, <1>4, <3>1, StillEmpty
  <2> QED
    BY <2>5, <2>6
<1> QED
  BY <1>1, <1>2, <1>3, <1>5, Undisturbed

LEMMA SignalReleases ==
  ASSUME TableInv, TableInv', HandshakeInv, BookInv, SettledInv, Signal PROVE SettledInv'
<1>1. Shrinks(proc, proc') /\ Spares(proc, proc')
  BY Unmoved DEF Signal
<1>2. raced' = raced
  BY Uncounted DEF BookInv, Signal, ownerVars, supVars, count
<1>3. \A v \in {"owner", "sup"} : Moves(settling[v], settling'[v]) /\ (outrun(v)' <=> outrun(v))
  BY Unmoving DEF Signal, ownerVars, supVars, count
<1>4. EmptyInv /\ \A v \in {"owner", "sup"} : PassOf(v, settling[v], proc)
  BY DEF SettledInv
<1>5. EmptyInv'
  BY <1>1, <1>3, <1>4, StillEmpty DEF Signal, ownerVars, supVars, count
<1> QED
  BY <1>1, <1>2, <1>3, <1>5, Undisturbed

LEMMA cancelReleases ==
  ASSUME TableInv, TableInv', HandshakeInv, BookInv, SettledInv, cancel PROVE SettledInv'
<1>1. Shrinks(proc, proc') /\ Spares(proc, proc')
  BY Unmoved, SupKilled DEF cancel
<1>2. raced' = raced
  BY Uncounted DEF BookInv, cancel, supVars, count
<1>3. \A v \in {"owner", "sup"} : Moves(settling[v], settling'[v]) /\ (outrun(v)' <=> outrun(v))
  BY Unmoving DEF cancel, supVars, count
<1>4. EmptyInv /\ \A v \in {"owner", "sup"} : PassOf(v, settling[v], proc)
  BY DEF SettledInv
<1>5. EmptyInv'
  BY <1>1, <1>3, <1>4, StillEmpty DEF cancel, supVars, count
<1> QED
  BY <1>1, <1>2, <1>3, <1>5, Undisturbed

\* The proof is cleared before ACS settles.
LEMMA readCleanupProofReleases ==
  ASSUME TableInv, TableInv', HandshakeInv, BookInv, SettledInv, readCleanupProof PROVE SettledInv'
<1>1. Shrinks(proc, proc') /\ Spares(proc, proc')
  BY Unmoved DEF readCleanupProof
<1>2. raced' = raced
  BY Uncounted DEF BookInv, readCleanupProof, supVars, count
<1>3. \A v \in {"owner", "sup"} : Moves(settling[v], settling'[v])
  BY Begins DEF Moves, readCleanupProof, supVars, count
<1>4. EmptyInv /\ \A v \in {"owner", "sup"} : PassOf(v, settling[v], proc)
  BY DEF SettledInv
<1>5. EmptyInv'
  BY DEF EmptyInv, readCleanupProof
<1> QED
  BY <1>1, <1>2, <1>3, <1>5, Undisturbed

\* The owner's own settlement, whatever the supervisor answered.
LEMMA waitForSupervisorProofReleases ==
  ASSUME TableInv, TableInv', HandshakeInv, BookInv, SettledInv, waitForSupervisorProof PROVE SettledInv'
<1>1. Shrinks(proc, proc') /\ Spares(proc, proc')
  BY Unmoved DEF waitForSupervisorProof
<1>2. raced' = raced
  BY Uncounted DEF BookInv, waitForSupervisorProof, wire, supVars
<1>3. \A v \in {"owner", "sup"} : Moves(settling[v], settling'[v]) /\ (outrun(v)' <=> outrun(v))
  BY Ended DEF Moves, waitForSupervisorProof, wire, supVars
<1>4. EmptyInv /\ \A v \in {"owner", "sup"} : PassOf(v, settling[v], proc)
  BY DEF SettledInv
<1>5. EmptyInv'
  <2>1. targets = {} => targets' = {}
    BY <1>1, EmptyKept
  <2>2. (\A p \in Pids : member(p) => proc[p].st = "dying") => (\A p \in Pids : member(p) => proc[p].st = "dying")'
    BY <1>1, EmptyKept
  <2>3. alive(0)' => alive(0)
    BY <1>1, NoRevival
  <2>4. settling["owner"].at = "ok" =>
          /\ outrun("owner") \/ targets = {}
          /\ outrun("owner") \/ (~alive(0) /\ \A p \in Pids : ~member(p))
    BY <1>4, SettledEmpty
  <2>5. CASE settling["owner"].at = "ok"
    BY <1>3, <1>4, <2>1, <2>2, <2>3, <2>4, <2>5 DEF EmptyInv, waitForSupervisorProof, supVars
  <2>6. CASE settling["owner"].at # "ok"
    <3>1. proof' = proof /\ sup' = sup /\ owner' \in {"quarantine", "dead"}
      BY <2>6 DEF waitForSupervisorProof, supVars
    <3> QED
      BY <1>1, <1>3, <1>4, <3>1, StillEmpty
  <2> QED
    BY <2>5, <2>6
<1> QED
  BY <1>1, <1>2, <1>3, <1>5, Undisturbed

\* ACS may die between its settlement and the proof, or after it.
LEMMA OwnerDiesReleases ==
  ASSUME TableInv, TableInv', HandshakeInv, BookInv, SettledInv, OwnerDies PROVE SettledInv'
<1>1. Shrinks(proc, proc') /\ Spares(proc, proc')
  BY Unmoved DEF OwnerDies
<1>2. raced' = raced
  BY Uncounted DEF BookInv, OwnerDies, supVars
<1>3. \A v \in {"owner", "sup"} : Moves(settling[v], settling'[v]) /\ (outrun(v)' <=> outrun(v))
  BY Ended DEF Moves, OwnerDies, supVars
<1>4. EmptyInv /\ \A v \in {"owner", "sup"} : PassOf(v, settling[v], proc)
  BY DEF SettledInv
<1>5. EmptyInv'
  <2>1. targets = {} => targets' = {}
    BY <1>1, EmptyKept
  <2>2. (\A p \in Pids : member(p) => proc[p].st = "dying") => (\A p \in Pids : member(p) => proc[p].st = "dying")'
    BY <1>1, EmptyKept
  <2>3. alive(0)' => alive(0)
    BY <1>1, NoRevival
  <2>4. settling["owner"].at = "ok" =>
          /\ outrun("owner") \/ targets = {}
          /\ outrun("owner") \/ (~alive(0) /\ \A p \in Pids : ~member(p))
    BY <1>4, SettledEmpty
  <2>5. CASE settling["owner"].at = "ok"
    BY <1>3, <1>4, <2>1, <2>2, <2>3, <2>4, <2>5 DEF EmptyInv, OwnerDies, supVars
  <2>6. CASE settling["owner"].at # "ok"
    <3>1. proof' = proof /\ sup' = sup /\ owner' \in {"quarantine", "dead"}
      BY <2>6 DEF OwnerDies, supVars
    <3> QED
      BY <1>1, <1>3, <1>4, <3>1, StillEmpty
  <2> QED
    BY <2>5, <2>6
<1> QED
  BY <1>1, <1>2, <1>3, <1>5, Undisturbed

LEMMA clearProofReleases ==
  ASSUME TableInv, TableInv', HandshakeInv, BookInv, SettledInv, clearProof PROVE SettledInv'
<1>1. Shrinks(proc, proc') /\ Spares(proc, proc')
  BY Gone, Unmoved, PidsAssumption DEF clearProof, Leaves, Sup, supLive
<1>2. raced' = raced
  BY Uncounted DEF BookInv, clearProof, ownerVars
<1>3. \A v \in {"owner", "sup"} : Moves(settling[v], settling'[v]) /\ (outrun(v)' <=> outrun(v))
  BY Unmoving DEF clearProof, ownerVars
<1>4. EmptyInv /\ \A v \in {"owner", "sup"} : PassOf(v, settling[v], proc)
  BY DEF SettledInv
<1>5. EmptyInv'
  <2>1. sup = "challenge" /\ owner' = owner
    BY DEF clearProof, ownerVars
  <2> QED
    BY <1>1, <1>3, <1>4, <2>1, StillEmpty DEF clearProof
<1> QED
  BY <1>1, <1>2, <1>3, <1>5, Undisturbed

LEMMA readyReleases ==
  ASSUME TableInv, TableInv', HandshakeInv, BookInv, SettledInv, ready PROVE SettledInv'
<1>1. Shrinks(proc, proc') /\ Spares(proc, proc')
  BY Unmoved DEF ready
<1>2. raced' = raced
  BY Uncounted DEF BookInv, ready, ownerVars, count, Sup
<1>3. \A v \in {"owner", "sup"} : Moves(settling[v], settling'[v]) /\ (outrun(v)' <=> outrun(v))
  BY Unmoving DEF ready, ownerVars, count, Sup
<1>4. EmptyInv /\ \A v \in {"owner", "sup"} : PassOf(v, settling[v], proc)
  BY DEF SettledInv
<1>5. EmptyInv'
  BY <1>1, <1>3, <1>4, StillEmpty DEF ready, ownerVars, count, Sup
<1> QED
  BY <1>1, <1>2, <1>3, <1>5, Undisturbed

\* The proof of a supervisor that never started its target.
LEMMA seatbeltNoTargetFailureReleases ==
  ASSUME TableInv, TableInv', HandshakeInv, BookInv, SettledInv, seatbeltNoTargetFailure PROVE SettledInv'
<1>1. Shrinks(proc, proc') /\ Spares(proc, proc')
  BY Gone, Unmoved, PidsAssumption DEF seatbeltNoTargetFailure, Leaves, Sup, supLive
<1>2. raced' = raced
  BY Uncounted DEF BookInv, seatbeltNoTargetFailure, ownerVars
<1>3. \A v \in {"owner", "sup"} : Moves(settling[v], settling'[v]) /\ (outrun(v)' <=> outrun(v))
  BY Unmoving DEF seatbeltNoTargetFailure, ownerVars
<1>4. EmptyInv /\ \A v \in {"owner", "sup"} : PassOf(v, settling[v], proc)
  BY DEF SettledInv
<1>5. EmptyInv'
  <2>1. sup = "noTarget" /\ owner' = owner /\ ~alive(0)' /\ ~started
    BY Gone, PidsAssumption DEF seatbeltNoTargetFailure, ownerVars, Leaves, supLive, alive, HandshakeInv, Launched
  <2>2. targets' = {}
    BY <1>1, <2>1, NobodyYet, EmptyKept DEF BookInv
  <2>3. (\A p \in Pids : member(p) => proc[p].st = "dying") => (\A p \in Pids : member(p) => proc[p].st = "dying")'
    BY <1>1, EmptyKept
  <2> QED
    BY <1>3, <1>4, <2>1, <2>2, <2>3 DEF EmptyInv
<1> QED
  BY <1>1, <1>2, <1>3, <1>5, Undisturbed

LEMMA readStartReleases ==
  ASSUME TableInv, TableInv', HandshakeInv, BookInv, SettledInv, readStart PROVE SettledInv'
<1>1. Shrinks(proc, proc') /\ Spares(proc, proc')
  BY Unmoved DEF readStart
<1>2. raced' = raced
  BY Uncounted DEF BookInv, readStart, ownerVars
<1>3. \A v \in {"owner", "sup"} : Moves(settling[v], settling'[v]) /\ (outrun(v)' <=> outrun(v))
  BY Unmoving DEF readStart, ownerVars
<1>4. EmptyInv /\ \A v \in {"owner", "sup"} : PassOf(v, settling[v], proc)
  BY DEF SettledInv
<1>5. EmptyInv'
  <2>1. sup # "report" /\ owner' = owner
    BY DEF readStart, ownerVars
  <2> QED
    BY <1>1, <1>3, <1>4, <2>1, StillEmpty DEF readStart
<1> QED
  BY <1>1, <1>2, <1>3, <1>5, Undisturbed

LEMMA sealDescriptorsReleases ==
  ASSUME TableInv, TableInv', HandshakeInv, BookInv, SettledInv, sealDescriptors PROVE SettledInv'
<1>1. Shrinks(proc, proc') /\ Spares(proc, proc')
  BY Unmoved DEF sealDescriptors
<1>2. raced' = raced
  BY Uncounted DEF BookInv, sealDescriptors, ownerVars
<1>3. \A v \in {"owner", "sup"} : Moves(settling[v], settling'[v]) /\ (outrun(v)' <=> outrun(v))
  BY Unmoving DEF sealDescriptors, ownerVars
<1>4. EmptyInv /\ \A v \in {"owner", "sup"} : PassOf(v, settling[v], proc)
  BY DEF SettledInv
<1>5. EmptyInv'
  <2>1. sup # "report" /\ owner' = owner
    BY DEF sealDescriptors, ownerVars
  <2> QED
    BY <1>1, <1>3, <1>4, <2>1, StillEmpty DEF sealDescriptors
<1> QED
  BY <1>1, <1>2, <1>3, <1>5, Undisturbed

LEMMA forwardSeatbeltControlReleases ==
  ASSUME TableInv, TableInv', HandshakeInv, BookInv, SettledInv, forwardSeatbeltControl PROVE SettledInv'
<1>1. Shrinks(proc, proc') /\ Spares(proc, proc')
  BY Unmoved, TargetsKilled DEF forwardSeatbeltControl
<1>2. raced' = raced
  BY Uncounted DEF BookInv, forwardSeatbeltControl, ownerVars, supVars, count
<1>3. \A v \in {"owner", "sup"} : Moves(settling[v], settling'[v]) /\ (outrun(v)' <=> outrun(v))
  BY Unmoving DEF forwardSeatbeltControl, ownerVars, supVars, count
<1>4. EmptyInv /\ \A v \in {"owner", "sup"} : PassOf(v, settling[v], proc)
  BY DEF SettledInv
<1>5. EmptyInv'
  BY <1>1, <1>3, <1>4, StillEmpty DEF forwardSeatbeltControl, ownerVars, supVars, count
<1> QED
  BY <1>1, <1>2, <1>3, <1>5, Undisturbed

\* A supervisor that settles has not settled before.
LEMMA waitTargetReleases ==
  ASSUME TableInv, TableInv', HandshakeInv, BookInv, SettledInv, waitTarget PROVE SettledInv'
<1>1. Shrinks(proc, proc') /\ Spares(proc, proc')
  BY Gone, Unmoved, PidsAssumption DEF waitTarget, Leaves, Sup, supLive
<1>2. raced' = raced
  BY Uncounted DEF BookInv, waitTarget
<1>3. EmptyInv /\ sup = "wait" /\ owner' = owner /\ proof' = proof
  BY DEF SettledInv, waitTarget, ownerVars
<1>4. CASE begins("sup")
  <2>1. settling["sup"] = Idle
    BY <1>3 DEF BookInv, ControlInv
  <2>2. ~outrun("sup")
    BY <2>1 DEF outrun, Idle
  <2>3. \A v \in {"owner", "sup"} : Moves(settling[v], settling'[v])
    BY <1>4, Begins DEF Moves
  <2>4. settling'["owner"] = settling["owner"]
    BY <1>4, Begins
  <2>5. EmptyInv'
    BY <1>1, <1>3, <2>2, <2>4, StillEmpty DEF outrun
  <2> QED
    BY <1>1, <1>2, <2>3, <2>5, Undisturbed
<1>5. CASE settling' = settling
  <2>1. \A v \in {"owner", "sup"} : Moves(settling[v], settling'[v]) /\ (outrun(v)' <=> outrun(v))
    BY <1>5, Unmoving
  <2>2. EmptyInv'
    BY <1>1, <1>3, <2>1, StillEmpty
  <2> QED
    BY <1>1, <1>2, <2>1, <2>2, Undisturbed
<1> QED
  BY <1>4, <1>5 DEF waitTarget

\* The supervisor's proof is written after its settlement and before it leaves.
LEMMA recordProofReleases ==
  ASSUME TableInv, TableInv', HandshakeInv, BookInv, SettledInv, recordProof PROVE SettledInv'
<1>1. Shrinks(proc, proc') /\ Spares(proc, proc')
  BY Gone, Unmoved, PidsAssumption DEF recordProof, Leaves, Sup, supLive
<1>2. raced' = raced
  BY Uncounted DEF BookInv, recordProof
<1>3. \A v \in {"owner", "sup"} : Moves(settling[v], settling'[v]) /\ (outrun(v)' <=> outrun(v))
  BY Ended DEF Moves, recordProof
<1>4. EmptyInv /\ \A v \in {"owner", "sup"} : PassOf(v, settling[v], proc)
  BY DEF SettledInv
<1>5. EmptyInv'
  <2>1. targets = {} => targets' = {}
    BY <1>1, EmptyKept
  <2>2. (\A p \in Pids : member(p) => proc[p].st = "dying") => (\A p \in Pids : member(p) => proc[p].st = "dying")'
    BY <1>1, EmptyKept
  <2>3. owner' = owner /\ sup # "report" /\ (sup' = "report" \/ ~alive(0)')
    BY Gone, PidsAssumption DEF recordProof, ownerVars, Sup, Leaves, supLive, alive
  <2>4. settling["sup"].at = "ok" => outrun("sup") \/ targets = {}
    BY <1>4, SettledEmpty
  <2>5. proof' = proof \/ settling["sup"].at = "ok"
    BY DEF recordProof
  <2>6. CASE settling["sup"].at = "ok"
    BY <1>3, <1>4, <2>1, <2>2, <2>3, <2>4, <2>6 DEF EmptyInv
  <2>7. CASE proof' = proof
    BY <1>1, <1>3, <1>4, <2>3, <2>7, StillEmpty
  <2> QED
    BY <2>5, <2>6, <2>7
<1> QED
  BY <1>1, <1>2, <1>3, <1>5, Undisturbed

LEMMA reportProofReleases ==
  ASSUME TableInv, TableInv', HandshakeInv, BookInv, SettledInv, reportProof PROVE SettledInv'
<1>1. Shrinks(proc, proc') /\ Spares(proc, proc')
  BY Gone, Unmoved, PidsAssumption DEF reportProof, Leaves, Sup, supLive
<1>2. raced' = raced
  BY Uncounted DEF BookInv, reportProof, ownerVars, count
<1>3. \A v \in {"owner", "sup"} : Moves(settling[v], settling'[v]) /\ (outrun(v)' <=> outrun(v))
  BY Unmoving DEF reportProof, ownerVars, count
<1>4. EmptyInv /\ \A v \in {"owner", "sup"} : PassOf(v, settling[v], proc)
  BY DEF SettledInv
<1>5. EmptyInv'
  <2>1. owner' = owner /\ ~alive(0)'
    BY Gone, PidsAssumption DEF reportProof, ownerVars, Leaves, supLive, alive
  <2> QED
    BY <1>1, <1>3, <1>4, <2>1, StillEmpty DEF reportProof
<1> QED
  BY <1>1, <1>2, <1>3, <1>5, Undisturbed

\* Exits, deaths and the end of the supervisor only shrink the table.
LEMMA ExitsReleases ==
  ASSUME TableInv, TableInv', HandshakeInv, BookInv, SettledInv, NEW p \in Pids, Exits(p) PROVE SettledInv'
<1>1. Shrinks(proc, proc') /\ Spares(proc, proc')
  BY Gone DEF Exits, targets, member, alive
<1>2. raced' = raced
  BY Uncounted DEF BookInv, Exits, ownerVars, supVars, count
<1>3. \A v \in {"owner", "sup"} : Moves(settling[v], settling'[v]) /\ (outrun(v)' <=> outrun(v))
  BY Unmoving DEF Exits, ownerVars, supVars, count
<1>4. EmptyInv /\ \A v \in {"owner", "sup"} : PassOf(v, settling[v], proc)
  BY DEF SettledInv
<1>5. EmptyInv'
  BY <1>1, <1>3, <1>4, StillEmpty DEF Exits, ownerVars, supVars, count
<1> QED
  BY <1>1, <1>2, <1>3, <1>5, Undisturbed

LEMMA KillsReleases ==
  ASSUME TableInv, TableInv', HandshakeInv, BookInv, SettledInv, NEW p \in Pids, Kills(p) PROVE SettledInv'
<1>1. Shrinks(proc, proc') /\ Spares(proc, proc')
  BY SupKilled DEF Kills
<1>2. raced' = raced
  BY Uncounted DEF BookInv, Kills, ownerVars, supVars, count
<1>3. \A v \in {"owner", "sup"} : Moves(settling[v], settling'[v]) /\ (outrun(v)' <=> outrun(v))
  BY Unmoving DEF Kills, ownerVars, supVars, count
<1>4. EmptyInv /\ \A v \in {"owner", "sup"} : PassOf(v, settling[v], proc)
  BY DEF SettledInv
<1>5. EmptyInv'
  BY <1>1, <1>3, <1>4, StillEmpty DEF Kills, ownerVars, supVars, count
<1> QED
  BY <1>1, <1>2, <1>3, <1>5, Undisturbed

LEMMA DiesReleases ==
  ASSUME TableInv, TableInv', HandshakeInv, BookInv, SettledInv, NEW p \in Pids, Dies(p) PROVE SettledInv'
<1>1. Shrinks(proc, proc') /\ Spares(proc, proc')
  BY Gone DEF Dies, alive
<1>2. raced' = raced
  BY Uncounted DEF BookInv, Dies, ownerVars, supVars, count
<1>3. \A v \in {"owner", "sup"} : Moves(settling[v], settling'[v]) /\ (outrun(v)' <=> outrun(v))
  BY Unmoving DEF Dies, ownerVars, supVars, count
<1>4. EmptyInv /\ \A v \in {"owner", "sup"} : PassOf(v, settling[v], proc)
  BY DEF SettledInv
<1>5. EmptyInv'
  BY <1>1, <1>3, <1>4, StillEmpty DEF Dies, ownerVars, supVars, count
<1> QED
  BY <1>1, <1>2, <1>3, <1>5, Undisturbed

\* Nothing runs yet: neither side has settled.
LEMMA StartReleases ==
  ASSUME TableInv, TableInv', HandshakeInv, BookInv, SettledInv, Start PROVE SettledInv'
<1>1. /\ owner = "prepared" /\ owner' \in {"awaitR", "startFailed"} /\ proof' = proof /\ settling' = settling
      /\ sup = "off" /\ proof = "prepared" /\ sup' \in {"off", "challenge"} /\ raced' = raced
  BY Uncounted DEF Start, BookInv, ControlInv
<1>2. settling["owner"].at = "idle" /\ settling["sup"] = Idle
  BY <1>1 DEF BookInv, ControlInv, Scalars
<1>3. CASE proc' = proc /\ owner' = "startFailed"
  <2>1. Shrinks(proc, proc') /\ Spares(proc, proc')
    BY <1>3, Unmoved
  <2>2. \A v \in {"owner", "sup"} : Moves(settling[v], settling'[v])
    BY <1>1, Unmoving
  <2>3. \A q \in Pids : ~member(q)'
    BY <1>1, <1>3, NobodyYet DEF BookInv, member, alive
  <2>4. targets' = {} /\ ~alive(0)'
    BY <2>3, PidsAssumption DEF targets, TableInv, member
  <2>5. EmptyInv'
    BY <1>1, <2>3, <2>4 DEF EmptyInv
  <2> QED
    BY <1>1, <2>1, <2>2, <2>5, Undisturbed
<1>4. CASE proc' = takes(0, "member") /\ owner' = "awaitR"
  <2>1. Spares(proc, proc') /\ \A p \in Pids \ {0} : proc'[p] = proc[p]
    BY <1>4, Took, PidsAssumption
  <2>2. \A p \in Pids \ {0} : ~member(p)'
    BY <1>1, <2>1, NobodyYet DEF BookInv, member, alive
  <2>3. targets' = {}
    BY <2>2 DEF targets
  <2>4. EmptyInv'
    BY <1>1, <1>4, <2>3 DEF EmptyInv
  <2>5. RaceInv'
    BY <1>1, <1>2, <2>1, StillRacing DEF SettledInv
  <2>6. PassOf("sup", settling'["sup"], proc')
    BY <1>1, <1>2, Idling
  <2>7. settling["owner"].phase = "kill" <=> settling["owner"].stable = 2
    BY DEF SettledInv, PassOf
  <2>8. PassOf("owner", settling'["owner"], proc')
    BY <1>1, <1>2, <2>7 DEF PassOf, Quiet
  <2> QED
    BY <2>4, <2>5, <2>6, <2>8 DEF SettledInv
<1> QED
  BY <1>3, <1>4 DEF Start

\* The target is born while ACS may be settling: behind a snapshot of ACS if there is
\* one, and the supervisor is running.
LEMMA startTargetReleases ==
  ASSUME TableInv, TableInv', HandshakeInv, BookInv, SettledInv, startTarget PROVE SettledInv'
<1>1. /\ sup = "spawn" /\ owner' = owner /\ proof' = proof /\ supLive /\ member(0) /\ raced' = raced
      /\ sup' # "report"
  BY Uncounted, PidsAssumption DEF startTarget, ownerVars, Sup, supLive, member, alive, TableInv, BookInv
<1>2. EmptyInv /\ RaceInv /\ \A v \in {"owner", "sup"} : PassOf(v, settling[v], proc)
  BY DEF SettledInv
<1>3. proof # "none" => outrun("owner")
  BY <1>1, <1>2 DEF EmptyInv, BookInv, ControlInv, Scalars, supLive, alive
<1>4. CASE Sup("noTarget") /\ UNCHANGED <<proc, settling>>
  <2>1. Shrinks(proc, proc') /\ Spares(proc, proc')
    BY <1>4, Unmoved
  <2>2. \A v \in {"owner", "sup"} : Moves(settling[v], settling'[v]) /\ (outrun(v)' <=> outrun(v))
    BY <1>4, Unmoving
  <2>3. EmptyInv'
    BY <1>1, <1>2, <2>1, <2>2, StillEmpty
  <2> QED
    BY <1>1, <2>1, <2>2, <2>3, Undisturbed
<1>5. CASE proc' = takes(1, "member") /\ settling' = renewed
  <2>1. Spares(proc, proc')
    BY <1>5, Took, PidsAssumption
  <2>2. /\ settling'["owner"] = IF settling["owner"].at \in {"visit", "act", "send"}
                                THEN [settling["owner"] EXCEPT !.forked = TRUE] ELSE settling["owner"]
        /\ settling'["owner"].at = settling["owner"].at /\ settling'["owner"].pid = settling["owner"].pid
        /\ outrun("owner")' <=> outrun("owner")
    BY <1>5, Renewed
  <2>3. settling'["sup"] = Idle
    BY <1>1, <1>5, Renewed DEF BookInv, ControlInv
  <2>4. PassOf("owner", settling'["owner"], proc')
    <3>1. 0 \in Running("owner", proc)
      BY <1>1, MembersCovered, PidsAssumption DEF Running, supLive
    <3>2. settling["owner"] \in Settlement
      BY DEF BookInv
    <3> QED
      BY <1>2, <2>2, <3>1, <3>2, Renewing
  <2>5. PassOf("sup", settling'["sup"], proc')
    BY <2>3, Idling
  <2>6. RaceInv'
    BY <1>1, <1>2, <2>1, <2>2, StillRacing
  <2>7. EmptyInv'
    <3>1. owner \in {"done", "recovered", "aborted", "startFailed"} => outrun("owner")
      BY <1>1, <1>2, PidsAssumption DEF EmptyInv, supLive
    <3> QED
      BY <1>1, <1>3, <2>2, <3>1 DEF EmptyInv
  <2> QED
    BY <2>4, <2>5, <2>6, <2>7 DEF SettledInv
<1> QED
  BY <1>4, <1>5 DEF startTarget, Sup

\* A member is born or woken: the one that did it runs, so no settlement has seen
\* everybody, and a pass under way may miss the new one.
LEMMA ForksReleases ==
  ASSUME TableInv, TableInv', HandshakeInv, BookInv, SettledInv, NEW p \in Pids, Forks(p) PROVE SettledInv'
<1>1. /\ settling' = renewed /\ owner' = owner /\ sup' = sup /\ proof' = proof /\ raced' = raced
      /\ p \in targets /\ p # 0 /\ member(p) /\ proc[p].st = "running"
  BY DEF Forks, ownerVars, supVars, targets
<1>2. EmptyInv /\ RaceInv /\ \A v \in {"owner", "sup"} : PassOf(v, settling[v], proc)
  BY DEF SettledInv
<1>3. Spares(proc, proc') /\ (alive(0)' => alive(0))
  <2>1. CASE \E q \in Pids \ {0} : proc' = takes(q, "member")
    BY <2>1, Took, PidsAssumption DEF alive
  <2>2. CASE \E q \in Pids : member(q) /\ proc' = [proc EXCEPT ![q].st = "running"]
    BY <2>2, Woken, PidsAssumption DEF alive, member
  <2> QED
    BY <2>1, <2>2 DEF Forks
<1>4. \A v \in {"owner", "sup"} :
          /\ settling'[v] = IF settling[v].at \in {"visit", "act", "send"}
                            THEN [settling[v] EXCEPT !.forked = TRUE] ELSE settling[v]
          /\ settling'[v].at = settling[v].at /\ settling'[v].pid = settling[v].pid
          /\ outrun(v)' <=> outrun(v)
  BY <1>1, Renewed
<1>5. ASSUME NEW v \in {"owner", "sup"} PROVE PassOf(v, settling'[v], proc')
  <2>1. p \in Running(v, proc)
    BY <1>1, MembersCovered DEF Running
  <2>2. settling[v] \in Settlement
    BY DEF BookInv
  <2> QED
    BY <1>2, <1>4, <2>1, <2>2, Renewing
<1>6. RaceInv'
  BY <1>1, <1>2, <1>3, <1>4, StillRacing
<1>7. EmptyInv'
  <2>1. proof \in {"prepared", "settled"} => outrun("sup") \/ outrun("owner")
    BY <1>1, <1>2 DEF EmptyInv
  <2>2. owner \in {"done", "recovered", "aborted", "startFailed"} => outrun("owner")
    BY <1>1, <1>2 DEF EmptyInv
  <2>3. proof = "settled" /\ alive(0) => sup = "report" \/ outrun("owner")
    BY <1>2 DEF EmptyInv
  <2> QED
    BY <1>1, <1>3, <1>4, <2>1, <2>2, <2>3 DEF EmptyInv
<1> QED
  BY <1>5, <1>6, <1>7 DEF SettledInv

\* A PID that ACS is about to signal is noted when the host takes it.
LEMMA HostTakesReleases ==
  ASSUME TableInv, TableInv', HandshakeInv, BookInv, SettledInv, NEW p \in Pids, HostTakes(p) PROVE SettledInv'
<1>1. /\ owner' = owner /\ sup' = sup /\ settling' = settling /\ proof' = proof /\ p # 0
      /\ raced' = IF settling["owner"].at = "send" /\ settling["owner"].pid = p THEN raced \cup {p} ELSE raced \ {p}
  BY DEF HostTakes, ownerVars, supVars
<1>2. EmptyInv /\ RaceInv /\ \A v \in {"owner", "sup"} : PassOf(v, settling[v], proc)
  BY DEF SettledInv
<1>3. proc'[p].kind = "host" /\ proc'[p].st = "running" /\ \A x \in Pids \ {p} : proc'[x] = proc[x]
  BY Took DEF HostTakes
<1>4. Shrinks(proc, proc')
  BY <1>3 DEF Shrinks
<1>5. \A v \in {"owner", "sup"} : PassOf(v, settling'[v], proc')
  BY <1>1, <1>2, <1>4, Shrinking DEF BookInv
<1>6. EmptyInv'
  <2>1. \A v \in {"owner", "sup"} : outrun(v)' <=> outrun(v)
    BY <1>1, Unmoving
  <2> QED
    BY <1>1, <1>2, <1>4, <2>1, StillEmpty
<1>7. HostUntouched'
  BY <1>1, <1>2, <1>3 DEF RaceInv, HostUntouched, alive
<1>8. settling["owner"].at = "send" /\ proc'[settling["owner"].pid].st # "free" =>
          proc'[settling["owner"].pid].kind = "member" \/ settling["owner"].pid \in raced'
  <2>1. settling["owner"].pid \in Pids
    BY Fields DEF BookInv
  <2>2. CASE settling["owner"].pid = p
    BY <1>1, <2>2
  <2>3. CASE settling["owner"].pid # p
    BY <1>1, <1>2, <1>3, <2>1, <2>3 DEF RaceInv, alive, member
  <2> QED
    BY <2>2, <2>3
<1>9. RaceInv'
  BY <1>1, <1>7, <1>8 DEF RaceInv, alive, member
<1> QED
  BY <1>5, <1>6, <1>9 DEF SettledInv

-----------------------------------------------------------------------------
LEMMA InitReleases == ASSUME Init, TableInv, HandshakeInv PROVE BookInv /\ SettledInv
<1>1. Scalars
  BY DEF Init, Scalars
<1>2. settling \in [{"owner", "sup"} -> Settlement] /\ \A w \in {"owner", "sup"} : settling[w] = Idle
  BY Idling DEF Init
<1>3. proc = [p \in Pids |-> Free] /\ \A p \in Pids : proc[p] = Free
  BY DEF Init
<1>4. CountInv
  BY <1>3, FreeIsNobody, BoundsAssumption DEF Init, CountInv, Born
<1>5. WireInv
  BY Lengths DEF Init, WireInv
<1>6. \A p \in Pids : ~alive(p)
  BY <1>3, FreeIsNobody DEF alive
<1>7. ControlInv
  BY <1>2, <1>3, Idling DEF Init, ControlInv
<1>8. targets = {} /\ ~alive(0) /\ \A p \in Pids : ~member(p)
  BY <1>6, PidsAssumption DEF targets, member
<1>9. EmptyInv
  BY <1>8 DEF Init, EmptyInv
<1>10. RaceInv
  BY <1>2, <1>6, Idling DEF RaceInv, HostUntouched
<1>11. \A w \in {"owner", "sup"} : PassOf(w, settling[w], proc)
  BY <1>2, Idling
<1> QED
  BY <1>1, <1>2, <1>4, <1>5, <1>7, <1>9, <1>10, <1>11 DEF BookInv, SettledInv

LEMMA StutterReleases ==
  ASSUME UNCHANGED vars, BookInv, SettledInv PROVE BookInv' /\ SettledInv'
<1>1. UNCHANGED <<owner, cancelled, verified, answer, control, toSup, toOwner, sup, started, proc, settling, proof,
                  forks, hosts, raced, faults>>
  BY DEF vars, ownerVars, wire, supVars, count
<1>2. BookInv'
  BY <1>1 DEF BookInv, Scalars, CountInv, Born, WireInv, ControlInv, alive
<1>3. EmptyInv' <=> EmptyInv
  BY <1>1 DEF EmptyInv, targets, member, alive, outrun
<1>4. RaceInv' <=> RaceInv
  BY <1>1 DEF RaceInv, HostUntouched, member, alive
<1>5. PassOf("sup", settling["sup"], proc)' <=> PassOf("sup", settling["sup"], proc)
  BY <1>1
<1>6. PassOf("owner", settling["owner"], proc)' <=> PassOf("owner", settling["owner"], proc)
  BY <1>1
<1> QED
  BY <1>2, <1>3, <1>4, <1>5, <1>6 DEF SettledInv

LEMMA BooksHold ==
  ASSUME TableInv, TableInv', HandshakeInv, BookInv, SettledInv, [Next]_vars PROVE BookInv'
<1>1. CASE OwnerStep
  BY <1>1, startSupervisorBooks, supervisorStartedBooks, startSupervisorFailsBooks,
     startSettledBooks, readCleanupProofBooks, waitForSupervisorProofBooks, SettlingBooks DEF OwnerStep
<1>2. CASE SupStep
  BY <1>2, clearProofBooks, readyBooks, readStartBooks, sealDescriptorsBooks, startTargetBooks,
     waitTargetBooks, recordProofBooks, reportProofBooks, seatbeltNoTargetFailureBooks, SettlingBooks
     DEF SupStep
<1>3. CASE Start \/ AbortPrepared \/ Signal \/ cancel \/ OwnerDies \/ forwardSeatbeltControl
  BY <1>3, StartBooks, AbortPreparedBooks, SignalBooks, cancelBooks, OwnerDiesBooks,
     forwardSeatbeltControlBooks
<1>4. ASSUME NEW p \in Pids, Forks(p) \/ Exits(p) \/ Kills(p) \/ Dies(p) \/ HostTakes(p)
      PROVE  BookInv'
  BY <1>4, ForksBooks, ExitsBooks, KillsBooks, DiesBooks, HostTakesBooks
<1>5. CASE UNCHANGED vars
  BY <1>5, StutterReleases
<1> QED
  BY <1>1, <1>2, <1>3, <1>4, <1>5 DEF Next

LEMMA ReleasesHold ==
  ASSUME TableInv, TableInv', HandshakeInv, BookInv, BookInv', SettledInv, [Next]_vars PROVE SettledInv'
<1>1. CASE OwnerStep
  BY <1>1, startSupervisorReleases, supervisorStartedReleases, startSupervisorFailsReleases,
     startSettledReleases, readCleanupProofReleases, waitForSupervisorProofReleases, SettlingReleases
     DEF OwnerStep
<1>2. CASE SupStep
  BY <1>2, clearProofReleases, readyReleases, readStartReleases, sealDescriptorsReleases,
     startTargetReleases, waitTargetReleases, recordProofReleases, reportProofReleases,
     seatbeltNoTargetFailureReleases, SettlingReleases DEF SupStep
<1>3. CASE Start \/ AbortPrepared \/ Signal \/ cancel \/ OwnerDies \/ forwardSeatbeltControl
  BY <1>3, StartReleases, AbortPreparedReleases, SignalReleases, cancelReleases, OwnerDiesReleases,
     forwardSeatbeltControlReleases
<1>4. ASSUME NEW p \in Pids, Forks(p) \/ Exits(p) \/ Kills(p) \/ Dies(p) \/ HostTakes(p)
      PROVE  SettledInv'
  BY <1>4, ForksReleases, ExitsReleases, KillsReleases, DiesReleases, HostTakesReleases
<1>5. CASE UNCHANGED vars
  BY <1>5, StutterReleases
<1> QED
  BY <1>1, <1>2, <1>3, <1>4, <1>5 DEF Next

LEMMA SettlementHolds == Spec => [](TableInv /\ HandshakeInv /\ BookInv /\ SettledInv)
<1>1. Init => TableInv /\ HandshakeInv /\ BookInv /\ SettledInv
  BY InitHolds, InitReleases
<1>2. TableInv /\ HandshakeInv /\ BookInv /\ SettledInv /\ [Next]_vars
        => (TableInv /\ HandshakeInv /\ BookInv /\ SettledInv)'
  BY StepHolds, BooksHold, ReleasesHold
<1> QED
  BY <1>1, <1>2, PTL DEF Spec

LEMMA Typing == ASSUME TableInv, HandshakeInv, BookInv PROVE TypeOK
<1>1. forks \in 0..MaxForks /\ hosts \in 0..MaxHosts /\ faults \in 0..MaxFaults /\ raced \subseteq Pids
  BY DEF BookInv, CountInv
<1>2. proc \in [Pids -> [st : {"free", "running", "stopped", "dying"}, kind : {"member", "host"}, gen : Gens]]
  <2>1. ASSUME NEW p \in Pids
        PROVE  proc[p] \in [st : {"free", "running", "stopped", "dying"}, kind : {"member", "host"}, gen : Gens]
    <3>1. proc[p] \in Entry /\ proc[p].gen \in Gens
      BY GenBound DEF TableInv, BookInv
    <3> QED
      BY <3>1 DEF Entry
  <2> QED
    BY <2>1 DEF TableInv
<1>3. settling \in [{"owner", "sup"} ->
          [at : {"idle", "snap", "visit", "act", "send", "ok", "err"}, phase : {"stop", "kill"}, todo : SUBSET Pids,
           hit : BOOLEAN, stable : 0..2, pid : Pids, gen : Gens, unsure : BOOLEAN, forked : BOOLEAN, missed : Nat]]
  BY DEF BookInv, Settlement
<1>4. /\ toSup \in Seq({"C", "G", "sig", "KILL"}) /\ Len(toSup) <= 3
      /\ toOwner \in Seq({"R", "proof", "noTarget"}) /\ Len(toOwner) <= 2
      /\ answer \in {"none", "bad", "R", "proof", "noTarget"}
  BY DEF HandshakeInv, ToSup, ToOwner, BookInv, WireInv
<1> QED
  BY <1>1, <1>2, <1>3, <1>4 DEF TypeOK, BookInv, Scalars, Gens

\* The state keeps its type for any number of processes, descendants and faults; in
\* particular neither side ever has more than one exchange under way on the control
\* socket (startSupervisor, cancel, reportProof).
THEOREM TypesHold == Spec => []TypeOK
<1>1. TableInv /\ HandshakeInv /\ BookInv => TypeOK
  BY Typing
<1> QED
  BY <1>1, SettlementHolds, PTL

\* For any set of processes, any number of forks, reused PIDs and failures: a process
\* outside of the Session is stopped or killed only if it took the PID of a target
\* after ACS had last looked at that target and before its signal (sameIdentity,
\* signal); no pass, no snapshot however old, and never the supervisor, reaches
\* another one.
THEOREM HostsAreUntouched == Spec => []HostUntouched
<1>1. SettledInv => HostUntouched
  BY DEF SettledInv, RaceInv
<1> QED
  BY <1>1, SettlementHolds, PTL

\* For any set of processes, any number of forks, SIGCONTs, reused PIDs and failures,
\* and however the two settlements and the start of the target interleave: with a
\* proof on disk no process of the target is left, and the Session is released only
\* when every process under its policy is gone or has its last signal, unless the
\* settlement of ACS or of the supervisor was outrun, that is, a query it passed over
\* hid a process, or behind the snapshot of each of its last three quiet passes a
\* process was born or woken (settleSeatbeltInstance, recordProof,
\* waitForSupervisorProof, startSettled).
THEOREM ReleasesAreProven == Spec => []ReleaseIsProven
<1>1. ASSUME TableInv, HandshakeInv, BookInv, SettledInv
      PROVE  ReleaseIsProven
  <2>1. ProofMeansEmpty
    BY <1>1 DEF SettledInv, EmptyInv, ProofMeansEmpty
  <2>2. DoneMeansEmpty
    BY <1>1 DEF SettledInv, EmptyInv, DoneMeansEmpty
  <2>3. TargetIsIdentified /\ NoTargetHonest
    BY <1>1 DEF HandshakeInv, TargetIsIdentified, NoTargetHonest
  <2> QED
    BY <1>1, <2>1, <2>2, <2>3, Typing DEF ReleaseIsProven
<1>2. TableInv /\ HandshakeInv /\ BookInv /\ SettledInv => ReleaseIsProven
  BY <1>1
<1> QED
  BY <1>2, SettlementHolds, PTL

=============================================================================
