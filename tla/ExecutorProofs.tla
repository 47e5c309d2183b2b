--------------------------- MODULE ExecutorProofs ---------------------------
(***************************************************************************)
(* Proofs about Executor for any number of signals and faults.  The        *)
(* invariant relates the four things an invocation keeps apart: where each *)
(* thread is (Places, Handles), the references of a Session and who holds  *)
(* them (Processes, References), what has been reported so far (Passed,    *)
(* Lease, Outcomes) and what the signal supervisor still owes the target   *)
(* (Intake).                                                               *)
(***************************************************************************)
EXTENDS Executor, TLAPS

\* The type of the state, in four parts.
ControlOK ==
    /\ kind \in Kinds /\ stage \in [Threads -> Stages]
    /\ sub \in [Threads -> {"none", "start", "attach", "replay", "wait", "settle"}]
    /\ res \in [Threads -> SUBSET {"exit", "error", "cleanup"}]
    /\ passed \subseteq {"skills", "rules", "auth", "version", "login"}
    /\ env \in {"none", "held", "transferred", "released"}
Process == [st : {"none", "prepared", "started", "exited", "failed"}, ses : Sessions,
            tree : BOOLEAN, clean : {"open", "done", "never"}, held : BOOLEAN]
SessionState == [st : {"none", "live", "gone", "kept"}, refs : 0..3, asked : BOOLEAN]
ResourcesOK == ses \in [Sessions -> SessionState] /\ proc \in [Roles -> Process]
Supervisor == [on : BOOLEAN, pending : {"none", "term", "winch"}, starting : BOOLEAN,
               child : BOOLEAN, cleaning : BOOLEAN, interrupts : 0..MaxSignals]
IntakeOK ==
    /\ sup \in Supervisor /\ chan \in {"none", "term", "winch"} /\ cancelled \in BOOLEAN /\ hit \in BOOLEAN
    /\ accepted \in BOOLEAN /\ lost \in BOOLEAN /\ signals \in 0..MaxSignals /\ faults \in 0..MaxFaults
    /\ sup.interrupts + (IF chan = "none" THEN 0 ELSE 1) <= signals

\* The stages before a Session exists, and those at which it is in use.
Early == {"resolve", "check", "environment", "create"}
Probing == {"skills", "rules", "version"}
InUse == {"recipes", "project", "login", "join", "auth", "target", "remove"} \cup Probing
PreTarget == Early \cup {"recipes", "project", "login", "join"} \cup Probing
Leaving == {"remove", "release", "returned"}

\* Which stages go with which kind, and where the worker can be meanwhile.
Places ==
    /\ stage["main"] \in PreTarget \cup {"target", "forced"} \cup Leaving
    /\ stage["worker"] \in {"off", "create", "recipes", "project", "auth", "remove", "finished", "forced"}
    /\ stage["main"] = "forced" <=> stage["worker"] = "forced"
    /\ stage["main"] \in {"skills", "rules", "join"} => kind \in {"devin", "verify"}
    /\ stage["main"] \in {"version", "login"} => kind = "grok"
    /\ stage["main"] = "recipes" => kind \in {"devin", "verify", "grok"}
    /\ stage["main"] = "target" => interactive
    /\ stage["worker"] \in {"create", "recipes", "project", "auth", "remove"}
          => stage["main"] \in {"skills", "rules", "join"}
    /\ stage["main"] \in Early \cup {"recipes", "project"} => stage["worker"] = "off"
    /\ kind \notin {"devin", "verify"} => stage["worker"] \in {"off", "forced"}
    /\ stage["worker"] = "off" => res["worker"] = {}

\* What a thread's step says of its process.
Handle(t, r) ==
    /\ sub[t] = "start" => proc[r].st = "prepared"
    /\ sub[t] \in {"attach", "replay", "wait"} => proc[r].st \in {"started", "exited"}
    /\ sub[t] = "settle" => proc[r].st \in {"exited", "failed"}
    /\ sub[t] = "none" => proc[r].st = "none"
Handles ==
    /\ stage["main"] \in Probing => Handle("main", "probe")
    /\ stage["main"] = "target" => Handle("main", "target")
    /\ stage["worker"] = "auth" => Handle("worker", "auth")
    /\ \A t \in Threads : stage[t] \notin Probing \cup {"target", "auth", "forced"} => sub[t] = "none"
    /\ sub["worker"] \notin {"attach", "replay"}
    /\ stage["main"] \in Probing => sub["main"] \notin {"attach", "replay"}
    /\ stage["main"] \in PreTarget => proc["target"].st = "none"
    /\ stage["main"] \in Early \cup {"recipes", "project", "login", "target"} => proc["probe"].st = "none"
    /\ stage["main"] = "join" /\ res["main"] = {} => proc["probe"].st = "none"
    /\ proc["target"].st # "none" => proc["probe"].st = "none"
    /\ stage["worker"] \in {"off", "create", "recipes", "project"} => proc["auth"].st = "none"

\* A process holds a reference of its Session until its cleanup is proven.
ProcessInv(r) ==
    /\ proc[r].st = "none" => proc[r] = NoProcess
    /\ proc[r].tree => proc[r].st \in {"started", "exited", "failed"} /\ proc[r].clean # "done"
    /\ proc[r].clean # "open" => proc[r].st \in {"exited", "failed"}
    /\ proc[r].st # "none" =>
          /\ proc[r].clean # "done" => proc[r].held
          /\ proc[r].ses = IF r = "auth" THEN "side" ELSE "main"
Processes == \A r \in Roles : ProcessInv(r)

\* The references of a Session: one until its removal is asked for, and one for
\* every process that holds it.
one(b) == IF b THEN 1 ELSE 0
holders(s) ==
    IF s = "main" THEN one(proc["probe"].held) + one(proc["target"].held) ELSE one(proc["auth"].held)
ReferenceInv(s) ==
    /\ ses[s].st = "none" => ~ses[s].asked
    /\ ses[s].st = "live" => ses[s].refs = holders(s) + one(~ses[s].asked) /\ ses[s].refs > 0
    /\ ses[s].st # "live" => ses[s].refs = 0 /\ holders(s) = 0
References ==
    /\ \A s \in Sessions : ReferenceInv(s)
    /\ \A t \in Threads :
          /\ stage[t] \in Early \cup {"off"} => ses[own(t)].st = "none"
          /\ stage[t] \in InUse => ses[own(t)].st = "live" /\ ~ses[own(t)].asked
          /\ stage[t] \in {"release", "returned", "finished"} /\ ses[own(t)].st = "live" => ses[own(t)].asked

\* The preflights that have succeeded by now.
Passed ==
    /\ stage["main"] = "rules" => "skills" \in passed
    /\ stage["main"] = "join" /\ res["main"] = {} => {"skills", "rules"} \subseteq passed
    /\ stage["main"] = "login" => "version" \in passed
    /\ stage["main"] = "target" \/ proc["target"].st # "none" => preflights \subseteq passed

\* Who is responsible for the selected environment values.
Lease ==
    /\ stage["main"] \in PreTarget \cup {"target"} /\ interactive /\ proc["target"].st = "none"
          => env \in {"none", "held"}
    /\ proc["target"].st # "none" /\ proc["target"].clean # "done" => env \in {"none", "transferred"}

\* What is left of a thread's Session is in its outcome, and the worker's outcome
\* in that of the caller.
Outcomes ==
    /\ \A t \in Threads :
          ses[own(t)].st = "kept" \/ (ses[own(t)].st = "live" /\ ses[own(t)].asked) => "cleanup" \in res[t]
    /\ stage["main"] \notin Probing \cup {"target", "forced"} /\ (proc["probe"].held \/ proc["target"].held)
          => "cleanup" \in res["main"]
    /\ stage["worker"] \notin {"auth", "forced"} /\ proc["auth"].held => "cleanup" \in res["worker"]
    /\ stage["main"] \in {"target"} \cup Leaving /\ "cleanup" \in res["worker"] => "cleanup" \in res["main"]

\* What became of an accepted termination.
Intake ==
    /\ sup.on => devin
    /\ ~devin => ~accepted /\ ~sup.starting
    /\ stage["main"] \in PreTarget => ~sup.starting /\ ~sup.child /\ ~sup.cleaning
    /\ stage["main"] \in PreTarget /\ accepted => cancelled
    /\ stage["main"] = "target" /\ devin =>
          /\ sub["main"] # "settle" => ~sup.cleaning
          /\ sub["main"] = "none" => ~sup.child
          /\ sub["main"] = "none" /\ ~sup.starting /\ accepted => cancelled
          /\ sub["main"] = "none" /\ sup.starting /\ accepted => sup.pending = "term"
          /\ sub["main"] \in {"start", "attach"} => sup.starting /\ ~sup.child /\ (accepted => sup.pending = "term")
          /\ sub["main"] \in {"replay", "wait"} => ~sup.starting /\ sup.child
          /\ sub["main"] = "wait" /\ accepted => hit \/ "error" \in res["main"]

IndInv ==
    /\ ControlOK /\ ResourcesOK /\ IntakeOK /\ Places /\ Handles /\ Processes /\ References
    /\ Passed /\ Lease /\ Outcomes /\ Intake

-----------------------------------------------------------------------------
\* Every fault counts against its bound.
LEMMA FaultBounds == ASSUME faults \in 0..MaxFaults, Fault PROVE faults' \in 0..MaxFaults
  BY BoundsAssumption DEF Fault

\* What beginCleanup makes of the supervisor.
LEMMA CleanupBegins ==
  ASSUME sup \in Supervisor
  PROVE  /\ beginCleanup \in Supervisor /\ beginCleanup.interrupts = sup.interrupts
         /\ beginCleanup.on = sup.on /\ beginCleanup.pending = sup.pending
         /\ ~beginCleanup.child /\ ~beginCleanup.starting /\ beginCleanup.cleaning
<1> DEFINE r1 == [sup EXCEPT !.child = FALSE]
           r2 == [r1 EXCEPT !.starting = FALSE]
           r3 == [r2 EXCEPT !.cleaning = TRUE]
<1>1. /\ r1 \in Supervisor /\ r1.interrupts = sup.interrupts /\ r1.on = sup.on
      /\ r1.pending = sup.pending /\ ~r1.child
  BY DEF Supervisor
<1>2. /\ r2 \in Supervisor /\ r2.interrupts = sup.interrupts /\ r2.on = sup.on
      /\ r2.pending = sup.pending /\ ~r2.child /\ ~r2.starting
  BY <1>1 DEF Supervisor
<1>3. /\ r3 \in Supervisor /\ r3.interrupts = sup.interrupts /\ r3.on = sup.on
      /\ r3.pending = sup.pending /\ ~r3.child /\ ~r3.starting /\ r3.cleaning
  BY <1>2 DEF Supervisor
<1>4. beginCleanup = r3
  BY DEF beginCleanup
<1> HIDE DEF r1, r2, r3
<1> QED
  BY <1>3, <1>4

\* What removing a Session and giving back a reference of it do to the Sessions.
LEMMA SessionRemoved ==
  ASSUME ResourcesOK, NEW s \in Sessions, removeLocked(s)
  PROVE  /\ ses' \in [Sessions -> SessionState] /\ \A q \in Sessions \ {s} : ses'[q] = ses[q]
         /\ ses'[s].st \in {"gone", "kept"} /\ ses'[s].refs = 0 /\ ses'[s].asked
<1>1. PICK how \in {"gone", "kept"} : ses' = [ses EXCEPT ![s] = [st |-> how, refs |-> 0, asked |-> TRUE]]
  BY DEF removeLocked
<1> DEFINE r == [st |-> how, refs |-> 0, asked |-> TRUE]
<1>2. r \in SessionState /\ r.st = how /\ r.refs = 0 /\ r.asked
  BY DEF SessionState
<1>3. ses' = [ses EXCEPT ![s] = r] /\ ses \in [Sessions -> SessionState]
  BY <1>1 DEF ResourcesOK
<1> HIDE DEF r
<1> QED
  BY <1>2, <1>3

\* A Session with one reference less.
LEMMA OneReferenceLess ==
  ASSUME ResourcesOK, NEW s \in Sessions, ses[s].refs > 0, ses' = [ses EXCEPT ![s].refs = @ - 1]
  PROVE  /\ ses' \in [Sessions -> SessionState] /\ \A q \in Sessions \ {s} : ses'[q] = ses[q]
         /\ ses'[s].refs = ses[s].refs - 1 /\ ses'[s].st = ses[s].st /\ ses'[s].asked = ses[s].asked
<1> DEFINE n == ses[s].refs - 1
           r == [ses[s] EXCEPT !.refs = n]
<1>1. n \in 0..3 /\ ses[s] \in SessionState /\ ses \in [Sessions -> SessionState]
  BY DEF ResourcesOK, SessionState
<1>2. r \in SessionState /\ r.refs = n /\ r.st = ses[s].st /\ r.asked = ses[s].asked
  BY <1>1 DEF SessionState
<1>3. ses' = [ses EXCEPT ![s] = r]
  OBVIOUS
<1> HIDE DEF r
<1> QED
  BY <1>1, <1>2, <1>3

\* Giving back a reference: the last one of a Session to be removed removes it.
LEMMA ReferenceReleased ==
  ASSUME ResourcesOK, NEW s \in Sessions, ses[s].refs > 0, releaseReference(s)
  PROVE  /\ ses' \in [Sessions -> SessionState] /\ \A q \in Sessions \ {s} : ses'[q] = ses[q]
         /\ \/ /\ ses[s].refs = 1 /\ ses[s].asked
               /\ ses'[s].st \in {"gone", "kept"} /\ ses'[s].refs = 0 /\ ses'[s].asked
            \/ /\ ~(ses[s].refs = 1 /\ ses[s].asked)
               /\ ses'[s].refs = ses[s].refs - 1 /\ ses'[s].st = ses[s].st /\ ses'[s].asked = ses[s].asked
<1>1. CASE ses[s].refs = 1 /\ ses[s].asked
  <2>1. removeLocked(s)
    BY <1>1 DEF releaseReference
  <2> QED
    BY <1>1, <2>1, SessionRemoved
<1>2. CASE ~(ses[s].refs = 1 /\ ses[s].asked)
  <2>1. ses' = [ses EXCEPT ![s].refs = @ - 1]
    BY <1>2 DEF releaseReference
  <2> QED
    BY <1>2, <2>1, OneReferenceLess
<1> QED
  BY <1>1, <1>2

\* A process that holds a reference has a Session with references left.
LEMMA HolderHasSession ==
  ASSUME ResourcesOK, Processes, References, NEW r \in Roles, proc[r].held
  PROVE  /\ proc[r].ses = IF r = "auth" THEN "side" ELSE "main"
         /\ proc[r].ses \in Sessions /\ ses[proc[r].ses].st = "live"
         /\ ses[proc[r].ses].refs > 0
         /\ \A s \in Sessions : holders(s) \in 0..2
<1>1. proc[r].st # "none" /\ proc[r].ses = IF r = "auth" THEN "side" ELSE "main"
  BY DEF Processes, ProcessInv, NoProcess
<1>2. \A s \in Sessions : holders(s) \in 0..2
  BY DEF holders, one
<1>3. holders(proc[r].ses) # 0
  BY <1>1 DEF holders, one, Roles
<1> QED
  BY <1>1, <1>2, <1>3 DEF References, ReferenceInv, Sessions

\* A thread that works with a process of its own: which process and which Session.
LEMMA WorkingThread ==
  ASSUME ControlOK, ResourcesOK, Places, Handles, Processes, References, NEW t \in Threads, Working(t)
  PROVE  /\ role(t) \in Roles /\ own(t) \in Sessions /\ proc[role(t)] \in Process
         /\ t = "worker" => role(t) = "auth" /\ own(t) = "side" /\ stage[t] = "auth"
         /\ t = "main" => own(t) = "main" /\ stage[t] \in Probing \cup {"target"}
         /\ t = "main" /\ stage[t] = "target" => role(t) = "target" /\ proc["probe"].st = "none"
         /\ t = "main" /\ stage[t] # "target" => role(t) = "probe" /\ proc["target"].st = "none"
         /\ ses[own(t)].st = "live" /\ ~ses[own(t)].asked /\ Handle(t, role(t))
         /\ ses[own(t)].refs = holders(own(t)) + 1
<1>1. CASE t = "worker"
  <2>1. stage[t] = "auth" /\ role(t) = "auth" /\ own(t) = "side"
    BY <1>1 DEF Working, Places, role, own
  <2> QED
    BY <1>1, <2>1 DEF ResourcesOK, Handles, References, ReferenceInv, one, InUse, Roles, Sessions,
       Threads
<1>2. CASE t = "main"
  <2>1. stage[t] \in Probing \cup {"target"} /\ own(t) = "main"
    BY <1>2 DEF Working, Places, own, Probing, PreTarget, Early, Leaving
  <2>2. role(t) = IF stage[t] = "target" THEN "target" ELSE "probe"
    BY <1>2 DEF role
  <2> QED
    BY <1>2, <2>1, <2>2 DEF ResourcesOK, Handles, References, ReferenceInv, one, InUse, Probing,
       PreTarget,
                            Roles, Sessions, Threads
<1> QED
  BY <1>1, <1>2 DEF Threads

\* Before the Session: only the stage moves, and nobody holds anything yet.
LEMMA ResolveHolds == ASSUME IndInv, Resolve PROVE IndInv'
<1>1. /\ ControlOK /\ ResourcesOK /\ IntakeOK /\ Places /\ Handles /\ Processes /\ References
      /\ Passed /\ Lease /\ Outcomes /\ Intake
  BY DEF IndInv
<1>f. faults' \in 0..MaxFaults
  BY <1>1, FaultBounds DEF Resolve, Go, Fail, IntakeOK, control, intake
<1>s. sup' \in Supervisor /\ sup'.interrupts = sup.interrupts
  BY <1>1, CleanupBegins DEF Resolve, Go, Fail, IntakeOK, control, intake, Supervisor
<1>A. ControlOK'
  BY <1>1, <1>f, <1>s DEF Resolve, Go, Fault, Fail, ControlOK, Stages, Kinds, Threads, control, intake,
     Places, after, afterDevin, afterWorker, afterGrok, afterAttached, role, verdicts, exitStatus,
     verifyDevinSkills, verifyDevinRules, verifyDevinAuthentication, AcceptsOutput
<1>B. ResourcesOK'
  BY <1>1 DEF Resolve, ResourcesOK, Process, SessionState, Threads, Sessions, Roles, control, intake
<1>C. IntakeOK'
  BY <1>1, <1>f, <1>s DEF Resolve, IntakeOK, control, intake
<1>D. Places'
  BY <1>1, <1>f, <1>s DEF Resolve, Go, Fault, Fail, Places, Early, Probing, InUse, PreTarget, Leaving,
     interactive, Threads, control, intake, ControlOK, after, afterDevin, afterWorker, afterGrok,
     afterAttached, role, devin
<1>E. Handles'
  BY <1>1, <1>f, <1>s DEF Resolve, Go, Fault, Fail, Handles, Early, Probing, InUse, PreTarget, Leaving,
     Handle, Threads, control, intake, ControlOK, ResourcesOK, Process, Places, Processes, ProcessInv,
     NoProcess, after, afterDevin, afterWorker, afterGrok, afterAttached, role, Roles
<1>F. Processes'
  BY <1>1 DEF Resolve, Processes, ProcessInv, Roles, NoProcess, control, intake
<1>G. References'
  BY <1>1, <1>f, <1>s DEF Resolve, Go, Fault, Fail, References, ReferenceInv, holders, one, own,
     Threads, Sessions, Roles, Early, Probing, InUse, PreTarget, Leaving, control, intake, ControlOK,
     ResourcesOK, Process, SessionState, Places, Handles, Handle, Processes, ProcessInv, NoProcess,
     role, after, afterDevin, afterWorker, afterGrok, afterAttached
<1>H. Passed'
  BY <1>1, <1>f, <1>s DEF Resolve, Go, Fault, Fail, Passed, Early, Probing, InUse, PreTarget, Leaving,
     preflights, Threads, control, intake, ControlOK, ResourcesOK, Process, Places, Handles, NoProcess,
     role, after, afterDevin, afterWorker, afterGrok, afterAttached, interactive, Kinds, Roles
<1>I. Lease'
  BY <1>1, <1>f, <1>s DEF Resolve, Go, Fault, Fail, Lease, Early, Probing, InUse, PreTarget, Leaving,
     interactive, Threads, control, intake, ControlOK, ResourcesOK, Process, Places, Handles,
     NoProcess, role, after, afterDevin, afterWorker, afterGrok, afterAttached, Roles
<1>J. Outcomes'
  BY <1>1, <1>f, <1>s DEF Resolve, Go, Fault, Fail, Outcomes, Early, Probing, InUse, PreTarget,
     Leaving, own, Threads, Sessions, control, intake, ControlOK, ResourcesOK, Process, SessionState,
     Places, Handles, Handle, Processes, ProcessInv, References, ReferenceInv, holders, one, NoProcess,
     role, after, afterDevin, afterWorker, afterGrok, afterAttached, Roles
<1>K. Intake'
  BY <1>1, <1>f, <1>s DEF Resolve, Go, Fault, Fail, Intake, Early, Probing, InUse, PreTarget, Leaving,
     Threads, devin, control, intake, ControlOK, IntakeOK, Supervisor, Places, Handles, role, after,
     afterDevin, afterWorker, afterGrok, afterAttached, Kinds, interactive
<1>L. QED
  BY <1>A, <1>B, <1>C, <1>D, <1>E, <1>F, <1>G, <1>H, <1>I, <1>J, <1>K DEF IndInv

LEMMA CheckHolds == ASSUME IndInv, Check PROVE IndInv'
<1>1. /\ ControlOK /\ ResourcesOK /\ IntakeOK /\ Places /\ Handles /\ Processes /\ References
      /\ Passed /\ Lease /\ Outcomes /\ Intake
  BY DEF IndInv
<1>f. faults' \in 0..MaxFaults
  BY <1>1, FaultBounds DEF Check, Go, Fail, IntakeOK, control, intake
<1>A. ControlOK'
  BY <1>1, <1>f DEF Check, Go, Fault, Fail, ControlOK, Stages, Kinds, Threads, control, intake, Places,
     after, afterDevin, afterWorker, afterGrok, afterAttached, role, verdicts, exitStatus,
     verifyDevinSkills, verifyDevinRules, verifyDevinAuthentication, AcceptsOutput
<1>B. ResourcesOK'
  BY <1>1 DEF Check, ResourcesOK, Process, SessionState, Threads, Sessions, Roles, control, intake
<1>C. IntakeOK'
  BY <1>1, <1>f DEF Check, IntakeOK, control, intake
<1>D. Places'
  BY <1>1, <1>f DEF Check, Go, Fault, Fail, Places, Early, Probing, InUse, PreTarget, Leaving,
     interactive, Threads, control, intake, ControlOK, after, afterDevin, afterWorker, afterGrok,
     afterAttached, role, devin
<1>E. Handles'
  BY <1>1, <1>f DEF Check, Go, Fault, Fail, Handles, Early, Probing, InUse, PreTarget, Leaving, Handle,
     Threads, control, intake, ControlOK, ResourcesOK, Process, Places, Processes, ProcessInv,
     NoProcess, after, afterDevin, afterWorker, afterGrok, afterAttached, role, Roles
<1>F. Processes'
  BY <1>1 DEF Check, Processes, ProcessInv, Roles, NoProcess, control, intake
<1>G. References'
  BY <1>1, <1>f DEF Check, Go, Fault, Fail, References, ReferenceInv, holders, one, own, Threads,
     Sessions, Roles, Early, Probing, InUse, PreTarget, Leaving, control, intake, ControlOK,
     ResourcesOK, Process, SessionState, Places, Handles, Handle, Processes, ProcessInv, NoProcess,
     role, after, afterDevin, afterWorker, afterGrok, afterAttached
<1>H. Passed'
  BY <1>1, <1>f DEF Check, Go, Fault, Fail, Passed, Early, Probing, InUse, PreTarget, Leaving,
     preflights, Threads, control, intake, ControlOK, ResourcesOK, Process, Places, Handles, NoProcess,
     role, after, afterDevin, afterWorker, afterGrok, afterAttached, interactive, Kinds, Roles
<1>I. Lease'
  BY <1>1, <1>f DEF Check, Go, Fault, Fail, Lease, Early, Probing, InUse, PreTarget, Leaving,
     interactive, Threads, control, intake, ControlOK, ResourcesOK, Process, Places, Handles,
     NoProcess, role, after, afterDevin, afterWorker, afterGrok, afterAttached, Roles
<1>J. Outcomes'
  BY <1>1, <1>f DEF Check, Go, Fault, Fail, Outcomes, Early, Probing, InUse, PreTarget, Leaving, own,
     Threads, Sessions, control, intake, ControlOK, ResourcesOK, Process, SessionState, Places,
     Handles, Handle, Processes, ProcessInv, References, ReferenceInv, holders, one, NoProcess, role,
     after, afterDevin, afterWorker, afterGrok, afterAttached, Roles
<1>K. Intake'
  BY <1>1, <1>f DEF Check, Go, Fault, Fail, Intake, Early, Probing, InUse, PreTarget, Leaving, Threads,
     devin, control, intake, ControlOK, IntakeOK, Supervisor, Places, Handles, role, after, afterDevin,
     afterWorker, afterGrok, afterAttached, Kinds, interactive
<1>L. QED
  BY <1>A, <1>B, <1>C, <1>D, <1>E, <1>F, <1>G, <1>H, <1>I, <1>J, <1>K DEF IndInv

\* The lease of the environment begins.
LEMMA resolvePlanEnvironmentHolds == ASSUME IndInv, resolvePlanEnvironment PROVE IndInv'
<1>1. /\ ControlOK /\ ResourcesOK /\ IntakeOK /\ Places /\ Handles /\ Processes /\ References
      /\ Passed /\ Lease /\ Outcomes /\ Intake
  BY DEF IndInv
<1>f. faults' \in 0..MaxFaults
  BY <1>1, FaultBounds DEF resolvePlanEnvironment, Go, Fail, IntakeOK, control, intake
<1>A. ControlOK'
  BY <1>1, <1>f DEF resolvePlanEnvironment, Go, Fault, Fail, ControlOK, Stages, Kinds, Threads,
     control, intake, Places, after, afterDevin, afterWorker, afterGrok, afterAttached, role, verdicts,
     exitStatus, verifyDevinSkills, verifyDevinRules, verifyDevinAuthentication, AcceptsOutput
<1>B. ResourcesOK'
  BY <1>1 DEF resolvePlanEnvironment, ResourcesOK, Process, SessionState, Threads, Sessions, Roles,
     control, intake
<1>C. IntakeOK'
  BY <1>1, <1>f DEF resolvePlanEnvironment, IntakeOK, control, intake
<1>D. Places'
  BY <1>1, <1>f DEF resolvePlanEnvironment, Go, Fault, Fail, Places, Early, Probing, InUse, PreTarget,
     Leaving, interactive, Threads, control, intake, ControlOK, after, afterDevin, afterWorker,
     afterGrok, afterAttached, role, devin
<1>E. Handles'
  BY <1>1, <1>f DEF resolvePlanEnvironment, Go, Fault, Fail, Handles, Early, Probing, InUse, PreTarget,
     Leaving, Handle, Threads, control, intake, ControlOK, ResourcesOK, Process, Places, Processes,
     ProcessInv, NoProcess, after, afterDevin, afterWorker, afterGrok, afterAttached, role, Roles
<1>F. Processes'
  BY <1>1 DEF resolvePlanEnvironment, Processes, ProcessInv, Roles, NoProcess, control, intake
<1>G. References'
  BY <1>1, <1>f DEF resolvePlanEnvironment, Go, Fault, Fail, References, ReferenceInv, holders, one,
     own, Threads, Sessions, Roles, Early, Probing, InUse, PreTarget, Leaving, control, intake,
     ControlOK, ResourcesOK, Process, SessionState, Places, Handles, Handle, Processes, ProcessInv,
     NoProcess, role, after, afterDevin, afterWorker, afterGrok, afterAttached
<1>H. Passed'
  BY <1>1, <1>f DEF resolvePlanEnvironment, Go, Fault, Fail, Passed, Early, Probing, InUse, PreTarget,
     Leaving, preflights, Threads, control, intake, ControlOK, ResourcesOK, Process, Places, Handles,
     NoProcess, role, after, afterDevin, afterWorker, afterGrok, afterAttached, interactive, Kinds,
     Roles
<1>I. Lease'
  BY <1>1, <1>f DEF resolvePlanEnvironment, Go, Fault, Fail, Lease, Early, Probing, InUse, PreTarget,
     Leaving, interactive, Threads, control, intake, ControlOK, ResourcesOK, Process, Places, Handles,
     NoProcess, role, after, afterDevin, afterWorker, afterGrok, afterAttached, Roles
<1>J. Outcomes'
  BY <1>1, <1>f DEF resolvePlanEnvironment, Go, Fault, Fail, Outcomes, Early, Probing, InUse,
     PreTarget, Leaving, own, Threads, Sessions, control, intake, ControlOK, ResourcesOK, Process,
     SessionState, Places, Handles, Handle, Processes, ProcessInv, References, ReferenceInv, holders,
     one, NoProcess, role, after, afterDevin, afterWorker, afterGrok, afterAttached, Roles
<1>K. Intake'
  BY <1>1, <1>f DEF resolvePlanEnvironment, Go, Fault, Fail, Intake, Early, Probing, InUse, PreTarget,
     Leaving, Threads, devin, control, intake, ControlOK, IntakeOK, Supervisor, Places, Handles, role,
     after, afterDevin, afterWorker, afterGrok, afterAttached, Kinds, interactive
<1>L. QED
  BY <1>A, <1>B, <1>C, <1>D, <1>E, <1>F, <1>G, <1>H, <1>I, <1>J, <1>K DEF IndInv

\* A new Session has the one reference of its owner.
LEMMA CreateTrackedHolds == ASSUME IndInv, NEW t \in Threads, CreateTracked(t) PROVE IndInv'
<1>1. /\ ControlOK /\ ResourcesOK /\ IntakeOK /\ Places /\ Handles /\ Processes /\ References
      /\ Passed /\ Lease /\ Outcomes /\ Intake
  BY DEF IndInv
<1>2. /\ stage[t] = "create" /\ own(t) \in Sessions /\ ses[own(t)].st = "none" /\ sub[t] = "none"
      /\ t = "worker" => stage["main"] \in {"skills", "rules", "join"}
      /\ proc' = proc /\ kind' = kind /\ passed' = passed /\ env' = env /\ kind \in Kinds
      /\ sup' = sup /\ accepted' = accepted /\ cancelled' = cancelled /\ hit' = hit
  BY <1>1 DEF CreateTracked, own, Sessions, Threads, References, Early, Probing, ControlOK, Places,
     Handles, intake
<1>3. \/ /\ ses' \in [Sessions -> SessionState] /\ \A s \in Sessions \ {own(t)} : ses'[s] = ses[s]
         /\ ses'[own(t)].st = "live" /\ ses'[own(t)].refs = 1 /\ ~ses'[own(t)].asked
         /\ stage' = [stage EXCEPT ![t] = after(t)] /\ res' = res /\ sub' = sub
      \/ /\ ses' = ses /\ sub' = [sub EXCEPT ![t] = "none"]
         /\ stage' = [stage EXCEPT ![t] = IF t = "main" THEN "release" ELSE "finished"]
         /\ res' = [res EXCEPT ![t] = @ \cup {"error"}]
      \/ /\ ses' \in [Sessions -> SessionState] /\ \A s \in Sessions \ {own(t)} : ses'[s] = ses[s]
         /\ ses'[own(t)].st = "kept" /\ ses'[own(t)].refs = 0 /\ ses'[own(t)].asked
         /\ sub' = sub /\ res' = [res EXCEPT ![t] = @ \cup {"error", "cleanup"}]
         /\ stage' = [stage EXCEPT ![t] = IF t = "main" THEN "release" ELSE "finished"]
  <2> DEFINE new == [st |-> "live", refs |-> 1, asked |-> FALSE]
             left == [st |-> "kept", refs |-> 0, asked |-> TRUE]
  <2>1. new \in SessionState /\ new.st = "live" /\ new.refs = 1 /\ ~new.asked
    BY DEF SessionState
  <2>2. ses \in [Sessions -> SessionState]
    BY <1>1 DEF ResourcesOK
  <2>3. CASE ses' = [ses EXCEPT ![own(t)] = new] /\ Go(t, after(t)) /\ res' = res
    <3> HIDE DEF new
    <3> QED
      BY <1>2, <2>1, <2>2, <2>3 DEF Go
  <2>4. CASE ses' = ses /\ Fail(t, "error", IF t = "main" THEN "release" ELSE "finished")
    BY <2>4 DEF Fail
  <2>5. left \in SessionState /\ left.st = "kept" /\ left.refs = 0 /\ left.asked
    BY DEF SessionState
  <2>6. CASE /\ ses' = [ses EXCEPT ![own(t)] = left]
             /\ res' = [res EXCEPT ![t] = @ \cup {"error", "cleanup"}]
             /\ Go(t, IF t = "main" THEN "release" ELSE "finished")
    <3> HIDE DEF left
    <3> QED
      BY <1>2, <2>5, <2>2, <2>6 DEF Go
  <2> HIDE DEF new, left
  <2> QED
    BY <2>3, <2>4, <2>6 DEF CreateTracked, new, left
<1>4. after(t) = IF t = "worker" \/ kind \in {"devin", "verify", "grok"} THEN "recipes" ELSE "project"
  BY <1>2 DEF after, afterDevin, afterWorker, afterGrok, afterAttached, Kinds, Threads
<1>f. faults' \in 0..MaxFaults
  BY <1>1, FaultBounds, BoundsAssumption DEF CreateTracked, Go, Fail, own, IntakeOK, control, intake
<1>A. ControlOK'
  BY <1>1, <1>2, <1>3, <1>4 DEF ControlOK, Stages, Threads
<1>B. ResourcesOK'
  BY <1>1, <1>2, <1>3, <1>4 DEF ResourcesOK
<1>C. IntakeOK'
  BY <1>1, <1>f DEF CreateTracked, IntakeOK, control, intake
<1>D. Places'
  BY <1>1, <1>2, <1>3, <1>4 DEF ControlOK, Places, Kinds, interactive, Early, Probing, InUse,
     PreTarget, Leaving, Threads
<1>E. Handles'
  BY <1>1, <1>2, <1>3, <1>4 DEF ControlOK, Handles, Handle, Places, Early, Probing, InUse, PreTarget,
     Leaving, Threads
<1>F. Processes'
  BY <1>1 DEF CreateTracked, Processes, ProcessInv, Roles, NoProcess, control, intake
<1>G. References'
  <2>1. \A s \in Sessions : holders(s)' = holders(s)
    BY <1>2 DEF holders
  <2>2. \A s \in Sessions : ReferenceInv(s)'
    BY <1>1, <1>2, <1>3, <2>1 DEF References, ReferenceInv, one, holders
  <2> QED
    BY <1>1, <1>2, <1>3, <1>4, <2>2 DEF ControlOK, References, own, Sessions, Places, Early, Probing,
       InUse, PreTarget, Leaving, Threads
<1>H. Passed'
  BY <1>1, <1>2, <1>3, <1>4 DEF ControlOK, Passed, preflights, Places, Early, Probing, InUse,
     PreTarget, Leaving, Threads
<1>I. Lease'
  BY <1>1, <1>2, <1>3, <1>4 DEF ControlOK, Lease, interactive, Places, Early, Probing, InUse,
     PreTarget, Leaving, Threads
<1>J. Outcomes'
  BY <1>1, <1>2, <1>3, <1>4 DEF ControlOK, Outcomes, own, Sessions, Places, Early, Probing, InUse,
     PreTarget, Leaving, Threads
<1>K. Intake'
  BY <1>1, <1>2, <1>3, <1>4 DEF ControlOK, Intake, devin, Places, Early, Probing, InUse, PreTarget,
     Leaving, Threads
<1>L. QED
  BY <1>A, <1>B, <1>C, <1>D, <1>E, <1>F, <1>G, <1>H, <1>I, <1>J, <1>K DEF IndInv

LEMMA prepareMCPRecipesHolds == ASSUME IndInv, NEW t \in Threads, prepareMCPRecipes(t) PROVE IndInv'
<1>1. /\ ControlOK /\ ResourcesOK /\ IntakeOK /\ Places /\ Handles /\ Processes /\ References
      /\ Passed /\ Lease /\ Outcomes /\ Intake
  BY DEF IndInv
<1>f. faults' \in 0..MaxFaults
  BY <1>1, FaultBounds DEF prepareMCPRecipes, Written, Go, Fail, IntakeOK, control, intake
<1>A. ControlOK'
  BY <1>1, <1>f DEF prepareMCPRecipes, Written, Go, Fault, Fail, ControlOK, Stages, Kinds, Threads,
     control, intake, Places, after, afterDevin, afterWorker, afterGrok, afterAttached, role, verdicts,
     exitStatus, verifyDevinSkills, verifyDevinRules, verifyDevinAuthentication, AcceptsOutput
<1>B. ResourcesOK'
  BY <1>1 DEF prepareMCPRecipes, ResourcesOK, Process, SessionState, Threads, Sessions, Roles, control,
     intake
<1>C. IntakeOK'
  BY <1>1, <1>f DEF prepareMCPRecipes, IntakeOK, control, intake
<1>D. Places'
  BY <1>1, <1>f DEF prepareMCPRecipes, Written, Go, Fault, Fail, Places, Early, Probing, InUse,
     PreTarget, Leaving, interactive, Threads, control, intake, ControlOK, after, afterDevin,
     afterWorker, afterGrok, afterAttached, role, devin
<1>E. Handles'
  BY <1>1, <1>f DEF prepareMCPRecipes, Written, Go, Fault, Fail, Handles, Early, Probing, InUse,
     PreTarget, Leaving, Handle, Threads, control, intake, ControlOK, ResourcesOK, Process, Places,
     Processes, ProcessInv, NoProcess, after, afterDevin, afterWorker, afterGrok, afterAttached, role,
     Roles
<1>F. Processes'
  BY <1>1 DEF prepareMCPRecipes, Processes, ProcessInv, Roles, NoProcess, control, intake
<1>G. References'
  BY <1>1, <1>f DEF prepareMCPRecipes, Written, Go, Fault, Fail, References, ReferenceInv, holders,
     one, own, Threads, Sessions, Roles, Early, Probing, InUse, PreTarget, Leaving, control, intake,
     ControlOK, ResourcesOK, Process, SessionState, Places, Handles, Handle, Processes, ProcessInv,
     NoProcess, role, after, afterDevin, afterWorker, afterGrok, afterAttached
<1>H. Passed'
  BY <1>1, <1>f DEF prepareMCPRecipes, Written, Go, Fault, Fail, Passed, Early, Probing, InUse,
     PreTarget, Leaving, preflights, Threads, control, intake, ControlOK, ResourcesOK, Process, Places,
     Handles, NoProcess, role, after, afterDevin, afterWorker, afterGrok, afterAttached, interactive,
     Kinds, Roles
<1>I. Lease'
  BY <1>1, <1>f DEF prepareMCPRecipes, Written, Go, Fault, Fail, Lease, Early, Probing, InUse,
     PreTarget, Leaving, interactive, Threads, control, intake, ControlOK, ResourcesOK, Process,
     Places, Handles, NoProcess, role, after, afterDevin, afterWorker, afterGrok, afterAttached, Roles
<1>J. Outcomes'
  BY <1>1, <1>f DEF prepareMCPRecipes, Written, Go, Fault, Fail, Outcomes, Early, Probing, InUse,
     PreTarget, Leaving, own, Threads, Sessions, control, intake, ControlOK, ResourcesOK, Process,
     SessionState, Places, Handles, Handle, Processes, ProcessInv, References, ReferenceInv, holders,
     one, NoProcess, role, after, afterDevin, afterWorker, afterGrok, afterAttached, Roles
<1>K. Intake'
  BY <1>1, <1>f DEF prepareMCPRecipes, Written, Go, Fault, Fail, Intake, Early, Probing, InUse,
     PreTarget, Leaving, Threads, devin, control, intake, ControlOK, IntakeOK, Supervisor, Places,
     Handles, role, after, afterDevin, afterWorker, afterGrok, afterAttached, Kinds, interactive
<1>L. QED
  BY <1>A, <1>B, <1>C, <1>D, <1>E, <1>F, <1>G, <1>H, <1>I, <1>J, <1>K DEF IndInv

\* The authentication worker starts while the caller goes on to its first probe.
LEMMA projectDevinSessionHolds == ASSUME IndInv, NEW t \in Threads, projectDevinSession(t) PROVE IndInv'
<1>1. /\ ControlOK /\ ResourcesOK /\ IntakeOK /\ Places /\ Handles /\ Processes /\ References
      /\ Passed /\ Lease /\ Outcomes /\ Intake
  BY DEF IndInv
<1>f. faults' \in 0..MaxFaults
  BY <1>1, FaultBounds DEF projectDevinSession, Fail, IntakeOK, control, intake
<1>A. ControlOK'
  BY <1>1, <1>f DEF projectDevinSession, Fault, Fail, ControlOK, Stages, Kinds, Threads, control,
     intake, Places, after, afterDevin, afterWorker, afterGrok, afterAttached, role, verdicts,
     exitStatus, verifyDevinSkills, verifyDevinRules, verifyDevinAuthentication, AcceptsOutput
<1>B. ResourcesOK'
  BY <1>1 DEF projectDevinSession, ResourcesOK, Process, SessionState, Threads, Sessions, Roles,
     control, intake
<1>C. IntakeOK'
  BY <1>1, <1>f DEF projectDevinSession, IntakeOK, control, intake
<1>D. Places'
  <2>2. CASE t = "main"
    <3>1. kind \in {"devin", "verify"} /\ stage["main"] = "project" /\ stage["worker"] = "off"
      BY <1>1, <2>2 DEF projectDevinSession, Places, Early
    <3>2. \/ /\ stage'["main"] = "skills" /\ stage'["worker"] = "create" /\ res' = res
          \/ /\ stage'["main"] = "remove" /\ stage'["worker"] = "off" /\ res'["worker"] = res["worker"]
      BY <1>1, <2>2, <3>1
         DEF projectDevinSession, ControlOK, Threads, Fail, after, afterDevin
    <3>3. kind' = kind
      BY DEF projectDevinSession
    <3>4. Places'
      BY <1>1, <3>1, <3>2, <3>3
         DEF Places, Early, Probing, InUse, PreTarget, Leaving
    <3> QED BY <3>4
  <2>3. CASE t = "worker"
    <3>1. \/ /\ stage'["main"] = stage["main"] /\ stage'["worker"] = "auth"
          \/ /\ stage'["main"] = stage["main"] /\ stage'["worker"] = "remove"
      BY <1>1, <2>3 DEF projectDevinSession, ControlOK, Threads, Fail, after, afterWorker
    <3>2. kind' = kind /\ stage["worker"] = "project"
      BY <2>3 DEF projectDevinSession
    <3>3. Places'
      BY <1>1, <3>1, <3>2 DEF Places, Early, Probing, InUse, PreTarget, Leaving, interactive
    <3> QED BY <3>3
  <2>4. QED
    BY <2>2, <2>3 DEF projectDevinSession, Threads
<1>E. Handles'
  BY <1>1, <1>f DEF projectDevinSession, Fault, Fail, Handles, Early, Probing, InUse, PreTarget,
     Leaving, Handle, Threads, control, intake, ControlOK, ResourcesOK, Process, Places, Processes,
     ProcessInv, NoProcess, after, afterDevin, afterWorker, afterGrok, afterAttached, role, Roles
<1>F. Processes'
  BY <1>1 DEF projectDevinSession, Processes, ProcessInv, Roles, NoProcess, control, intake
<1>G. References'
  BY <1>1, <1>f DEF projectDevinSession, Fault, Fail, References, ReferenceInv, holders, one, own,
     Threads, Sessions, Roles, Early, Probing, InUse, PreTarget, Leaving, control, intake, ControlOK,
     ResourcesOK, Process, SessionState, Places, Handles, Handle, Processes, ProcessInv, NoProcess,
     role, after, afterDevin, afterWorker, afterGrok, afterAttached
<1>H. Passed'
  BY <1>1, <1>f DEF projectDevinSession, Fault, Fail, Passed, Early, Probing, InUse, PreTarget,
     Leaving, preflights, Threads, control, intake, ControlOK, ResourcesOK, Process, Places, Handles,
     NoProcess, role, after, afterDevin, afterWorker, afterGrok, afterAttached, interactive, Kinds,
     Roles
<1>I. Lease'
  BY <1>1, <1>f DEF projectDevinSession, Fault, Fail, Lease, Early, Probing, InUse, PreTarget, Leaving,
     interactive, Threads, control, intake, ControlOK, ResourcesOK, Process, Places, Handles,
     NoProcess, role, after, afterDevin, afterWorker, afterGrok, afterAttached, Roles
<1>J. Outcomes'
  BY <1>1, <1>f DEF projectDevinSession, Fault, Fail, Outcomes, Early, Probing, InUse, PreTarget,
     Leaving, own, Threads, Sessions, control, intake, ControlOK, ResourcesOK, Process, SessionState,
     Places, Handles, Handle, Processes, ProcessInv, References, ReferenceInv, holders, one, NoProcess,
     role, after, afterDevin, afterWorker, afterGrok, afterAttached, Roles
<1>K. Intake'
  BY <1>1, <1>f DEF projectDevinSession, Fault, Fail, Intake, Early, Probing, InUse, PreTarget,
     Leaving, Threads, devin, control, intake, ControlOK, IntakeOK, Supervisor, Places, Handles, role,
     after, afterDevin, afterWorker, afterGrok, afterAttached, Kinds, interactive
<1>L. QED
  BY <1>A, <1>B, <1>C, <1>D, <1>E, <1>F, <1>G, <1>H, <1>I, <1>J, <1>K DEF IndInv

LEMMA projectGrokSessionHolds == ASSUME IndInv, projectGrokSession PROVE IndInv'
<1>1. /\ ControlOK /\ ResourcesOK /\ IntakeOK /\ Places /\ Handles /\ Processes /\ References
      /\ Passed /\ Lease /\ Outcomes /\ Intake
  BY DEF IndInv
<1>f. faults' \in 0..MaxFaults
  BY <1>1, FaultBounds DEF projectGrokSession, Written, Go, Fail, IntakeOK, control, intake
<1>A. ControlOK'
  BY <1>1, <1>f DEF projectGrokSession, Written, Go, Fault, Fail, ControlOK, Stages, Kinds, Threads,
     control, intake, Places, after, afterDevin, afterWorker, afterGrok, afterAttached, role, verdicts,
     exitStatus, verifyDevinSkills, verifyDevinRules, verifyDevinAuthentication, AcceptsOutput
<1>B. ResourcesOK'
  BY <1>1 DEF projectGrokSession, ResourcesOK, Process, SessionState, Threads, Sessions, Roles,
     control, intake
<1>C. IntakeOK'
  BY <1>1, <1>f DEF projectGrokSession, IntakeOK, control, intake
<1>D. Places'
  BY <1>1, <1>f DEF projectGrokSession, Written, Go, Fault, Fail, Places, Early, Probing, InUse,
     PreTarget, Leaving, interactive, Threads, control, intake, ControlOK, after, afterDevin,
     afterWorker, afterGrok, afterAttached, role, devin
<1>E. Handles'
  BY <1>1, <1>f DEF projectGrokSession, Written, Go, Fault, Fail, Handles, Early, Probing, InUse,
     PreTarget, Leaving, Handle, Threads, control, intake, ControlOK, ResourcesOK, Process, Places,
     Processes, ProcessInv, NoProcess, after, afterDevin, afterWorker, afterGrok, afterAttached, role,
     Roles
<1>F. Processes'
  BY <1>1 DEF projectGrokSession, Processes, ProcessInv, Roles, NoProcess, control, intake
<1>G. References'
  BY <1>1, <1>f DEF projectGrokSession, Written, Go, Fault, Fail, References, ReferenceInv, holders,
     one, own, Threads, Sessions, Roles, Early, Probing, InUse, PreTarget, Leaving, control, intake,
     ControlOK, ResourcesOK, Process, SessionState, Places, Handles, Handle, Processes, ProcessInv,
     NoProcess, role, after, afterDevin, afterWorker, afterGrok, afterAttached
<1>H. Passed'
  BY <1>1, <1>f DEF projectGrokSession, Written, Go, Fault, Fail, Passed, Early, Probing, InUse,
     PreTarget, Leaving, preflights, Threads, control, intake, ControlOK, ResourcesOK, Process, Places,
     Handles, NoProcess, role, after, afterDevin, afterWorker, afterGrok, afterAttached, interactive,
     Kinds, Roles
<1>I. Lease'
  BY <1>1, <1>f DEF projectGrokSession, Written, Go, Fault, Fail, Lease, Early, Probing, InUse,
     PreTarget, Leaving, interactive, Threads, control, intake, ControlOK, ResourcesOK, Process,
     Places, Handles, NoProcess, role, after, afterDevin, afterWorker, afterGrok, afterAttached, Roles
<1>J. Outcomes'
  BY <1>1, <1>f DEF projectGrokSession, Written, Go, Fault, Fail, Outcomes, Early, Probing, InUse,
     PreTarget, Leaving, own, Threads, Sessions, control, intake, ControlOK, ResourcesOK, Process,
     SessionState, Places, Handles, Handle, Processes, ProcessInv, References, ReferenceInv, holders,
     one, NoProcess, role, after, afterDevin, afterWorker, afterGrok, afterAttached, Roles
<1>K. Intake'
  BY <1>1, <1>f DEF projectGrokSession, Written, Go, Fault, Fail, Intake, Early, Probing, InUse,
     PreTarget, Leaving, Threads, devin, control, intake, ControlOK, IntakeOK, Supervisor, Places,
     Handles, role, after, afterDevin, afterWorker, afterGrok, afterAttached, Kinds, interactive
<1>L. QED
  BY <1>A, <1>B, <1>C, <1>D, <1>E, <1>F, <1>G, <1>H, <1>I, <1>J, <1>K DEF IndInv

LEMMA RevalidateHolds == ASSUME IndInv, Revalidate PROVE IndInv'
<1>1. /\ ControlOK /\ ResourcesOK /\ IntakeOK /\ Places /\ Handles /\ Processes /\ References
      /\ Passed /\ Lease /\ Outcomes /\ Intake
  BY DEF IndInv
<1>f. faults' \in 0..MaxFaults
  BY <1>1, FaultBounds DEF Revalidate, Written, Go, Fail, IntakeOK, control, intake
<1>A. ControlOK'
  BY <1>1, <1>f DEF Revalidate, Written, Go, Fault, Fail, ControlOK, Stages, Kinds, Threads, control,
     intake, Places, after, afterDevin, afterWorker, afterGrok, afterAttached, role, verdicts,
     exitStatus, verifyDevinSkills, verifyDevinRules, verifyDevinAuthentication, AcceptsOutput
<1>B. ResourcesOK'
  BY <1>1 DEF Revalidate, ResourcesOK, Process, SessionState, Threads, Sessions, Roles, control, intake
<1>C. IntakeOK'
  BY <1>1, <1>f DEF Revalidate, IntakeOK, control, intake
<1>D. Places'
  BY <1>1, <1>f DEF Revalidate, Written, Go, Fault, Fail, Places, Early, Probing, InUse, PreTarget,
     Leaving, interactive, Threads, control, intake, ControlOK, after, afterDevin, afterWorker,
     afterGrok, afterAttached, role, devin
<1>E. Handles'
  BY <1>1, <1>f DEF Revalidate, Written, Go, Fault, Fail, Handles, Early, Probing, InUse, PreTarget,
     Leaving, Handle, Threads, control, intake, ControlOK, ResourcesOK, Process, Places, Processes,
     ProcessInv, NoProcess, after, afterDevin, afterWorker, afterGrok, afterAttached, role, Roles
<1>F. Processes'
  BY <1>1 DEF Revalidate, Processes, ProcessInv, Roles, NoProcess, control, intake
<1>G. References'
  BY <1>1, <1>f DEF Revalidate, Written, Go, Fault, Fail, References, ReferenceInv, holders, one, own,
     Threads, Sessions, Roles, Early, Probing, InUse, PreTarget, Leaving, control, intake, ControlOK,
     ResourcesOK, Process, SessionState, Places, Handles, Handle, Processes, ProcessInv, NoProcess,
     role, after, afterDevin, afterWorker, afterGrok, afterAttached
<1>H. Passed'
  BY <1>1, <1>f DEF Revalidate, Written, Go, Fault, Fail, Passed, Early, Probing, InUse, PreTarget,
     Leaving, preflights, Threads, control, intake, ControlOK, ResourcesOK, Process, Places, Handles,
     NoProcess, role, after, afterDevin, afterWorker, afterGrok, afterAttached, interactive, Kinds,
     Roles
<1>I. Lease'
  BY <1>1, <1>f DEF Revalidate, Written, Go, Fault, Fail, Lease, Early, Probing, InUse, PreTarget,
     Leaving, interactive, Threads, control, intake, ControlOK, ResourcesOK, Process, Places, Handles,
     NoProcess, role, after, afterDevin, afterWorker, afterGrok, afterAttached, Roles
<1>J. Outcomes'
  BY <1>1, <1>f DEF Revalidate, Written, Go, Fault, Fail, Outcomes, Early, Probing, InUse, PreTarget,
     Leaving, own, Threads, Sessions, control, intake, ControlOK, ResourcesOK, Process, SessionState,
     Places, Handles, Handle, Processes, ProcessInv, References, ReferenceInv, holders, one, NoProcess,
     role, after, afterDevin, afterWorker, afterGrok, afterAttached, Roles
<1>K. Intake'
  BY <1>1, <1>f DEF Revalidate, Written, Go, Fault, Fail, Intake, Early, Probing, InUse, PreTarget,
     Leaving, Threads, devin, control, intake, ControlOK, IntakeOK, Supervisor, Places, Handles, role,
     after, afterDevin, afterWorker, afterGrok, afterAttached, Kinds, interactive
<1>L. QED
  BY <1>A, <1>B, <1>C, <1>D, <1>E, <1>F, <1>G, <1>H, <1>I, <1>J, <1>K DEF IndInv

LEMMA copyAllowlistedCredentialHolds == ASSUME IndInv, copyAllowlistedCredential PROVE IndInv'
<1>1. /\ ControlOK /\ ResourcesOK /\ IntakeOK /\ Places /\ Handles /\ Processes /\ References
      /\ Passed /\ Lease /\ Outcomes /\ Intake
  BY DEF IndInv
<1>f. faults' \in 0..MaxFaults
  BY <1>1, FaultBounds DEF copyAllowlistedCredential, Written, Go, Fail, IntakeOK, control, intake
<1>A. ControlOK'
  BY <1>1, <1>f DEF copyAllowlistedCredential, Written, Go, Fault, Fail, ControlOK, Stages, Kinds,
     Threads, control, intake, Places, after, afterDevin, afterWorker, afterGrok, afterAttached, role,
     verdicts, exitStatus, verifyDevinSkills, verifyDevinRules, verifyDevinAuthentication,
     AcceptsOutput
<1>B. ResourcesOK'
  BY <1>1 DEF copyAllowlistedCredential, ResourcesOK, Process, SessionState, Threads, Sessions, Roles,
     control, intake
<1>C. IntakeOK'
  BY <1>1, <1>f DEF copyAllowlistedCredential, IntakeOK, control, intake
<1>D. Places'
  BY <1>1, <1>f DEF copyAllowlistedCredential, Written, Go, Fault, Fail, Places, Early, Probing, InUse,
     PreTarget, Leaving, interactive, Threads, control, intake, ControlOK, after, afterDevin,
     afterWorker, afterGrok, afterAttached, role, devin
<1>E. Handles'
  BY <1>1, <1>f DEF copyAllowlistedCredential, Written, Go, Fault, Fail, Handles, Early, Probing,
     InUse, PreTarget, Leaving, Handle, Threads, control, intake, ControlOK, ResourcesOK, Process,
     Places, Processes, ProcessInv, NoProcess, after, afterDevin, afterWorker, afterGrok,
     afterAttached, role, Roles
<1>F. Processes'
  BY <1>1 DEF copyAllowlistedCredential, Processes, ProcessInv, Roles, NoProcess, control, intake
<1>G. References'
  BY <1>1, <1>f DEF copyAllowlistedCredential, Written, Go, Fault, Fail, References, ReferenceInv,
     holders, one, own, Threads, Sessions, Roles, Early, Probing, InUse, PreTarget, Leaving, control,
     intake, ControlOK, ResourcesOK, Process, SessionState, Places, Handles, Handle, Processes,
     ProcessInv, NoProcess, role, after, afterDevin, afterWorker, afterGrok, afterAttached
<1>H. Passed'
  BY <1>1, <1>f DEF copyAllowlistedCredential, Written, Go, Fault, Fail, Passed, Early, Probing, InUse,
     PreTarget, Leaving, preflights, Threads, control, intake, ControlOK, ResourcesOK, Process, Places,
     Handles, NoProcess, role, after, afterDevin, afterWorker, afterGrok, afterAttached, interactive,
     Kinds, Roles
<1>I. Lease'
  BY <1>1, <1>f DEF copyAllowlistedCredential, Written, Go, Fault, Fail, Lease, Early, Probing, InUse,
     PreTarget, Leaving, interactive, Threads, control, intake, ControlOK, ResourcesOK, Process,
     Places, Handles, NoProcess, role, after, afterDevin, afterWorker, afterGrok, afterAttached, Roles
<1>J. Outcomes'
  BY <1>1, <1>f DEF copyAllowlistedCredential, Written, Go, Fault, Fail, Outcomes, Early, Probing,
     InUse, PreTarget, Leaving, own, Threads, Sessions, control, intake, ControlOK, ResourcesOK,
     Process, SessionState, Places, Handles, Handle, Processes, ProcessInv, References, ReferenceInv,
     holders, one, NoProcess, role, after, afterDevin, afterWorker, afterGrok, afterAttached, Roles
<1>K. Intake'
  BY <1>1, <1>f DEF copyAllowlistedCredential, Written, Go, Fault, Fail, Intake, Early, Probing, InUse,
     PreTarget, Leaving, Threads, devin, control, intake, ControlOK, IntakeOK, Supervisor, Places,
     Handles, role, after, afterDevin, afterWorker, afterGrok, afterAttached, Kinds, interactive
<1>L. QED
  BY <1>A, <1>B, <1>C, <1>D, <1>E, <1>F, <1>G, <1>H, <1>I, <1>J, <1>K DEF IndInv

\* A termination accepted so far ends the launch; a later one becomes pending.
LEMMA reserveInteractiveHolds == ASSUME IndInv, reserveInteractive PROVE IndInv'
<1>1. /\ ControlOK /\ ResourcesOK /\ IntakeOK /\ Places /\ Handles /\ Processes /\ References
      /\ Passed /\ Lease /\ Outcomes /\ Intake
  BY DEF IndInv
<1>s. sup' \in Supervisor /\ sup'.interrupts = sup.interrupts
  BY <1>1, CleanupBegins DEF reserveInteractive, Fail, IntakeOK, control, intake, Supervisor
<1>A. ControlOK'
  BY <1>1, <1>s DEF reserveInteractive, Fail, ControlOK, Stages, Kinds, Threads, control, intake,
     Places, after, afterDevin, afterWorker, afterGrok, afterAttached, role, verdicts, exitStatus,
     verifyDevinSkills, verifyDevinRules, verifyDevinAuthentication, AcceptsOutput
<1>B. ResourcesOK'
  BY <1>1 DEF reserveInteractive, ResourcesOK, Process, SessionState, Threads, Sessions, Roles,
     control, intake
<1>C. IntakeOK'
  BY <1>1, <1>s DEF reserveInteractive, IntakeOK, control, intake
<1>D. Places'
  BY <1>1, <1>s DEF reserveInteractive, Fail, Places, Early, Probing, InUse, PreTarget, Leaving,
     interactive, Threads, control, intake, ControlOK, after, afterDevin, afterWorker, afterGrok,
     afterAttached, role, devin
<1>E. Handles'
  BY <1>1, <1>s DEF reserveInteractive, Fail, Handles, Early, Probing, InUse, PreTarget, Leaving,
     Handle, Threads, control, intake, ControlOK, ResourcesOK, Process, Places, Processes, ProcessInv,
     NoProcess, after, afterDevin, afterWorker, afterGrok, afterAttached, role, Roles
<1>F. Processes'
  BY <1>1 DEF reserveInteractive, Processes, ProcessInv, Roles, NoProcess, control, intake
<1>G. References'
  BY <1>1, <1>s DEF reserveInteractive, Fail, References, ReferenceInv, holders, one, own, Threads,
     Sessions, Roles, Early, Probing, InUse, PreTarget, Leaving, control, intake, ControlOK,
     ResourcesOK, Process, SessionState, Places, Handles, Handle, Processes, ProcessInv, NoProcess,
     role, after, afterDevin, afterWorker, afterGrok, afterAttached
<1>H. Passed'
  BY <1>1, <1>s DEF reserveInteractive, Fail, Passed, Early, Probing, InUse, PreTarget, Leaving,
     preflights, Threads, control, intake, ControlOK, ResourcesOK, Process, Places, Handles, NoProcess,
     role, after, afterDevin, afterWorker, afterGrok, afterAttached, interactive, Kinds, Roles
<1>I. Lease'
  BY <1>1, <1>s DEF reserveInteractive, Fail, Lease, Early, Probing, InUse, PreTarget, Leaving,
     interactive, Threads, control, intake, ControlOK, ResourcesOK, Process, Places, Handles,
     NoProcess, role, after, afterDevin, afterWorker, afterGrok, afterAttached, Roles
<1>J. Outcomes'
  BY <1>1, <1>s DEF reserveInteractive, Fail, Outcomes, Early, Probing, InUse, PreTarget, Leaving, own,
     Threads, Sessions, control, intake, ControlOK, ResourcesOK, Process, SessionState, Places,
     Handles, Handle, Processes, ProcessInv, References, ReferenceInv, holders, one, NoProcess, role,
     after, afterDevin, afterWorker, afterGrok, afterAttached, Roles
<1>K. Intake'
  BY <1>1, <1>s DEF reserveInteractive, Fail, Intake, Early, Probing, InUse, PreTarget, Leaving,
     Threads, devin, control, intake, ControlOK, IntakeOK, Supervisor, Places, Handles, role, after,
     afterDevin, afterWorker, afterGrok, afterAttached, Kinds, interactive
<1>L. QED
  BY <1>A, <1>B, <1>C, <1>D, <1>E, <1>F, <1>G, <1>H, <1>I, <1>J, <1>K DEF IndInv

\* A prepared process takes one more reference of a Session in use; the target takes
\* the environment over.
LEMMA prepareRetainedProcessHolds == ASSUME IndInv, NEW t \in Threads, prepareRetainedProcess(t) PROVE IndInv'
<1>1. /\ ControlOK /\ ResourcesOK /\ IntakeOK /\ Places /\ Handles /\ Processes /\ References
      /\ Passed /\ Lease /\ Outcomes /\ Intake
  BY DEF IndInv
<1>w. /\ role(t) \in Roles /\ own(t) \in Sessions /\ proc[role(t)] \in Process
      /\ t = "worker" => role(t) = "auth" /\ own(t) = "side" /\ stage[t] = "auth"
      /\ t = "main" => own(t) = "main" /\ stage[t] \in Probing \cup {"target"}
      /\ t = "main" /\ stage[t] = "target" => role(t) = "target" /\ proc["probe"].st = "none"
      /\ t = "main" /\ stage[t] # "target" => role(t) = "probe" /\ proc["target"].st = "none"
      /\ ses[own(t)].st = "live" /\ ~ses[own(t)].asked /\ Handle(t, role(t))
      /\ ses[own(t)].refs = holders(own(t)) + 1
  BY <1>1, WorkingThread DEF prepareRetainedProcess
<1>2. PICK ready \in BOOLEAN :
        \/ /\ ready /\ ses' = [ses EXCEPT ![own(t)].refs = @ + 1]
           /\ proc' = [proc EXCEPT ![role(t)] = [NoProcess EXCEPT !.st = "prepared", !.ses = own(t), !.held = TRUE]]
           /\ env' = IF role(t) = "target" /\ env = "held" THEN "transferred" ELSE env
           /\ sub' = [sub EXCEPT ![t] = "start"] /\ stage' = stage /\ res' = res /\ sup' = sup
        \/ /\ ~ready /\ ses' = ses /\ proc' = proc /\ env' = env
           /\ stage' = [stage EXCEPT ![t] = unwind(t)] /\ sub' = [sub EXCEPT ![t] = "none"]
           /\ res' = [res EXCEPT ![t] = @ \cup {"error"}] /\ sup' = [sup EXCEPT !.starting = FALSE]
  BY DEF prepareRetainedProcess, Step, Fail
<1>3. /\ sub[t] = "none" /\ proc[role(t)] = NoProcess /\ (role(t) = "target" /\ devin => sup.starting)
      /\ kind' = kind /\ passed' = passed /\ preflights' = preflights
      /\ accepted' = accepted /\ cancelled' = cancelled /\ hit' = hit
  BY <1>1, <1>w DEF prepareRetainedProcess, Handle, Processes, ProcessInv, preflights
<1>p. /\ proc' \in [Roles -> Process] /\ \A q \in Roles \ {role(t)} : proc'[q] = proc[q]
      /\ ~ready => proc'[role(t)] = proc[role(t)]
      /\ ready => /\ proc'[role(t)].st = "prepared" /\ proc'[role(t)].ses = own(t) /\ ~proc'[role(t)].tree
                  /\ proc'[role(t)].clean = "open" /\ proc'[role(t)].held
  <2> DEFINE p1 == [NoProcess EXCEPT !.st = "prepared"]
             p2 == [p1 EXCEPT !.ses = own(t)]
             p3 == [p2 EXCEPT !.held = TRUE]
  <2>1. p1 \in Process /\ p1.st = "prepared" /\ ~p1.tree /\ p1.clean = "open"
    BY DEF Process, NoProcess, Sessions
  <2>2. p2 \in Process /\ p2.st = "prepared" /\ p2.ses = own(t) /\ ~p2.tree /\ p2.clean = "open"
    BY <1>w, <2>1 DEF Process
  <2>3. /\ p3 \in Process /\ p3.st = "prepared" /\ p3.ses = own(t) /\ ~p3.tree /\ p3.clean = "open"
        /\ p3.held
    BY <2>2 DEF Process
  <2>4. proc \in [Roles -> Process] /\ (ready => proc' = [proc EXCEPT ![role(t)] = p3]) /\ (~ready => proc' = proc)
    BY <1>1, <1>2 DEF ResourcesOK
  <2> HIDE DEF p1, p2, p3
  <2> QED
    BY <1>w, <2>3, <2>4
<1>e. /\ ses' \in [Sessions -> SessionState] /\ \A s \in Sessions \ {own(t)} : ses'[s] = ses[s]
      /\ ses'[own(t)].st = ses[own(t)].st /\ ses'[own(t)].asked = ses[own(t)].asked
      /\ ses'[own(t)].refs = IF ready THEN ses[own(t)].refs + 1 ELSE ses[own(t)].refs
  <2>1. holders(own(t)) \in 0..1
    BY <1>w, <1>3 DEF holders, one, NoProcess, Threads
  <2> DEFINE n == ses[own(t)].refs + 1
             r == [ses[own(t)] EXCEPT !.refs = n]
  <2>2. n \in 0..3 /\ ses \in [Sessions -> SessionState] /\ ses[own(t)] \in SessionState
    BY <1>1, <1>w, <2>1 DEF ResourcesOK, SessionState
  <2>3. r \in SessionState /\ r.st = ses[own(t)].st /\ r.asked = ses[own(t)].asked /\ r.refs = n
    BY <2>2 DEF SessionState
  <2>4. (ready => ses' = [ses EXCEPT ![own(t)] = r]) /\ (~ready => ses' = ses)
    BY <1>2
  <2> HIDE DEF r
  <2> QED
    BY <1>w, <2>2, <2>3, <2>4
<1>u. unwind(t) = IF t = "main" /\ stage[t] \in {"skills", "rules"} THEN "join" ELSE "remove"
  BY DEF unwind

<1>h. \A q \in Roles : proc[q].st = "none" => ~proc[q].held
  BY <1>1 DEF Processes, ProcessInv, NoProcess
<1>f. faults' \in 0..MaxFaults
  BY <1>1, FaultBounds DEF prepareRetainedProcess, Working, Fail, Step, own, NoProcess, unwind,
     IntakeOK, control, intake
<1>s. /\ sup' \in Supervisor /\ sup'.interrupts = sup.interrupts
      /\ sup'.on = sup.on /\ sup'.pending = sup.pending /\ sup'.child = sup.child
      /\ sup'.cleaning = sup.cleaning /\ (sup'.starting => sup.starting) /\ (ready => sup' = sup)
  BY <1>1, <1>2 DEF IntakeOK, Supervisor
<1>A. ControlOK'
  BY <1>1, <1>2, <1>3, <1>u DEF ControlOK, Stages, Threads
<1>B. ResourcesOK'
  BY <1>p, <1>e DEF ResourcesOK
<1>C. IntakeOK'
  BY <1>1, <1>f, <1>s DEF prepareRetainedProcess, IntakeOK, control, intake
<1>D. Places'
  BY <1>1, <1>2, <1>3, <1>w, <1>u DEF ControlOK, Places, interactive, Early, Probing, InUse, PreTarget,
     Leaving, Threads
<1>E. Handles'
  <2>1. CASE t = "worker"
    <3>1. /\ role(t) = "auth" /\ stage["worker"] = "auth" /\ own(t) = "side"
          /\ proc'["probe"] = proc["probe"] /\ proc'["target"] = proc["target"]
      BY <1>w, <1>p, <2>1 DEF Roles
    <3> QED
      BY <1>1, <1>w, <1>2, <1>3, <1>p, <1>u, <2>1, <3>1 DEF ControlOK, Handles, Handle, NoProcess,
         Places, Early, Probing, InUse, PreTarget, Leaving, Threads
  <2>2. CASE t = "main" /\ stage[t] = "target"
    <3>1. /\ role(t) = "target" /\ stage["main"] = "target" /\ own(t) = "main"
          /\ proc'["probe"] = proc["probe"] /\ proc'["auth"] = proc["auth"]
      BY <1>w, <1>p, <2>2 DEF Roles
    <3> QED
      BY <1>1, <1>w, <1>2, <1>3, <1>p, <1>u, <2>2, <3>1 DEF ControlOK, Handles, Handle, NoProcess,
         Places, Early, Probing, InUse, PreTarget, Leaving, Threads
  <2>3. CASE t = "main" /\ stage[t] \in Probing
    <3>1. /\ role(t) = "probe" /\ stage["main"] \in Probing /\ own(t) = "main"
          /\ proc'["target"] = proc["target"] /\ proc'["auth"] = proc["auth"]
      BY <1>w, <1>p, <2>3 DEF Roles, Probing
    <3> QED
      BY <1>1, <1>w, <1>2, <1>3, <1>p, <1>u, <2>3, <3>1 DEF ControlOK, Handles, Handle, NoProcess,
         Places, Early, Probing, InUse, PreTarget, Leaving, Threads
  <2>4. QED
    BY <1>w, <2>1, <2>2, <2>3 DEF Threads
<1>F. Processes'
  BY <1>1, <1>w, <1>3, <1>p DEF Processes, ProcessInv, NoProcess, Threads
<1>G. References'
  <2>1. /\ ready => holders(own(t))' = holders(own(t)) + 1
        /\ ~ready => holders(own(t))' = holders(own(t))
        /\ \A s \in Sessions \ {own(t)} : holders(s)' = holders(s)
    BY <1>w, <1>3, <1>p DEF holders, one, NoProcess, Threads, Sessions, Roles
  <2>2. \A s \in Sessions : holders(s) \in 0..2
    BY DEF holders, one
  <2>3. \A s \in Sessions : ReferenceInv(s)'
    BY <1>1, <1>w, <1>e, <2>1, <2>2 DEF References, ReferenceInv, one, holders
  <2> QED
    BY <1>1, <1>2, <1>w, <1>e, <1>u, <2>3 DEF ControlOK, References, own, Sessions, Early, Probing,
       InUse, PreTarget, Leaving, Threads
<1>H. Passed'
  <2>1. CASE t = "worker"
    <3>1. /\ role(t) = "auth" /\ stage["worker"] = "auth" /\ own(t) = "side"
          /\ proc'["probe"] = proc["probe"] /\ proc'["target"] = proc["target"]
      BY <1>w, <1>p, <2>1 DEF Roles
    <3> QED
      BY <1>1, <1>w, <1>2, <1>3, <1>p, <1>u, <2>1, <3>1 DEF ControlOK, Passed, NoProcess, Places,
         Early, Probing, InUse, PreTarget, Leaving, Threads
  <2>2. CASE t = "main" /\ stage[t] = "target"
    <3>1. /\ role(t) = "target" /\ stage["main"] = "target" /\ own(t) = "main"
          /\ proc'["probe"] = proc["probe"] /\ proc'["auth"] = proc["auth"]
      BY <1>w, <1>p, <2>2 DEF Roles
    <3> QED
      BY <1>1, <1>w, <1>2, <1>3, <1>p, <1>u, <2>2, <3>1 DEF ControlOK, Passed, NoProcess, Places,
         Early, Probing, InUse, PreTarget, Leaving, Threads
  <2>3. CASE t = "main" /\ stage[t] \in Probing
    <3>1. /\ role(t) = "probe" /\ stage["main"] \in Probing /\ own(t) = "main"
          /\ proc'["target"] = proc["target"] /\ proc'["auth"] = proc["auth"]
      BY <1>w, <1>p, <2>3 DEF Roles, Probing
    <3> QED
      BY <1>1, <1>w, <1>2, <1>3, <1>p, <1>u, <2>3, <3>1 DEF ControlOK, Passed, NoProcess, Places,
         Early, Probing, InUse, PreTarget, Leaving, Threads
  <2>4. QED
    BY <1>w, <2>1, <2>2, <2>3 DEF Threads
<1>I. Lease'
  <2>1. CASE t = "worker"
    <3>1. /\ role(t) = "auth" /\ stage["worker"] = "auth" /\ own(t) = "side"
          /\ proc'["probe"] = proc["probe"] /\ proc'["target"] = proc["target"]
      BY <1>w, <1>p, <2>1 DEF Roles
    <3> QED
      BY <1>1, <1>w, <1>2, <1>3, <1>p, <1>u, <2>1, <3>1 DEF ControlOK, Lease, interactive, NoProcess,
         Places, Early, Probing, InUse, PreTarget, Leaving, Threads
  <2>2. CASE t = "main" /\ stage[t] = "target"
    <3>1. /\ role(t) = "target" /\ stage["main"] = "target" /\ own(t) = "main"
          /\ proc'["probe"] = proc["probe"] /\ proc'["auth"] = proc["auth"]
      BY <1>w, <1>p, <2>2 DEF Roles
    <3> QED
      BY <1>1, <1>w, <1>2, <1>3, <1>p, <1>u, <2>2, <3>1 DEF ControlOK, Lease, interactive, NoProcess,
         Places, Early, Probing, InUse, PreTarget, Leaving, Threads
  <2>3. CASE t = "main" /\ stage[t] \in Probing
    <3>1. /\ role(t) = "probe" /\ stage["main"] \in Probing /\ own(t) = "main"
          /\ proc'["target"] = proc["target"] /\ proc'["auth"] = proc["auth"]
      BY <1>w, <1>p, <2>3 DEF Roles, Probing
    <3> QED
      BY <1>1, <1>w, <1>2, <1>3, <1>p, <1>u, <2>3, <3>1 DEF ControlOK, Lease, interactive, NoProcess,
         Places, Early, Probing, InUse, PreTarget, Leaving, Threads
  <2>4. QED
    BY <1>w, <2>1, <2>2, <2>3 DEF Threads
<1>J. Outcomes'
  <2>1. CASE t = "worker"
    <3>1. /\ role(t) = "auth" /\ stage["worker"] = "auth" /\ own(t) = "side"
          /\ proc'["probe"] = proc["probe"] /\ proc'["target"] = proc["target"]
      BY <1>w, <1>p, <2>1 DEF Roles
    <3> QED
      BY <1>1, <1>w, <1>2, <1>3, <1>p, <1>e, <1>u, <1>h, <2>1, <3>1 DEF ControlOK, Outcomes, own,
         Sessions, NoProcess, Places, Roles, Early, Probing, InUse, PreTarget, Leaving, Threads
  <2>2. CASE t = "main" /\ stage[t] = "target"
    <3>1. /\ role(t) = "target" /\ stage["main"] = "target" /\ own(t) = "main"
          /\ proc'["probe"] = proc["probe"] /\ proc'["auth"] = proc["auth"]
      BY <1>w, <1>p, <2>2 DEF Roles
    <3> QED
      BY <1>1, <1>w, <1>2, <1>3, <1>p, <1>e, <1>u, <1>h, <2>2, <3>1 DEF ControlOK, Outcomes, own,
         Sessions, NoProcess, Places, Roles, Early, Probing, InUse, PreTarget, Leaving, Threads
  <2>3. CASE t = "main" /\ stage[t] \in Probing
    <3>1. /\ role(t) = "probe" /\ stage["main"] \in Probing /\ own(t) = "main"
          /\ proc'["target"] = proc["target"] /\ proc'["auth"] = proc["auth"]
      BY <1>w, <1>p, <2>3 DEF Roles, Probing
    <3> QED
      BY <1>1, <1>w, <1>2, <1>3, <1>p, <1>e, <1>u, <1>h, <2>3, <3>1 DEF ControlOK, Outcomes, own,
         Sessions, NoProcess, Places, Roles, Early, Probing, InUse, PreTarget, Leaving, Threads
  <2>4. QED
    BY <1>w, <2>1, <2>2, <2>3 DEF Threads
<1>K. Intake'
  BY <1>1, <1>w, <1>2, <1>3, <1>s, <1>u DEF ControlOK, Intake, devin, Handles, Places, Early, Probing,
     InUse, PreTarget, Leaving, Threads
<1>L. QED
  BY <1>A, <1>B, <1>C, <1>D, <1>E, <1>F, <1>G, <1>H, <1>I, <1>J, <1>K DEF IndInv

LEMMA SkipRulesHolds == ASSUME IndInv, SkipRules PROVE IndInv'
<1>1. /\ ControlOK /\ ResourcesOK /\ IntakeOK /\ Places /\ Handles /\ Processes /\ References
      /\ Passed /\ Lease /\ Outcomes /\ Intake
  BY DEF IndInv
<1>A. ControlOK'
  BY <1>1 DEF SkipRules, Go, ControlOK, Stages, Kinds, Threads, control, intake, Places, after,
     afterDevin, afterWorker, afterGrok, afterAttached, role, verdicts, exitStatus, verifyDevinSkills,
     verifyDevinRules, verifyDevinAuthentication, AcceptsOutput
<1>B. ResourcesOK'
  BY <1>1 DEF SkipRules, ResourcesOK, Process, SessionState, Threads, Sessions, Roles, control, intake
<1>C. IntakeOK'
  BY <1>1 DEF SkipRules, IntakeOK, Supervisor, control, intake
<1>D. Places'
  BY <1>1 DEF SkipRules, Go, Places, Early, Probing, InUse, PreTarget, Leaving, interactive, Threads,
     control, intake, ControlOK, after, afterDevin, afterWorker, afterGrok, afterAttached, role, devin
<1>E. Handles'
  BY <1>1 DEF SkipRules, Go, Handles, Early, Probing, InUse, PreTarget, Leaving, Handle, Threads,
     control, intake, ControlOK, ResourcesOK, Process, Places, Processes, ProcessInv, NoProcess, after,
     afterDevin, afterWorker, afterGrok, afterAttached, role, Roles
<1>F. Processes'
  BY <1>1 DEF SkipRules, Processes, ProcessInv, Roles, NoProcess, control, intake
<1>G. References'
  BY <1>1 DEF SkipRules, Go, References, ReferenceInv, holders, one, own, Threads, Sessions, Roles,
     Early, Probing, InUse, PreTarget, Leaving, control, intake, ControlOK, ResourcesOK, Process,
     SessionState, Places, Handles, Handle, Processes, ProcessInv, NoProcess, role, after, afterDevin,
     afterWorker, afterGrok, afterAttached
<1>H. Passed'
  BY <1>1 DEF SkipRules, Go, Passed, Early, Probing, InUse, PreTarget, Leaving, preflights, Threads,
     control, intake, ControlOK, ResourcesOK, Process, Places, Handles, NoProcess, role, after,
     afterDevin, afterWorker, afterGrok, afterAttached, interactive, Kinds, Roles
<1>I. Lease'
  BY <1>1 DEF SkipRules, Go, Lease, Early, Probing, InUse, PreTarget, Leaving, interactive, Threads,
     control, intake, ControlOK, ResourcesOK, Process, Places, Handles, NoProcess, role, after,
     afterDevin, afterWorker, afterGrok, afterAttached, Roles
<1>J. Outcomes'
  BY <1>1 DEF SkipRules, Go, Outcomes, Early, Probing, InUse, PreTarget, Leaving, own, Threads,
     Sessions, control, intake, ControlOK, ResourcesOK, Process, SessionState, Places, Handles, Handle,
     Processes, ProcessInv, References, ReferenceInv, holders, one, NoProcess, role, after, afterDevin,
     afterWorker, afterGrok, afterAttached, Roles
<1>K. Intake'
  BY <1>1 DEF SkipRules, Go, Intake, Early, Probing, InUse, PreTarget, Leaving, Threads, devin,
     control, intake, ControlOK, IntakeOK, Supervisor, Places, Handles, role, after, afterDevin,
     afterWorker, afterGrok, afterAttached, Kinds, interactive
<1>L. QED
  BY <1>A, <1>B, <1>C, <1>D, <1>E, <1>F, <1>G, <1>H, <1>I, <1>J, <1>K DEF IndInv

\* A started process, or one that failed to start, may leave a tree behind.
LEMMA StartHolds == ASSUME IndInv, NEW t \in Threads, Start(t) PROVE IndInv'
<1>1. /\ ControlOK /\ ResourcesOK /\ IntakeOK /\ Places /\ Handles /\ Processes /\ References
      /\ Passed /\ Lease /\ Outcomes /\ Intake
  BY DEF IndInv
<1>w. /\ role(t) \in Roles /\ own(t) \in Sessions /\ proc[role(t)] \in Process
      /\ t = "worker" => role(t) = "auth" /\ own(t) = "side" /\ stage[t] = "auth"
      /\ t = "main" => own(t) = "main" /\ stage[t] \in Probing \cup {"target"}
      /\ t = "main" /\ stage[t] = "target" => role(t) = "target" /\ proc["probe"].st = "none"
      /\ t = "main" /\ stage[t] # "target" => role(t) = "probe" /\ proc["target"].st = "none"
      /\ ses[own(t)].st = "live" /\ ~ses[own(t)].asked /\ Handle(t, role(t))
      /\ ses[own(t)].refs = holders(own(t)) + 1
  BY <1>1, WorkingThread DEF Start
<1>2. PICK x \in {"started", "failed"} :
        /\ proc' = [proc EXCEPT ![role(t)].st = x, ![role(t)].tree = TRUE]
        /\ \/ /\ x = "started" /\ sub' = [sub EXCEPT ![t] = IF role(t) = "target" THEN "attach" ELSE "wait"]
              /\ sup' = sup
           \/ /\ x = "failed" /\ sub' = [sub EXCEPT ![t] = "settle"]
              /\ sup' = [sup EXCEPT !.starting = FALSE]
  BY DEF Start, Step
<1>3. /\ sub[t] = "start" /\ Working(t) /\ proc[role(t)].st = "prepared"
      /\ stage' = stage /\ kind' = kind /\ res' = res /\ ses' = ses /\ env' = env /\ passed' = passed
      /\ accepted' = accepted /\ cancelled' = cancelled /\ hit' = hit
  BY <1>w DEF Start, Handle, Step
<1>p. /\ proc' \in [Roles -> Process] /\ \A q \in Roles \ {role(t)} : proc'[q] = proc[q]
      /\ proc'[role(t)].st = x /\ proc'[role(t)].ses = proc[role(t)].ses /\ proc'[role(t)].tree = TRUE
      /\ proc'[role(t)].clean = proc[role(t)].clean /\ proc'[role(t)].held = proc[role(t)].held
  <2> DEFINE p1 == [proc[role(t)] EXCEPT !.st = x]
             p2 == [p1 EXCEPT !.tree = TRUE]
  <2>1. x \in {"started", "failed"} /\ proc \in [Roles -> Process] /\ proc[role(t)] \in Process
    BY <1>1, <1>w, <1>2 DEF ResourcesOK
  <2>2. p1 \in Process /\ p1.st = x /\ p1.ses = proc[role(t)].ses /\ p1.tree = proc[role(t)].tree /\ p1.clean = proc[role(t)].clean /\ p1.held = proc[role(t)].held
    BY <2>1 DEF Process
  <2>3. p2 \in Process /\ p2.st = x /\ p2.ses = proc[role(t)].ses /\ p2.tree = TRUE /\ p2.clean = proc[role(t)].clean /\ p2.held = proc[role(t)].held
    BY <2>2 DEF Process
  <2>4. proc' = [proc EXCEPT ![role(t)] = p2]
    BY <1>2
  <2> HIDE DEF p1, p2
  <2> QED
    BY <1>w, <2>1, <2>3, <2>4
<1>q. \A q \in Roles : /\ proc'[q].held = proc[q].held /\ proc'[q].ses = proc[q].ses /\ proc'[q].clean = proc[q].clean
                      /\ (proc'[q].st = "none") = (proc[q].st = "none")
  BY <1>w, <1>2, <1>3, <1>p
<1>f. faults' \in 0..MaxFaults
  BY <1>1, FaultBounds DEF Start, Working, Step, IntakeOK, control, intake
<1>s. /\ sup' \in Supervisor /\ sup'.interrupts = sup.interrupts
      /\ sup'.on = sup.on /\ sup'.pending = sup.pending /\ sup'.child = sup.child
      /\ sup'.cleaning = sup.cleaning /\ (sup'.starting => sup.starting)
      /\ x = "started" => sup'.starting = sup.starting
  BY <1>1, <1>2 DEF IntakeOK, Supervisor
<1>A. ControlOK'
  BY <1>1, <1>2, <1>3 DEF ControlOK, Threads
<1>B. ResourcesOK'
  BY <1>1, <1>3, <1>p DEF ResourcesOK
<1>C. IntakeOK'
  BY <1>1, <1>f, <1>s DEF Start, IntakeOK, control, intake
<1>D. Places'
  BY <1>1, <1>3 DEF Places, interactive, Early, Probing, InUse, PreTarget, Leaving, Threads
<1>E. Handles'
  <2>1. CASE t = "worker"
    <3>1. /\ role(t) = "auth" /\ stage["worker"] = "auth" /\ own(t) = "side"
          /\ proc'["probe"] = proc["probe"] /\ proc'["target"] = proc["target"]
      BY <1>w, <1>p, <2>1 DEF Roles
    <3> QED
      BY <1>1, <1>w, <1>2, <1>3, <1>p, <2>1, <3>1 DEF ControlOK, Handles, Handle, Places, Early,
         Probing, InUse, PreTarget, Leaving, Threads
  <2>2. CASE t = "main" /\ stage[t] = "target"
    <3>1. /\ role(t) = "target" /\ stage["main"] = "target" /\ own(t) = "main"
          /\ proc'["probe"] = proc["probe"] /\ proc'["auth"] = proc["auth"]
      BY <1>w, <1>p, <2>2 DEF Roles
    <3> QED
      BY <1>1, <1>w, <1>2, <1>3, <1>p, <2>2, <3>1 DEF ControlOK, Handles, Handle, Places, Early,
         Probing, InUse, PreTarget, Leaving, Threads
  <2>3. CASE t = "main" /\ stage[t] \in Probing
    <3>1. /\ role(t) = "probe" /\ stage["main"] \in Probing /\ own(t) = "main"
          /\ proc'["target"] = proc["target"] /\ proc'["auth"] = proc["auth"]
      BY <1>w, <1>p, <2>3 DEF Roles, Probing
    <3> QED
      BY <1>1, <1>w, <1>2, <1>3, <1>p, <2>3, <3>1 DEF ControlOK, Handles, Handle, Places, Early,
         Probing, InUse, PreTarget, Leaving, Threads
  <2>4. QED
    BY <1>w, <2>1, <2>2, <2>3 DEF Threads
<1>F. Processes'
  BY <1>1, <1>w, <1>3, <1>p DEF Processes, ProcessInv
<1>G. References'
  <2>1. \A s \in Sessions : holders(s)' = holders(s)
    BY <1>w, <1>p DEF holders, Roles
  <2> QED
    BY <1>1, <1>3, <2>1 DEF References, ReferenceInv, one, holders, own, Early, Probing, InUse,
       PreTarget, Leaving, Threads
<1>H. Passed'
  BY <1>1, <1>3, <1>q DEF Passed, preflights, Roles
<1>I. Lease'
  BY <1>1, <1>3, <1>q DEF Lease, interactive, Roles
<1>J. Outcomes'
  BY <1>1, <1>3, <1>q DEF Outcomes, Roles
<1>K. Intake'
  BY <1>1, <1>w, <1>2, <1>3, <1>s DEF ControlOK, Intake, devin, Handles, Places, Early, Probing, InUse,
     PreTarget, Leaving, Threads
<1>L. QED
  BY <1>A, <1>B, <1>C, <1>D, <1>E, <1>F, <1>G, <1>H, <1>I, <1>J, <1>K DEF IndInv

\* A pending termination becomes the step that replays it.
LEMMA AttachHolds == ASSUME IndInv, Attach PROVE IndInv'
<1>1. /\ ControlOK /\ ResourcesOK /\ IntakeOK /\ Places /\ Handles /\ Processes /\ References
      /\ Passed /\ Lease /\ Outcomes /\ Intake
  BY DEF IndInv
<1>s. /\ sup' \in Supervisor /\ sup'.interrupts = sup.interrupts /\ sup'.on = sup.on
      /\ ~sup'.starting /\ sup'.child = devin /\ sup'.pending = "none" /\ sup'.cleaning = sup.cleaning
  <2> DEFINE r1 == [sup EXCEPT !.starting = FALSE]
             r2 == [r1 EXCEPT !.child = devin]
             r3 == [r2 EXCEPT !.pending = "none"]
  <2>1. r1 \in Supervisor /\ r1.interrupts = sup.interrupts /\ r1.on = sup.on /\ ~r1.starting
        /\ r1.cleaning = sup.cleaning
    BY <1>1 DEF IntakeOK, Supervisor
  <2>2. devin \in BOOLEAN
    BY DEF devin
  <2>3. /\ r2 \in Supervisor /\ r2.interrupts = sup.interrupts /\ r2.on = sup.on /\ ~r2.starting
        /\ r2.child = devin /\ r2.cleaning = sup.cleaning
    BY <2>1, <2>2 DEF Supervisor
  <2>4. /\ r3 \in Supervisor /\ r3.interrupts = sup.interrupts /\ r3.on = sup.on /\ ~r3.starting
        /\ r3.child = devin /\ r3.pending = "none" /\ r3.cleaning = sup.cleaning
    BY <2>3 DEF Supervisor
  <2>5. sup' = r3
    BY DEF Attach
  <2> HIDE DEF r1, r2, r3
  <2> QED
    BY <2>4, <2>5
<1>A. ControlOK'
  BY <1>1, <1>s DEF Attach, Step, ControlOK, Stages, Kinds, Threads, control, intake, Places, after,
     afterDevin, afterWorker, afterGrok, afterAttached, role, verdicts, exitStatus, verifyDevinSkills,
     verifyDevinRules, verifyDevinAuthentication, AcceptsOutput
<1>B. ResourcesOK'
  BY <1>1 DEF Attach, ResourcesOK, Process, SessionState, Threads, Sessions, Roles, control, intake
<1>C. IntakeOK'
  BY <1>1, <1>s DEF Attach, IntakeOK, control, intake
<1>D. Places'
  BY <1>1, <1>s DEF Attach, Step, Places, Early, Probing, InUse, PreTarget, Leaving, interactive,
     Threads, control, intake, ControlOK, after, afterDevin, afterWorker, afterGrok, afterAttached,
     role, devin
<1>E. Handles'
  BY <1>1, <1>s DEF Attach, Step, Handles, Early, Probing, InUse, PreTarget, Leaving, Handle, Threads,
     control, intake, ControlOK, ResourcesOK, Process, Places, Processes, ProcessInv, NoProcess, after,
     afterDevin, afterWorker, afterGrok, afterAttached, role, Roles
<1>F. Processes'
  BY <1>1 DEF Attach, Processes, ProcessInv, Roles, NoProcess, control, intake
<1>G. References'
  BY <1>1, <1>s DEF Attach, Step, References, ReferenceInv, holders, one, own, Threads, Sessions,
     Roles, Early, Probing, InUse, PreTarget, Leaving, control, intake, ControlOK, ResourcesOK,
     Process, SessionState, Places, Handles, Handle, Processes, ProcessInv, NoProcess, role, after,
     afterDevin, afterWorker, afterGrok, afterAttached
<1>H. Passed'
  BY <1>1, <1>s DEF Attach, Step, Passed, Early, Probing, InUse, PreTarget, Leaving, preflights,
     Threads, control, intake, ControlOK, ResourcesOK, Process, Places, Handles, NoProcess, role,
     after, afterDevin, afterWorker, afterGrok, afterAttached, interactive, Kinds, Roles
<1>I. Lease'
  BY <1>1, <1>s DEF Attach, Step, Lease, Early, Probing, InUse, PreTarget, Leaving, interactive,
     Threads, control, intake, ControlOK, ResourcesOK, Process, Places, Handles, NoProcess, role,
     after, afterDevin, afterWorker, afterGrok, afterAttached, Roles
<1>J. Outcomes'
  BY <1>1, <1>s DEF Attach, Step, Outcomes, Early, Probing, InUse, PreTarget, Leaving, own, Threads,
     Sessions, control, intake, ControlOK, ResourcesOK, Process, SessionState, Places, Handles, Handle,
     Processes, ProcessInv, References, ReferenceInv, holders, one, NoProcess, role, after, afterDevin,
     afterWorker, afterGrok, afterAttached, Roles
<1>K. Intake'
  BY <1>1, <1>s DEF Attach, Step, Intake, Early, Probing, InUse, PreTarget, Leaving, Threads, devin,
     control, intake, ControlOK, IntakeOK, Supervisor, Places, Handles, role, after, afterDevin,
     afterWorker, afterGrok, afterAttached, Kinds, interactive
<1>L. QED
  BY <1>A, <1>B, <1>C, <1>D, <1>E, <1>F, <1>G, <1>H, <1>I, <1>J, <1>K DEF IndInv

LEMMA ReplayHolds == ASSUME IndInv, Replay PROVE IndInv'
<1>1. /\ ControlOK /\ ResourcesOK /\ IntakeOK /\ Places /\ Handles /\ Processes /\ References
      /\ Passed /\ Lease /\ Outcomes /\ Intake
  BY DEF IndInv
<1>A. ControlOK'
  BY <1>1 DEF Replay, Step, ControlOK, Stages, Kinds, Threads, control, intake, Places, after,
     afterDevin, afterWorker, afterGrok, afterAttached, role, verdicts, exitStatus, verifyDevinSkills,
     verifyDevinRules, verifyDevinAuthentication, AcceptsOutput
<1>B. ResourcesOK'
  BY <1>1 DEF Replay, ResourcesOK, Process, SessionState, Threads, Sessions, Roles, control, intake
<1>C. IntakeOK'
  <2>1. faults' \in 0..MaxFaults
    BY <1>1, FaultBounds DEF Replay, IntakeOK
  <2> QED
    BY <1>1, <2>1 DEF Replay, IntakeOK
<1>D. Places'
  BY <1>1 DEF Replay, Step, Places, Early, Probing, InUse, PreTarget, Leaving, interactive, Threads,
     control, intake, ControlOK, after, afterDevin, afterWorker, afterGrok, afterAttached, role, devin
<1>E. Handles'
  BY <1>1 DEF Replay, Step, Handles, Early, Probing, InUse, PreTarget, Leaving, Handle, Threads,
     control, intake, ControlOK, ResourcesOK, Process, Places, Processes, ProcessInv, NoProcess, after,
     afterDevin, afterWorker, afterGrok, afterAttached, role, Roles
<1>F. Processes'
  BY <1>1 DEF Replay, Processes, ProcessInv, Roles, NoProcess, control, intake
<1>G. References'
  BY <1>1 DEF Replay, Step, References, ReferenceInv, holders, one, own, Threads, Sessions, Roles,
     Early, Probing, InUse, PreTarget, Leaving, control, intake, ControlOK, ResourcesOK, Process,
     SessionState, Places, Handles, Handle, Processes, ProcessInv, NoProcess, role, after, afterDevin,
     afterWorker, afterGrok, afterAttached
<1>H. Passed'
  BY <1>1 DEF Replay, Step, Passed, Early, Probing, InUse, PreTarget, Leaving, preflights, Threads,
     control, intake, ControlOK, ResourcesOK, Process, Places, Handles, NoProcess, role, after,
     afterDevin, afterWorker, afterGrok, afterAttached, interactive, Kinds, Roles
<1>I. Lease'
  BY <1>1 DEF Replay, Step, Lease, Early, Probing, InUse, PreTarget, Leaving, interactive, Threads,
     control, intake, ControlOK, ResourcesOK, Process, Places, Handles, NoProcess, role, after,
     afterDevin, afterWorker, afterGrok, afterAttached, Roles
<1>J. Outcomes'
  BY <1>1 DEF Replay, Step, Outcomes, Early, Probing, InUse, PreTarget, Leaving, own, Threads,
     Sessions, control, intake, ControlOK, ResourcesOK, Process, SessionState, Places, Handles, Handle,
     Processes, ProcessInv, References, ReferenceInv, holders, one, NoProcess, role, after, afterDevin,
     afterWorker, afterGrok, afterAttached, Roles
<1>K. Intake'
  BY <1>1 DEF Replay, Step, Intake, Early, Probing, InUse, PreTarget, Leaving, Threads, devin, control,
     intake, ControlOK, IntakeOK, Supervisor, Places, Handles, role, after, afterDevin, afterWorker,
     afterGrok, afterAttached, Kinds, interactive
<1>L. QED
  BY <1>A, <1>B, <1>C, <1>D, <1>E, <1>F, <1>G, <1>H, <1>I, <1>J, <1>K DEF IndInv

LEMMA WaitHolds == ASSUME IndInv, NEW t \in Threads, Wait(t) PROVE IndInv'
<1>1. /\ ControlOK /\ ResourcesOK /\ IntakeOK /\ Places /\ Handles /\ Processes /\ References
      /\ Passed /\ Lease /\ Outcomes /\ Intake
  BY DEF IndInv
<1>s. sup' \in Supervisor /\ sup'.interrupts = sup.interrupts
  BY <1>1, CleanupBegins DEF Wait, Working, Step, IntakeOK, control, intake, Supervisor
<1>A. ControlOK'
  BY <1>1, <1>s DEF Wait, Working, Step, beginCleanup, ControlOK, Stages, Kinds, Threads, control,
     intake, Places, after, afterDevin, afterWorker, afterGrok, afterAttached, role, verdicts,
     exitStatus, verifyDevinSkills, verifyDevinRules, verifyDevinAuthentication, AcceptsOutput
<1>B. ResourcesOK'
  BY <1>1 DEF Wait, ResourcesOK, Process, SessionState, Threads, Sessions, Roles, control, intake
<1>C. IntakeOK'
  BY <1>1, <1>s DEF Wait, Working, Step, beginCleanup, IntakeOK, Supervisor, control, intake,
     ControlOK, role
<1>D. Places'
  BY <1>1, <1>s DEF Wait, Working, Step, beginCleanup, Places, Early, Probing, InUse, PreTarget,
     Leaving, interactive, Threads, control, intake, ControlOK, after, afterDevin, afterWorker,
     afterGrok, afterAttached, role, devin
<1>E. Handles'
  BY <1>1, <1>s DEF Wait, Working, Step, beginCleanup, Handles, Early, Probing, InUse, PreTarget,
     Leaving, Handle, Threads, control, intake, ControlOK, ResourcesOK, Process, Places, Processes,
     ProcessInv, NoProcess, after, afterDevin, afterWorker, afterGrok, afterAttached, role, Roles
<1>F. Processes'
  BY <1>1 DEF Wait, Processes, ProcessInv, Roles, NoProcess, control, intake
<1>G. References'
  BY <1>1, <1>s DEF Wait, Working, Step, beginCleanup, References, ReferenceInv, holders, one, own,
     Threads, Sessions, Roles, Early, Probing, InUse, PreTarget, Leaving, control, intake, ControlOK,
     ResourcesOK, Process, SessionState, Places, Handles, Handle, Processes, ProcessInv, NoProcess,
     role, after, afterDevin, afterWorker, afterGrok, afterAttached
<1>H. Passed'
  BY <1>1, <1>s DEF Wait, Working, Step, beginCleanup, Passed, Early, Probing, InUse, PreTarget,
     Leaving, preflights, Threads, control, intake, ControlOK, ResourcesOK, Process, Places, Handles,
     NoProcess, role, after, afterDevin, afterWorker, afterGrok, afterAttached, interactive, Kinds,
     Roles
<1>I. Lease'
  BY <1>1, <1>s DEF Wait, Working, Step, beginCleanup, Lease, Early, Probing, InUse, PreTarget,
     Leaving, interactive, Threads, control, intake, ControlOK, ResourcesOK, Process, Places, Handles,
     NoProcess, role, after, afterDevin, afterWorker, afterGrok, afterAttached, Roles
<1>J. Outcomes'
  BY <1>1, <1>s DEF Wait, Working, Step, beginCleanup, Outcomes, Early, Probing, InUse, PreTarget,
     Leaving, own, Threads, Sessions, control, intake, ControlOK, ResourcesOK, Process, SessionState,
     Places, Handles, Handle, Processes, ProcessInv, References, ReferenceInv, holders, one, NoProcess,
     role, after, afterDevin, afterWorker, afterGrok, afterAttached, Roles
<1>K. Intake'
  BY <1>1, <1>s DEF Wait, Working, Step, beginCleanup, Intake, Early, Probing, InUse, PreTarget,
     Leaving, Threads, devin, control, intake, ControlOK, IntakeOK, Supervisor, Places, Handles, role,
     after, afterDevin, afterWorker, afterGrok, afterAttached, Kinds, interactive
<1>L. QED
  BY <1>A, <1>B, <1>C, <1>D, <1>E, <1>F, <1>G, <1>H, <1>I, <1>J, <1>K DEF IndInv

\* A settled process gives its reference back, if the background has not done so.
LEMMA SettleHolds == ASSUME IndInv, NEW t \in Threads, Settle(t) PROVE IndInv'
<1>1. /\ ControlOK /\ ResourcesOK /\ IntakeOK /\ Places /\ Handles /\ Processes /\ References
      /\ Passed /\ Lease /\ Outcomes /\ Intake
  BY DEF IndInv
<1>w. /\ role(t) \in Roles /\ own(t) \in Sessions /\ proc[role(t)] \in Process
      /\ t = "worker" => role(t) = "auth" /\ own(t) = "side" /\ stage[t] = "auth"
      /\ t = "main" => own(t) = "main" /\ stage[t] \in Probing \cup {"target"}
      /\ t = "main" /\ stage[t] = "target" => role(t) = "target" /\ proc["probe"].st = "none"
      /\ t = "main" /\ stage[t] # "target" => role(t) = "probe" /\ proc["target"].st = "none"
      /\ ses[own(t)].st = "live" /\ ~ses[own(t)].asked /\ Handle(t, role(t))
      /\ ses[own(t)].refs = holders(own(t)) + 1
  BY <1>1, WorkingThread DEF Settle
<1>3. /\ sub[t] = "settle" /\ proc[role(t)].st \in {"exited", "failed"} /\ proc[role(t)].clean = "done"
      /\ kind' = kind /\ env' = env /\ preflights' = preflights /\ sub' = [sub EXCEPT ![t] = "none"]
      /\ sup' = sup /\ accepted' = accepted /\ cancelled' = cancelled /\ hit' = hit
      /\ kind \in Kinds /\ stage \in [Threads -> Stages]
  BY <1>1, <1>w DEF Settle, Handle, ControlOK, preflights, intake
<1>p. /\ proc' \in [Roles -> Process] /\ \A q \in Roles \ {role(t)} : proc'[q] = proc[q]
      /\ proc'[role(t)] = NoProcess
  <2>1. NoProcess \in Process
    BY DEF NoProcess, Process, Sessions
  <2>2. proc \in [Roles -> Process] /\ proc' = [proc EXCEPT ![role(t)] = NoProcess]
    BY <1>1 DEF Settle, ResourcesOK
  <2> QED
    BY <1>w, <2>1, <2>2
<1>e. /\ ses' \in [Sessions -> SessionState] /\ \A s \in Sessions \ {own(t)} : ses'[s] = ses[s]
      /\ ses'[own(t)].st = ses[own(t)].st /\ ses'[own(t)].asked = ses[own(t)].asked
      /\ ses'[own(t)].refs = IF proc[role(t)].held THEN ses[own(t)].refs - 1 ELSE ses[own(t)].refs
  <2>1. CASE proc[role(t)].held
    <3>1. releaseReference(own(t))
      BY <2>1 DEF Settle
    <3>2. ses[own(t)].refs > 0
      BY <1>1, <1>w DEF References, ReferenceInv
    <3> QED
      BY <1>1, <1>w, <2>1, <3>1, <3>2, ReferenceReleased
  <2>2. CASE ~proc[role(t)].held
    BY <1>1, <1>w, <2>2 DEF Settle, ResourcesOK
  <2> QED
    BY <2>1, <2>2
<1>o. PICK x \in SUBSET {"exit", "error"} :
        \/ /\ stage[t] # "target" /\ stage' = [stage EXCEPT ![t] = after(t)] /\ res' = res
           /\ passed' = passed \cup {stage[t]}
        \/ /\ stage' = [stage EXCEPT ![t] = unwind(t)] /\ res' = [res EXCEPT ![t] = @ \cup x]
           /\ passed' = passed /\ (stage[t] # "target" => x # {})
  <2>1. verdicts(t) \subseteq {"ok", "exit", "error"}
    BY DEF verdicts, exitStatus, verifyDevinSkills, verifyDevinRules, verifyDevinAuthentication,
       AcceptsOutput
  <2>2. PICK v \in {"ok", "exit", "error"} :
          IF v = "ok" /\ stage[t] # "target"
          THEN /\ stage' = [stage EXCEPT ![t] = after(t)] /\ passed' = passed \cup {stage[t]} /\ res' = res
          ELSE /\ stage' = [stage EXCEPT ![t] = unwind(t)] /\ res' = [res EXCEPT ![t] = @ \cup ({v} \ {"ok"})]
               /\ passed' = passed
    BY <2>1 DEF Settle
  <2>3. {v} \ {"ok"} \in SUBSET {"exit", "error"} /\ (v # "ok" => {v} \ {"ok"} # {})
    OBVIOUS
  <2> QED
    BY <2>2, <2>3
<1>u. unwind(t) = IF t = "main" /\ stage[t] \in {"skills", "rules"} THEN "join" ELSE "remove"
  BY DEF unwind
<1>b. /\ stage[t] = "auth" => t = "worker" /\ after(t) = "remove"
      /\ stage[t] = "skills" => t = "main" /\ after(t) = "rules"
      /\ stage[t] = "rules" => t = "main" /\ after(t) = "join"
      /\ stage[t] = "version" => t = "main" /\ after(t) = "login"
  BY <1>1, <1>3, <1>w DEF Places, after, afterDevin, afterWorker, afterGrok, afterAttached, Kinds,
     Threads, Probing
<1>h. \A q \in Roles : proc[q].st = "none" => ~proc[q].held
  BY <1>1 DEF Processes, ProcessInv, NoProcess
<1>f. faults' \in 0..MaxFaults
  BY <1>1, FaultBounds DEF Settle, Working, own, releaseReference, removeLocked, NoProcess, unwind,
     IntakeOK, control, intake
<1>A. ControlOK'
  <2>1. stage' \in [Threads -> Stages]
    <3>1. unwind(t) \in Stages /\ (stage[t] # "target" => after(t) \in Stages)
      BY <1>w, <1>u, <1>b DEF Stages, Probing, Threads
    <3> QED
      BY <1>3, <1>o, <3>1
  <2>2. res' \in [Threads -> SUBSET {"exit", "error", "cleanup"}]
    <3>1. res \in [Threads -> SUBSET {"exit", "error", "cleanup"}]
      BY <1>1 DEF ControlOK
    <3>2. res[t] \cup x \in SUBSET {"exit", "error", "cleanup"}
      BY <3>1
    <3> QED
      BY <1>o, <3>1, <3>2
  <2>3. passed' \subseteq {"skills", "rules", "auth", "version", "login"}
    BY <1>1, <1>w, <1>o DEF ControlOK, Probing, Threads
  <2> QED
    BY <1>1, <1>3, <2>1, <2>2, <2>3 DEF ControlOK
<1>B. ResourcesOK'
  BY <1>p, <1>e DEF ResourcesOK
<1>C. IntakeOK'
  BY <1>1, <1>f DEF Settle, IntakeOK, control, intake
<1>D. Places'
  BY <1>1, <1>3, <1>o, <1>w, <1>u, <1>b DEF ControlOK, Places, interactive, Early, Probing, InUse,
     PreTarget, Leaving, Threads
<1>E. Handles'
  <2>1. CASE t = "worker"
    <3>1. /\ role(t) = "auth" /\ stage["worker"] = "auth" /\ own(t) = "side"
          /\ proc'["probe"] = proc["probe"] /\ proc'["target"] = proc["target"]
      BY <1>w, <1>p, <2>1 DEF Roles
    <3> QED
      BY <1>1, <1>w, <1>3, <1>p, <1>o, <1>u, <1>b, <2>1, <3>1 DEF ControlOK, Handles, Handle,
         NoProcess, Places, Early, Probing, InUse, PreTarget, Leaving, Threads
  <2>2. CASE t = "main" /\ stage[t] = "target"
    <3>1. /\ role(t) = "target" /\ stage["main"] = "target" /\ own(t) = "main"
          /\ proc'["probe"] = proc["probe"] /\ proc'["auth"] = proc["auth"]
      BY <1>w, <1>p, <2>2 DEF Roles
    <3> QED
      BY <1>1, <1>w, <1>3, <1>p, <1>o, <1>u, <1>b, <2>2, <3>1 DEF ControlOK, Handles, Handle,
         NoProcess, Places, Early, Probing, InUse, PreTarget, Leaving, Threads
  <2>3. CASE t = "main" /\ stage[t] \in Probing
    <3>1. /\ role(t) = "probe" /\ stage["main"] \in Probing /\ own(t) = "main"
          /\ proc'["target"] = proc["target"] /\ proc'["auth"] = proc["auth"]
      BY <1>w, <1>p, <2>3 DEF Roles, Probing
    <3> QED
      BY <1>1, <1>w, <1>3, <1>p, <1>o, <1>u, <1>b, <2>3, <3>1 DEF ControlOK, Handles, Handle,
         NoProcess, Places, Early, Probing, InUse, PreTarget, Leaving, Threads
  <2>4. QED
    BY <1>w, <2>1, <2>2, <2>3 DEF Threads
<1>F. Processes'
  BY <1>1, <1>w, <1>3, <1>p DEF Processes, ProcessInv, NoProcess, Threads
<1>G. References'
  <2>1. /\ holders(own(t))' = IF proc[role(t)].held THEN holders(own(t)) - 1 ELSE holders(own(t))
        /\ \A s \in Sessions \ {own(t)} : holders(s)' = holders(s)
    BY <1>w, <1>3, <1>p DEF holders, one, NoProcess, Threads, Sessions, Roles
  <2>2. \A s \in Sessions : holders(s) \in 0..2
    BY DEF holders, one
  <2>3. \A s \in Sessions : ReferenceInv(s)'
    BY <1>1, <1>w, <1>e, <2>1, <2>2 DEF References, ReferenceInv, one, holders
  <2> QED
    BY <1>1, <1>w, <1>3, <1>o, <1>e, <1>u, <1>b, <2>3 DEF References, own, Sessions, Early, Probing,
       InUse, PreTarget, Leaving, Threads
<1>H. Passed'
  <2>1. CASE t = "worker"
    <3>1. /\ role(t) = "auth" /\ stage["worker"] = "auth" /\ own(t) = "side"
          /\ proc'["probe"] = proc["probe"] /\ proc'["target"] = proc["target"]
      BY <1>w, <1>p, <2>1 DEF Roles
    <3> QED
      BY <1>1, <1>w, <1>3, <1>p, <1>o, <1>u, <1>b, <2>1, <3>1 DEF ControlOK, Passed, NoProcess, Places,
         Early, Probing, InUse, PreTarget, Leaving, Threads
  <2>2. CASE t = "main" /\ stage[t] = "target"
    <3>1. /\ role(t) = "target" /\ stage["main"] = "target" /\ own(t) = "main"
          /\ proc'["probe"] = proc["probe"] /\ proc'["auth"] = proc["auth"]
      BY <1>w, <1>p, <2>2 DEF Roles
    <3> QED
      BY <1>1, <1>w, <1>3, <1>p, <1>o, <1>u, <1>b, <2>2, <3>1 DEF ControlOK, Passed, NoProcess, Places,
         Early, Probing, InUse, PreTarget, Leaving, Threads
  <2>3. CASE t = "main" /\ stage[t] \in Probing
    <3>1. /\ role(t) = "probe" /\ stage["main"] \in Probing /\ own(t) = "main"
          /\ proc'["target"] = proc["target"] /\ proc'["auth"] = proc["auth"]
      BY <1>w, <1>p, <2>3 DEF Roles, Probing
    <3> QED
      BY <1>1, <1>w, <1>3, <1>p, <1>o, <1>u, <1>b, <2>3, <3>1 DEF ControlOK, Passed, NoProcess, Places,
         Early, Probing, InUse, PreTarget, Leaving, Threads
  <2>4. QED
    BY <1>w, <2>1, <2>2, <2>3 DEF Threads
<1>I. Lease'
  <2>1. CASE t = "worker"
    <3>1. /\ role(t) = "auth" /\ stage["worker"] = "auth" /\ own(t) = "side"
          /\ proc'["probe"] = proc["probe"] /\ proc'["target"] = proc["target"]
      BY <1>w, <1>p, <2>1 DEF Roles
    <3> QED
      BY <1>1, <1>w, <1>3, <1>p, <1>o, <1>u, <1>b, <2>1, <3>1 DEF ControlOK, Lease, interactive,
         NoProcess, Places, Early, Probing, InUse, PreTarget, Leaving, Threads
  <2>2. CASE t = "main" /\ stage[t] = "target"
    <3>1. /\ role(t) = "target" /\ stage["main"] = "target" /\ own(t) = "main"
          /\ proc'["probe"] = proc["probe"] /\ proc'["auth"] = proc["auth"]
      BY <1>w, <1>p, <2>2 DEF Roles
    <3> QED
      BY <1>1, <1>w, <1>3, <1>p, <1>o, <1>u, <1>b, <2>2, <3>1 DEF ControlOK, Lease, interactive,
         NoProcess, Places, Early, Probing, InUse, PreTarget, Leaving, Threads
  <2>3. CASE t = "main" /\ stage[t] \in Probing
    <3>1. /\ role(t) = "probe" /\ stage["main"] \in Probing /\ own(t) = "main"
          /\ proc'["target"] = proc["target"] /\ proc'["auth"] = proc["auth"]
      BY <1>w, <1>p, <2>3 DEF Roles, Probing
    <3> QED
      BY <1>1, <1>w, <1>3, <1>p, <1>o, <1>u, <1>b, <2>3, <3>1 DEF ControlOK, Lease, interactive,
         NoProcess, Places, Early, Probing, InUse, PreTarget, Leaving, Threads
  <2>4. QED
    BY <1>w, <2>1, <2>2, <2>3 DEF Threads
<1>J. Outcomes'
  <2>1. CASE t = "worker"
    <3>1. /\ role(t) = "auth" /\ stage["worker"] = "auth" /\ own(t) = "side"
          /\ proc'["probe"] = proc["probe"] /\ proc'["target"] = proc["target"]
      BY <1>w, <1>p, <2>1 DEF Roles
    <3> QED
      BY <1>1, <1>w, <1>3, <1>p, <1>o, <1>u, <1>b, <1>e, <1>h, <2>1, <3>1 DEF ControlOK, Outcomes, own,
         Sessions, NoProcess, Places, Roles, Early, Probing, InUse, PreTarget, Leaving, Threads
  <2>2. CASE t = "main" /\ stage[t] = "target"
    <3>1. /\ role(t) = "target" /\ stage["main"] = "target" /\ own(t) = "main"
          /\ proc'["probe"] = proc["probe"] /\ proc'["auth"] = proc["auth"]
      BY <1>w, <1>p, <2>2 DEF Roles
    <3> QED
      BY <1>1, <1>w, <1>3, <1>p, <1>o, <1>u, <1>b, <1>e, <1>h, <2>2, <3>1 DEF ControlOK, Outcomes, own,
         Sessions, NoProcess, Places, Roles, Early, Probing, InUse, PreTarget, Leaving, Threads
  <2>3. CASE t = "main" /\ stage[t] \in Probing
    <3>1. /\ role(t) = "probe" /\ stage["main"] \in Probing /\ own(t) = "main"
          /\ proc'["target"] = proc["target"] /\ proc'["auth"] = proc["auth"]
      BY <1>w, <1>p, <2>3 DEF Roles, Probing
    <3> QED
      BY <1>1, <1>w, <1>3, <1>p, <1>o, <1>u, <1>b, <1>e, <1>h, <2>3, <3>1 DEF ControlOK, Outcomes, own,
         Sessions, NoProcess, Places, Roles, Early, Probing, InUse, PreTarget, Leaving, Threads
  <2>4. QED
    BY <1>w, <2>1, <2>2, <2>3 DEF Threads
<1>K. Intake'
  BY <1>1, <1>w, <1>3, <1>o, <1>u, <1>b DEF ControlOK, Intake, devin, Handles, Places, Early, Probing,
     InUse, PreTarget, Leaving, Threads
<1>L. QED
  BY <1>A, <1>B, <1>C, <1>D, <1>E, <1>F, <1>G, <1>H, <1>I, <1>J, <1>K DEF IndInv

\* An unproven cleanup keeps the reference and is reported.
LEMMA SettleUnprovenHolds == ASSUME IndInv, NEW t \in Threads, SettleUnproven(t) PROVE IndInv'
<1>1. /\ ControlOK /\ ResourcesOK /\ IntakeOK /\ Places /\ Handles /\ Processes /\ References
      /\ Passed /\ Lease /\ Outcomes /\ Intake
  BY DEF IndInv
<1>f. faults' \in 0..MaxFaults
  BY <1>1, FaultBounds DEF SettleUnproven, Working, Fail, unwind, IntakeOK, control, intake
<1>A. ControlOK'
  BY <1>1, <1>f DEF SettleUnproven, Working, Fault, Fail, unwind, ControlOK, Stages, Kinds, Threads,
     control, intake, Places, after, afterDevin, afterWorker, afterGrok, afterAttached, role, verdicts,
     exitStatus, verifyDevinSkills, verifyDevinRules, verifyDevinAuthentication, AcceptsOutput
<1>B. ResourcesOK'
  BY <1>1 DEF SettleUnproven, ResourcesOK, Process, SessionState, Threads, Sessions, Roles, control,
     intake
<1>C. IntakeOK'
  BY <1>1, <1>f DEF SettleUnproven, IntakeOK, control, intake
<1>D. Places'
  BY <1>1, <1>f DEF SettleUnproven, Working, Fault, Fail, unwind, Places, Early, Probing, InUse,
     PreTarget, Leaving, interactive, Threads, control, intake, ControlOK, after, afterDevin,
     afterWorker, afterGrok, afterAttached, role, devin
<1>E. Handles'
  BY <1>1, <1>f DEF SettleUnproven, Working, Fault, Fail, unwind, Handles, Early, Probing, InUse,
     PreTarget, Leaving, Handle, Threads, control, intake, ControlOK, ResourcesOK, Process, Places,
     Processes, ProcessInv, NoProcess, after, afterDevin, afterWorker, afterGrok, afterAttached, role,
     Roles
<1>F. Processes'
  BY <1>1 DEF SettleUnproven, Processes, ProcessInv, Roles, NoProcess, control, intake
<1>G. References'
  BY <1>1, <1>f DEF SettleUnproven, Working, Fault, Fail, unwind, References, ReferenceInv, holders,
     one, own, Threads, Sessions, Roles, Early, Probing, InUse, PreTarget, Leaving, control, intake,
     ControlOK, ResourcesOK, Process, SessionState, Places, Handles, Handle, Processes, ProcessInv,
     NoProcess, role, after, afterDevin, afterWorker, afterGrok, afterAttached
<1>H. Passed'
  BY <1>1, <1>f DEF SettleUnproven, Working, Fault, Fail, unwind, Passed, Early, Probing, InUse,
     PreTarget, Leaving, preflights, Threads, control, intake, ControlOK, ResourcesOK, Process, Places,
     Handles, NoProcess, role, after, afterDevin, afterWorker, afterGrok, afterAttached, interactive,
     Kinds, Roles
<1>I. Lease'
  BY <1>1, <1>f DEF SettleUnproven, Working, Fault, Fail, unwind, Lease, Early, Probing, InUse,
     PreTarget, Leaving, interactive, Threads, control, intake, ControlOK, ResourcesOK, Process,
     Places, Handles, NoProcess, role, after, afterDevin, afterWorker, afterGrok, afterAttached, Roles
<1>J. Outcomes'
  BY <1>1, <1>f DEF SettleUnproven, Working, Fault, Fail, unwind, Outcomes, Early, Probing, InUse,
     PreTarget, Leaving, own, Threads, Sessions, control, intake, ControlOK, ResourcesOK, Process,
     SessionState, Places, Handles, Handle, Processes, ProcessInv, References, ReferenceInv, holders,
     one, NoProcess, role, after, afterDevin, afterWorker, afterGrok, afterAttached, Roles
<1>K. Intake'
  BY <1>1, <1>f DEF SettleUnproven, Working, Fault, Fail, unwind, Intake, Early, Probing, InUse,
     PreTarget, Leaving, Threads, devin, control, intake, ControlOK, IntakeOK, Supervisor, Places,
     Handles, role, after, afterDevin, afterWorker, afterGrok, afterAttached, Kinds, interactive
<1>L. QED
  BY <1>A, <1>B, <1>C, <1>D, <1>E, <1>F, <1>G, <1>H, <1>I, <1>J, <1>K DEF IndInv

\* The worker's outcome becomes the caller's, so that its cleanup problem is not lost.
LEMMA JoinHolds == ASSUME IndInv, Join PROVE IndInv'
<1>1. /\ ControlOK /\ ResourcesOK /\ IntakeOK /\ Places /\ Handles /\ Processes /\ References
      /\ Passed /\ Lease /\ Outcomes /\ Intake
  BY DEF IndInv
<1>A. ControlOK'
  BY <1>1 DEF Join, ControlOK, Stages, Kinds, Threads, control, intake, Places, after, afterDevin,
     afterWorker, afterGrok, afterAttached, role, verdicts, exitStatus, verifyDevinSkills,
     verifyDevinRules, verifyDevinAuthentication, AcceptsOutput
<1>B. ResourcesOK'
  BY <1>1 DEF Join, ResourcesOK, Process, SessionState, Threads, Sessions, Roles, control, intake
<1>C. IntakeOK'
  BY <1>1 DEF Join, IntakeOK, Supervisor, control, intake
<1>D. Places'
  BY <1>1 DEF Join, Places, Early, Probing, InUse, PreTarget, Leaving, interactive, Threads, control,
     intake, ControlOK, after, afterDevin, afterWorker, afterGrok, afterAttached, role, devin
<1>E. Handles'
  BY <1>1 DEF Join, Handles, Early, Probing, InUse, PreTarget, Leaving, Handle, Threads, control,
     intake, ControlOK, ResourcesOK, Process, Places, Processes, ProcessInv, NoProcess, after,
     afterDevin, afterWorker, afterGrok, afterAttached, role, Roles
<1>F. Processes'
  BY <1>1 DEF Join, Processes, ProcessInv, Roles, NoProcess, control, intake
<1>G. References'
  BY <1>1 DEF Join, References, ReferenceInv, holders, one, own, Threads, Sessions, Roles, Early,
     Probing, InUse, PreTarget, Leaving, control, intake, ControlOK, ResourcesOK, Process,
     SessionState, Places, Handles, Handle, Processes, ProcessInv, NoProcess, role, after, afterDevin,
     afterWorker, afterGrok, afterAttached
<1>H. Passed'
  BY <1>1 DEF Join, Passed, Early, Probing, InUse, PreTarget, Leaving, preflights, Threads, control,
     intake, ControlOK, ResourcesOK, Process, Places, Handles, NoProcess, role, after, afterDevin,
     afterWorker, afterGrok, afterAttached, interactive, Kinds, Roles
<1>I. Lease'
  BY <1>1 DEF Join, Lease, Early, Probing, InUse, PreTarget, Leaving, interactive, Threads, control,
     intake, ControlOK, ResourcesOK, Process, Places, Handles, NoProcess, role, after, afterDevin,
     afterWorker, afterGrok, afterAttached, Roles
<1>J. Outcomes'
  BY <1>1 DEF Join, Outcomes, Early, Probing, InUse, PreTarget, Leaving, own, Threads, Sessions,
     control, intake, ControlOK, ResourcesOK, Process, SessionState, Places, Handles, Handle,
     Processes, ProcessInv, References, ReferenceInv, holders, one, NoProcess, role, after, afterDevin,
     afterWorker, afterGrok, afterAttached, Roles
<1>K. Intake'
  BY <1>1 DEF Join, Intake, Early, Probing, InUse, PreTarget, Leaving, Threads, devin, control, intake,
     ControlOK, IntakeOK, Supervisor, Places, Handles, role, after, afterDevin, afterWorker, afterGrok,
     afterAttached, Kinds, interactive
<1>L. QED
  BY <1>A, <1>B, <1>C, <1>D, <1>E, <1>F, <1>G, <1>H, <1>I, <1>J, <1>K DEF IndInv

\* The owner's reference goes: what is still held by a process was reported before.
LEMMA RemoveHolds == ASSUME IndInv, NEW t \in Threads, Remove(t) PROVE IndInv'
<1>1. /\ ControlOK /\ ResourcesOK /\ IntakeOK /\ Places /\ Handles /\ Processes /\ References
      /\ Passed /\ Lease /\ Outcomes /\ Intake
  BY DEF IndInv
<1>3. /\ stage[t] = "remove" /\ own(t) \in Sessions /\ sub[t] = "none"
      /\ ses[own(t)].st = "live" /\ ~ses[own(t)].asked /\ ses[own(t)].refs = holders(own(t)) + 1
      /\ stage' = [stage EXCEPT ![t] = IF t = "main" THEN "release" ELSE "finished"]
      /\ sub' = sub /\ kind' = kind /\ env' = env /\ passed' = passed /\ preflights' = preflights
      /\ proc' = proc /\ accepted' = accepted /\ cancelled' = cancelled /\ hit' = hit
  BY <1>1 DEF Remove, Go, own, Sessions, Threads, preflights, Handles, Probing, References,
     ReferenceInv, one, InUse
<1>e. /\ ses' \in [Sessions -> SessionState] /\ \A s \in Sessions \ {own(t)} : ses'[s] = ses[s]
      /\ ses'[own(t)].asked
      /\ \/ /\ ses[own(t)].refs = 1 /\ ses'[own(t)].st \in {"gone", "kept"} /\ ses'[own(t)].refs = 0
         \/ /\ ses[own(t)].refs # 1 /\ ses'[own(t)].st = "live" /\ ses'[own(t)].refs = ses[own(t)].refs - 1
  <2>1. CASE ses[own(t)].refs = 1
    <3>1. removeLocked(own(t))
      BY <2>1 DEF Remove
    <3> QED
      BY <1>1, <1>3, <2>1, <3>1, SessionRemoved
  <2>2. CASE ses[own(t)].refs # 1
    <3> DEFINE n == ses[own(t)].refs - 1
               r1 == [ses[own(t)] EXCEPT !.refs = n]
               r2 == [r1 EXCEPT !.asked = TRUE]
    <3>1. holders(own(t)) \in 0..2
      BY DEF holders, one
    <3>2. n \in 0..3 /\ ses \in [Sessions -> SessionState] /\ ses[own(t)] \in SessionState
      BY <1>1, <1>3, <3>1 DEF ResourcesOK, SessionState
    <3>3. r1 \in SessionState /\ r1.refs = n /\ r1.st = ses[own(t)].st
      BY <3>2 DEF SessionState
    <3>4. r2 \in SessionState /\ r2.refs = n /\ r2.st = ses[own(t)].st /\ r2.asked
      BY <3>3 DEF SessionState
    <3>5. ses' = [ses EXCEPT ![own(t)] = r2]
      BY <1>3, <2>2, <3>2 DEF Remove
    <3> HIDE DEF r1, r2
    <3> QED
      BY <1>3, <2>2, <3>2, <3>4, <3>5
  <2> QED
    BY <2>1, <2>2
<1>o. /\ \A x \in Threads \ {t} : res'[x] = res[x]
      /\ res'[t] \in SUBSET {"exit", "error", "cleanup"} /\ ("cleanup" \in res[t] => "cleanup" \in res'[t])
      /\ (ses'[own(t)].st = "kept" => "cleanup" \in res'[t])
      /\ (res[t] = {} => res'[t] = {} \/ "cleanup" \in res'[t])
      /\ res' \in [Threads -> SUBSET {"exit", "error", "cleanup"}]
  BY <1>1 DEF Remove, cleanupPrecedence, ControlOK
<1>h. /\ t = "main" => sub["main"] = "none" /\ stage["worker"] \in {"off", "finished"} /\ stage'["worker"] = stage["worker"]
      /\ t = "worker" => stage'["main"] = stage["main"]
  BY <1>1, <1>3 DEF Places, Threads, ControlOK
<1>f. faults' \in 0..MaxFaults
  BY <1>1, FaultBounds DEF Remove, own, removeLocked, cleanupPrecedence, beginCleanup, Go, IntakeOK,
     control, intake
<1>s. /\ sup' \in Supervisor /\ sup'.interrupts = sup.interrupts
      /\ sup'.on = sup.on /\ sup'.pending = sup.pending /\ (sup'.starting => sup.starting)
      /\ t = "worker" => sup' = sup
  BY <1>1, CleanupBegins DEF Remove, IntakeOK, Threads
<1>A. ControlOK'
  BY <1>1, <1>3, <1>o DEF ControlOK, Stages
<1>B. ResourcesOK'
  BY <1>1, <1>3, <1>e DEF ResourcesOK
<1>C. IntakeOK'
  BY <1>1, <1>f, <1>s DEF Remove, IntakeOK, control, intake
<1>D. Places'
  BY <1>1, <1>3, <1>o DEF ControlOK, Places, interactive, Early, Probing, InUse, PreTarget, Leaving,
     Threads
<1>E. Handles'
  BY <1>1, <1>3, <1>o DEF ControlOK, Handles, Handle, Places, Early, Probing, InUse, PreTarget,
     Leaving, Threads
<1>F. Processes'
  BY <1>1 DEF Remove, Processes, ProcessInv, Roles, NoProcess, control, intake
<1>G. References'
  <2>1. \A s \in Sessions : holders(s)' = holders(s) /\ holders(s) \in 0..2
    BY <1>3 DEF holders, one
  <2>2. \A s \in Sessions : ReferenceInv(s)'
    BY <1>1, <1>3, <1>e, <2>1 DEF References, ReferenceInv, one, holders
  <2> QED
    BY <1>1, <1>3, <1>e, <2>2 DEF ControlOK, References, own, Sessions, Early, Probing, InUse,
       PreTarget, Leaving, Threads
<1>H. Passed'
  BY <1>1, <1>3, <1>o, <1>h DEF ControlOK, Passed, Places, Early, Probing, InUse, PreTarget, Leaving,
     Threads
<1>I. Lease'
  BY <1>1, <1>3 DEF ControlOK, Lease, interactive, Places, Early, Probing, InUse, PreTarget, Leaving,
     Threads
<1>J. Outcomes'
  <2>1. holders("main") # 0 => proc["probe"].held \/ proc["target"].held
    BY DEF holders, one
  <2>2. holders("side") # 0 => proc["auth"].held
    BY DEF holders, one
  <2>3. \A x \in Threads : ses'[own(x)].st = "kept" \/ (ses'[own(x)].st = "live" /\ ses'[own(x)].asked)
                         => "cleanup" \in res'[x]
    BY <1>1, <1>3, <1>e, <1>o, <2>1, <2>2 DEF Outcomes, own, Sessions, Early, Probing, InUse,
       PreTarget, Leaving, Threads
  <2>4. /\ own(t)' = own(t) /\ \A x \in Threads : own(x)' = own(x)
    BY DEF own
  <2> QED
    BY <1>1, <1>3, <1>o, <2>3, <2>4 DEF ControlOK, Outcomes, Places, Early, Probing, InUse, PreTarget,
       Leaving, Threads
<1>K. Intake'
  <2>1. CASE t = "main"
    BY <1>1, <1>3, <1>s, <1>h, <2>1 DEF ControlOK, Intake, devin, Early, Probing, InUse, PreTarget,
       Leaving, Threads
  <2>2. CASE t = "worker"
    BY <1>1, <1>3, <1>s, <1>h, <1>o, <2>2 DEF ControlOK, Intake, devin, Early, Probing, InUse, PreTarget,
       Leaving, Threads
  <2> QED
    BY <2>1, <2>2 DEF Threads
<1>L. QED
  BY <1>A, <1>B, <1>C, <1>D, <1>E, <1>F, <1>G, <1>H, <1>I, <1>J, <1>K DEF IndInv

LEMMA ReturnHolds == ASSUME IndInv, Return PROVE IndInv'
<1>1. /\ ControlOK /\ ResourcesOK /\ IntakeOK /\ Places /\ Handles /\ Processes /\ References
      /\ Passed /\ Lease /\ Outcomes /\ Intake
  BY DEF IndInv
<1>s. sup' \in Supervisor /\ sup'.interrupts = sup.interrupts
  BY <1>1, CleanupBegins DEF Return, Go, IntakeOK, control, intake, Supervisor
<1>A. ControlOK'
  BY <1>1, <1>s DEF Return, Go, ControlOK, Stages, Kinds, Threads, control, intake, Places, after,
     afterDevin, afterWorker, afterGrok, afterAttached, role, verdicts, exitStatus, verifyDevinSkills,
     verifyDevinRules, verifyDevinAuthentication, AcceptsOutput
<1>B. ResourcesOK'
  BY <1>1 DEF Return, ResourcesOK, Process, SessionState, Threads, Sessions, Roles, control, intake
<1>C. IntakeOK'
  BY <1>1, <1>s DEF Return, Go, IntakeOK, Supervisor, control, intake, ControlOK, role
<1>D. Places'
  BY <1>1, <1>s DEF Return, Go, Places, Early, Probing, InUse, PreTarget, Leaving, interactive,
     Threads, control, intake, ControlOK, after, afterDevin, afterWorker, afterGrok, afterAttached,
     role, devin
<1>E. Handles'
  BY <1>1, <1>s DEF Return, Go, Handles, Early, Probing, InUse, PreTarget, Leaving, Handle, Threads,
     control, intake, ControlOK, ResourcesOK, Process, Places, Processes, ProcessInv, NoProcess, after,
     afterDevin, afterWorker, afterGrok, afterAttached, role, Roles
<1>F. Processes'
  BY <1>1 DEF Return, Processes, ProcessInv, Roles, NoProcess, control, intake
<1>G. References'
  BY <1>1, <1>s DEF Return, Go, References, ReferenceInv, holders, one, own, Threads, Sessions, Roles,
     Early, Probing, InUse, PreTarget, Leaving, control, intake, ControlOK, ResourcesOK, Process,
     SessionState, Places, Handles, Handle, Processes, ProcessInv, NoProcess, role, after, afterDevin,
     afterWorker, afterGrok, afterAttached
<1>H. Passed'
  BY <1>1, <1>s DEF Return, Go, Passed, Early, Probing, InUse, PreTarget, Leaving, preflights, Threads,
     control, intake, ControlOK, ResourcesOK, Process, Places, Handles, NoProcess, role, after,
     afterDevin, afterWorker, afterGrok, afterAttached, interactive, Kinds, Roles
<1>I. Lease'
  BY <1>1, <1>s DEF Return, Go, Lease, Early, Probing, InUse, PreTarget, Leaving, interactive, Threads,
     control, intake, ControlOK, ResourcesOK, Process, Places, Handles, NoProcess, role, after,
     afterDevin, afterWorker, afterGrok, afterAttached, Roles
<1>J. Outcomes'
  BY <1>1, <1>s DEF Return, Go, Outcomes, Early, Probing, InUse, PreTarget, Leaving, own, Threads,
     Sessions, control, intake, ControlOK, ResourcesOK, Process, SessionState, Places, Handles, Handle,
     Processes, ProcessInv, References, ReferenceInv, holders, one, NoProcess, role, after, afterDevin,
     afterWorker, afterGrok, afterAttached, Roles
<1>K. Intake'
  BY <1>1, <1>s DEF Return, Go, Intake, Early, Probing, InUse, PreTarget, Leaving, Threads, devin,
     control, intake, ControlOK, IntakeOK, Supervisor, Places, Handles, role, after, afterDevin,
     afterWorker, afterGrok, afterAttached, Kinds, interactive
<1>L. QED
  BY <1>A, <1>B, <1>C, <1>D, <1>E, <1>F, <1>G, <1>H, <1>I, <1>J, <1>K DEF IndInv

\* The background gives a reference back; it may be the last of a Session to be removed.
LEMMA ReleaseAfterCleanupHolds == ASSUME IndInv, NEW r \in Roles, ReleaseAfterCleanup(r) PROVE IndInv'
<1>1. /\ ControlOK /\ ResourcesOK /\ IntakeOK /\ Places /\ Handles /\ Processes /\ References
      /\ Passed /\ Lease /\ Outcomes /\ Intake
  BY DEF IndInv
<1>3. PICK s \in Sessions :
      /\ s = proc[r].ses /\ proc[r].held /\ proc[r].clean = "done" /\ stage["main"] # "forced" /\ releaseReference(s)
      /\ stage' = stage /\ sub' = sub /\ res' = res /\ kind' = kind /\ env' = env
      /\ passed' = passed /\ preflights' = preflights
      /\ s = IF r = "auth" THEN "side" ELSE "main"
      /\ ses[s].st = "live" /\ ses[s].refs > 0
  BY <1>1, HolderHasSession DEF ReleaseAfterCleanup, control, preflights
<1>p. /\ proc[r].held
      /\ proc' \in [Roles -> Process] /\ \A q \in Roles \ {r} : proc'[q] = proc[q]
      /\ proc'[r].st = proc[r].st /\ proc'[r].ses = proc[r].ses /\ proc'[r].tree = proc[r].tree
      /\ proc'[r].clean = proc[r].clean /\ proc'[r].held = FALSE
  <2> DEFINE p == [proc[r] EXCEPT !.held = FALSE]
  <2>1. /\ proc[r].held
        /\ proc \in [Roles -> Process] /\ proc[r] \in Process
    BY <1>1 DEF ReleaseAfterCleanup, ResourcesOK
  <2>2. p \in Process /\ p.st = proc[r].st /\ p.ses = proc[r].ses /\ p.tree = proc[r].tree /\ p.clean = proc[r].clean /\ p.held = FALSE
    BY <2>1 DEF Process
  <2>3. proc' = [proc EXCEPT ![r] = p]
    BY DEF ReleaseAfterCleanup
  <2> HIDE DEF p
  <2> QED
    BY <2>1, <2>2, <2>3
<1>e. /\ ses' \in [Sessions -> SessionState] /\ \A x \in Sessions \ {s} : ses'[x] = ses[x]
      /\ \/ /\ ses[s].refs = 1 /\ ses[s].asked
            /\ ses'[s].st \in {"gone", "kept"} /\ ses'[s].refs = 0
            /\ ses'[s].asked
         \/ /\ ~(ses[s].refs = 1 /\ ses[s].asked)
            /\ ses'[s].refs = ses[s].refs - 1
            /\ ses'[s].st = ses[s].st
            /\ ses'[s].asked = ses[s].asked
  BY <1>1, <1>3, ReferenceReleased
<1>q. \A q \in Roles : /\ proc'[q].ses = proc[q].ses /\ proc'[q].clean = proc[q].clean
                      /\ proc'[q].st = proc[q].st /\ (proc'[q].held => proc[q].held)
  BY <1>p
<1>f. faults' \in 0..MaxFaults
  BY <1>1, FaultBounds DEF ReleaseAfterCleanup, releaseReference, removeLocked, IntakeOK, control,
     intake
<1>A. ControlOK'
  BY <1>1 DEF ReleaseAfterCleanup, ControlOK, Stages, Kinds, Threads, control, intake
<1>B. ResourcesOK'
  BY <1>p, <1>e DEF ResourcesOK
<1>C. IntakeOK'
  BY <1>1, <1>f DEF ReleaseAfterCleanup, IntakeOK, control, intake
<1>D. Places'
  BY <1>1 DEF ReleaseAfterCleanup, Places, Early, Probing, InUse, PreTarget, Leaving, interactive,
     Threads, control, intake
<1>E. Handles'
  BY <1>1, <1>3, <1>q DEF Handles, Handle, Roles
<1>F. Processes'
  BY <1>1, <1>3, <1>p DEF Processes, ProcessInv
<1>G. References'
  <2>1. /\ holders(s)' = holders(s) - 1 /\ holders(s) > 0
        /\ \A x \in Sessions \ {s} : holders(x)' = holders(x)
    BY <1>3, <1>p DEF holders, one, Sessions, Roles
  <2>2. \A x \in Sessions : holders(x) \in 0..2
    BY DEF holders, one
  <2>3. ReferenceInv(s)'
    <3>1. ses[s].refs = holders(s) + (IF ses[s].asked THEN 0 ELSE 1)
      BY <1>1, <1>3 DEF References, ReferenceInv, one
    <3> QED
      BY <1>3, <1>e, <2>1, <2>2, <3>1 DEF ReferenceInv, one
  <2>4. \A x \in Sessions \ {s} : ReferenceInv(x)'
    BY <1>1, <1>e, <2>1 DEF References, ReferenceInv, one
  <2> QED
    BY <1>1, <1>3, <1>e, <2>3, <2>4 DEF References, own, Sessions, Early, Probing, InUse, PreTarget,
       Leaving, Threads
<1>H. Passed'
  BY <1>1, <1>3, <1>q DEF Passed, Roles
<1>I. Lease'
  BY <1>1, <1>3, <1>q DEF Lease, interactive, Roles
<1>J. Outcomes'
  BY <1>1, <1>3, <1>q, <1>e DEF Outcomes, own, Sessions, Roles, Threads, Early, Probing, InUse,
     PreTarget, Leaving
<1>K. Intake'
  BY <1>1 DEF ReleaseAfterCleanup, Intake, Early, Probing, InUse, PreTarget, Leaving, Threads, devin,
     control, intake
<1>L. QED
  BY <1>A, <1>B, <1>C, <1>D, <1>E, <1>F, <1>G, <1>H, <1>I, <1>J, <1>K DEF IndInv

LEMMA ReleaseEnvironmentHolds == ASSUME IndInv, ReleaseEnvironment PROVE IndInv'
<1>1. /\ ControlOK /\ ResourcesOK /\ IntakeOK /\ Places /\ Handles /\ Processes /\ References
      /\ Passed /\ Lease /\ Outcomes /\ Intake
  BY DEF IndInv
<1>A. ControlOK'
  BY <1>1 DEF ReleaseEnvironment, ControlOK, Stages, Kinds, Threads, control, intake, Places, after,
     afterDevin, afterWorker, afterGrok, afterAttached, role, verdicts, exitStatus, verifyDevinSkills,
     verifyDevinRules, verifyDevinAuthentication, AcceptsOutput
<1>B. ResourcesOK'
  BY <1>1 DEF ReleaseEnvironment, ResourcesOK, Process, SessionState, Threads, Sessions, Roles,
     control, intake
<1>C. IntakeOK'
  BY <1>1 DEF ReleaseEnvironment, IntakeOK, Supervisor, control, intake
<1>D. Places'
  BY <1>1 DEF ReleaseEnvironment, Places, Early, Probing, InUse, PreTarget, Leaving, interactive,
     Threads, control, intake
<1>E. Handles'
  BY <1>1 DEF ReleaseEnvironment, Handles, Early, Probing, InUse, PreTarget, Leaving, Handle, Threads,
     control, intake
<1>F. Processes'
  BY <1>1 DEF ReleaseEnvironment, Processes, ProcessInv, Roles, NoProcess, control, intake
<1>G. References'
  BY <1>1 DEF ReleaseEnvironment, References, ReferenceInv, holders, one, own, Threads, Sessions,
     Roles, Early, Probing, InUse, PreTarget, Leaving, control, intake
<1>H. Passed'
  BY <1>1 DEF ReleaseEnvironment, Passed, Early, Probing, InUse, PreTarget, Leaving, preflights,
     Threads, control, intake
<1>I. Lease'
  BY <1>1 DEF ReleaseEnvironment, Lease, Early, Probing, InUse, PreTarget, Leaving, interactive,
     Threads, control, intake, ControlOK, ResourcesOK, Process, Places, Handles, NoProcess, role,
     after, afterDevin, afterWorker, afterGrok, afterAttached, Roles
<1>J. Outcomes'
  BY <1>1 DEF ReleaseEnvironment, Outcomes, Early, Probing, InUse, PreTarget, Leaving, own, Threads,
     Sessions, control, intake
<1>K. Intake'
  BY <1>1 DEF ReleaseEnvironment, Intake, Early, Probing, InUse, PreTarget, Leaving, Threads, devin,
     control, intake
<1>L. QED
  BY <1>A, <1>B, <1>C, <1>D, <1>E, <1>F, <1>G, <1>H, <1>I, <1>J, <1>K DEF IndInv

\* A signal is in the channel or counted by the supervisor, so that the count stays bounded.
LEMMA SendHolds == ASSUME IndInv, NEW sig \in {"term", "winch"}, Send(sig) PROVE IndInv'
<1>1. /\ ControlOK /\ ResourcesOK /\ IntakeOK /\ Places /\ Handles /\ Processes /\ References
      /\ Passed /\ Lease /\ Outcomes /\ Intake
  BY DEF IndInv
<1>A. ControlOK'
  BY <1>1 DEF Send, ControlOK, Stages, Kinds, Threads, control, intake
<1>B. ResourcesOK'
  BY <1>1 DEF Send, ResourcesOK, Process, SessionState, Threads, Sessions, Roles, control, intake
<1>C. IntakeOK'
  <2>1. /\ signals' = signals + 1 /\ signals < MaxSignals /\ faults' = faults /\ sup' = sup
        /\ cancelled' = cancelled /\ hit' = hit /\ accepted' = accepted
        /\ lost' \in BOOLEAN /\ chan' \in {"none", "term", "winch"} /\ (chan # "none" => chan' = chan)
    BY <1>1 DEF Send, IntakeOK
  <2>2. /\ sup \in Supervisor /\ faults \in 0..MaxFaults /\ signals \in 0..MaxSignals
        /\ cancelled \in BOOLEAN /\ hit \in BOOLEAN /\ accepted \in BOOLEAN
        /\ sup.interrupts + (IF chan = "none" THEN 0 ELSE 1) <= signals
    BY <1>1 DEF IntakeOK
  <2>3. sup.interrupts \in Nat
    BY <2>2, BoundsAssumption DEF Supervisor
  <2>4. signals' \in 0..MaxSignals /\ sup.interrupts + (IF chan' = "none" THEN 0 ELSE 1) <= signals'
    BY <2>1, <2>2, <2>3, BoundsAssumption
  <2> QED
    BY <2>1, <2>2, <2>4 DEF IntakeOK
<1>D. Places'
  BY <1>1 DEF Send, Places, Early, Probing, InUse, PreTarget, Leaving, interactive, Threads, control,
     intake
<1>E. Handles'
  BY <1>1 DEF Send, Handles, Early, Probing, InUse, PreTarget, Leaving, Handle, Threads, control, intake
<1>F. Processes'
  BY <1>1 DEF Send, Processes, ProcessInv, Roles, NoProcess, control, intake
<1>G. References'
  BY <1>1 DEF Send, References, ReferenceInv, holders, one, own, Threads, Sessions, Roles, Early,
     Probing, InUse, PreTarget, Leaving, control, intake
<1>H. Passed'
  BY <1>1 DEF Send, Passed, Early, Probing, InUse, PreTarget, Leaving, preflights, Threads, control,
     intake
<1>I. Lease'
  BY <1>1 DEF Send, Lease, Early, Probing, InUse, PreTarget, Leaving, interactive, Threads, control,
     intake
<1>J. Outcomes'
  BY <1>1 DEF Send, Outcomes, Early, Probing, InUse, PreTarget, Leaving, own, Threads, Sessions,
     control, intake
<1>K. Intake'
  BY <1>1 DEF Send, Intake, Early, Probing, InUse, PreTarget, Leaving, Threads, devin, control, intake
<1>L. QED
  BY <1>A, <1>B, <1>C, <1>D, <1>E, <1>F, <1>G, <1>H, <1>I, <1>J, <1>K DEF IndInv

\* A termination during Start stays pending whatever resizes follow.
LEMMA handleSignalHolds == ASSUME IndInv, handleSignal PROVE IndInv'
<1>1. /\ ControlOK /\ ResourcesOK /\ IntakeOK /\ Places /\ Handles /\ Processes /\ References
      /\ Passed /\ Lease /\ Outcomes /\ Intake
  BY DEF IndInv
<1>s. /\ sup' \in Supervisor
      /\ sup'.interrupts \in {sup.interrupts, sup.interrupts + 1} /\ sup'.interrupts <= signals
  <2>1. /\ sup \in Supervisor /\ sup.interrupts + 1 <= signals /\ signals \in 0..MaxSignals
        /\ chan \in {"term", "winch"}
    BY <1>1 DEF IntakeOK, handleSignal
  <2>2. sup.interrupts \in 0..MaxSignals /\ sup.interrupts + 1 \in 0..MaxSignals
    BY <2>1, BoundsAssumption DEF Supervisor
  <2>3. pendingAfter(chan) \in {"none", "term", "winch"}
    BY <2>1 DEF pendingAfter, Supervisor
  <2>4. \/ sup' = sup
        \/ sup' = [sup EXCEPT !.interrupts = sup.interrupts + 1]
        \/ sup' = [sup EXCEPT !.pending = pendingAfter(chan)]
        \/ sup' = [sup EXCEPT !.pending = "term"]
    BY DEF handleSignal
  <2> QED
    BY <2>1, <2>2, <2>3, <2>4 DEF Supervisor
<1>A. ControlOK'
  BY <1>1, <1>s DEF handleSignal, Deliver, pendingAfter, exitOnSignal, ControlOK, Stages, Kinds,
     Threads, control, intake, Places, after, afterDevin, afterWorker, afterGrok, afterAttached, role,
     verdicts, exitStatus, verifyDevinSkills, verifyDevinRules, verifyDevinAuthentication,
     AcceptsOutput
<1>B. ResourcesOK'
  BY <1>1 DEF handleSignal, ResourcesOK, Process, SessionState, Threads, Sessions, Roles, control,
     intake
<1>C. IntakeOK'
  <2>1. /\ cancelled' \in BOOLEAN /\ hit' \in BOOLEAN /\ accepted' \in BOOLEAN /\ lost' \in BOOLEAN
        /\ chan' = "none" /\ signals' = signals /\ faults' = faults
    BY <1>1 DEF handleSignal, Deliver, IntakeOK
  <2> QED
    BY <1>1, <1>s, <2>1, BoundsAssumption DEF IntakeOK, Supervisor
<1>D. Places'
  BY <1>1, <1>s DEF handleSignal, Deliver, pendingAfter, exitOnSignal, Places, Early, Probing, InUse,
     PreTarget, Leaving, interactive, Threads, control, intake, ControlOK, after, afterDevin,
     afterWorker, afterGrok, afterAttached, role, devin
<1>E. Handles'
  BY <1>1, <1>s DEF handleSignal, Deliver, pendingAfter, exitOnSignal, Handles, Early, Probing, InUse,
     PreTarget, Leaving, Handle, Threads, control, intake, ControlOK, ResourcesOK, Process, Places,
     Processes, ProcessInv, NoProcess, after, afterDevin, afterWorker, afterGrok, afterAttached, role,
     Roles
<1>F. Processes'
  BY <1>1 DEF handleSignal, Processes, ProcessInv, Roles, NoProcess, control, intake
<1>G. References'
  BY <1>1, <1>s DEF handleSignal, Deliver, pendingAfter, exitOnSignal, References, ReferenceInv,
     holders, one, own, Threads, Sessions, Roles, Early, Probing, InUse, PreTarget, Leaving, control,
     intake, ControlOK, ResourcesOK, Process, SessionState, Places, Handles, Handle, Processes,
     ProcessInv, NoProcess, role, after, afterDevin, afterWorker, afterGrok, afterAttached
<1>H. Passed'
  BY <1>1, <1>s DEF handleSignal, Deliver, pendingAfter, exitOnSignal, Passed, Early, Probing, InUse,
     PreTarget, Leaving, preflights, Threads, control, intake, ControlOK, ResourcesOK, Process, Places,
     Handles, NoProcess, role, after, afterDevin, afterWorker, afterGrok, afterAttached, interactive,
     Kinds, Roles
<1>I. Lease'
  BY <1>1, <1>s DEF handleSignal, Deliver, pendingAfter, exitOnSignal, Lease, Early, Probing, InUse,
     PreTarget, Leaving, interactive, Threads, control, intake, ControlOK, ResourcesOK, Process,
     Places, Handles, NoProcess, role, after, afterDevin, afterWorker, afterGrok, afterAttached, Roles
<1>J. Outcomes'
  BY <1>1, <1>s DEF handleSignal, Deliver, pendingAfter, exitOnSignal, Outcomes, Early, Probing, InUse,
     PreTarget, Leaving, own, Threads, Sessions, control, intake, ControlOK, ResourcesOK, Process,
     SessionState, Places, Handles, Handle, Processes, ProcessInv, References, ReferenceInv, holders,
     one, NoProcess, role, after, afterDevin, afterWorker, afterGrok, afterAttached, Roles
<1>K. Intake'
  BY <1>1, <1>s DEF handleSignal, Deliver, pendingAfter, exitOnSignal, Intake, Early, Probing, InUse,
     PreTarget, Leaving, Threads, devin, control, intake, ControlOK, IntakeOK, Supervisor, Places,
     Handles, role, after, afterDevin, afterWorker, afterGrok, afterAttached, Kinds, interactive
<1>L. QED
  BY <1>A, <1>B, <1>C, <1>D, <1>E, <1>F, <1>G, <1>H, <1>I, <1>J, <1>K DEF IndInv

LEMMA ForwardHolds == ASSUME IndInv, Forward PROVE IndInv'
<1>1. /\ ControlOK /\ ResourcesOK /\ IntakeOK /\ Places /\ Handles /\ Processes /\ References
      /\ Passed /\ Lease /\ Outcomes /\ Intake
  BY DEF IndInv
<1>A. ControlOK'
  BY <1>1 DEF Forward, ControlOK, Stages, Kinds, Threads, control, intake
<1>B. ResourcesOK'
  BY <1>1 DEF Forward, ResourcesOK, Process, SessionState, Threads, Sessions, Roles, control, intake
<1>C. IntakeOK'
  BY <1>1 DEF Forward, Deliver, IntakeOK, Supervisor, control, intake, ControlOK, role
<1>D. Places'
  BY <1>1 DEF Forward, Places, Early, Probing, InUse, PreTarget, Leaving, interactive, Threads,
     control, intake
<1>E. Handles'
  BY <1>1 DEF Forward, Handles, Early, Probing, InUse, PreTarget, Leaving, Handle, Threads, control,
     intake
<1>F. Processes'
  BY <1>1 DEF Forward, Processes, ProcessInv, Roles, NoProcess, control, intake
<1>G. References'
  BY <1>1 DEF Forward, References, ReferenceInv, holders, one, own, Threads, Sessions, Roles, Early,
     Probing, InUse, PreTarget, Leaving, control, intake
<1>H. Passed'
  BY <1>1 DEF Forward, Passed, Early, Probing, InUse, PreTarget, Leaving, preflights, Threads, control,
     intake
<1>I. Lease'
  BY <1>1 DEF Forward, Lease, Early, Probing, InUse, PreTarget, Leaving, interactive, Threads, control,
     intake
<1>J. Outcomes'
  BY <1>1 DEF Forward, Outcomes, Early, Probing, InUse, PreTarget, Leaving, own, Threads, Sessions,
     control, intake
<1>K. Intake'
  BY <1>1 DEF Forward, Deliver, Intake, Early, Probing, InUse, PreTarget, Leaving, Threads, devin,
     control, intake, ControlOK, IntakeOK, Supervisor, Places, Handles, role, after, afterDevin,
     afterWorker, afterGrok, afterAttached, Kinds, interactive
<1>L. QED
  BY <1>A, <1>B, <1>C, <1>D, <1>E, <1>F, <1>G, <1>H, <1>I, <1>J, <1>K DEF IndInv

\* The backend moves a process on, but does not touch its reference.
LEMMA ExitsHolds == ASSUME IndInv, NEW r \in Roles, Exits(r) PROVE IndInv'
<1>1. /\ ControlOK /\ ResourcesOK /\ IntakeOK /\ Places /\ Handles /\ Processes /\ References
      /\ Passed /\ Lease /\ Outcomes /\ Intake
  BY DEF IndInv
<1>p. /\ proc[r].st = "started"
      /\ proc' \in [Roles -> Process] /\ \A q \in Roles \ {r} : proc'[q] = proc[q]
      /\ proc'[r].st = "exited" /\ proc'[r].ses = proc[r].ses /\ proc'[r].tree = proc[r].tree
      /\ proc'[r].clean = proc[r].clean /\ proc'[r].held = proc[r].held
  <2> DEFINE p == [proc[r] EXCEPT !.st = "exited"]
  <2>1. /\ proc[r].st = "started"
        /\ proc \in [Roles -> Process] /\ proc[r] \in Process
    BY <1>1 DEF Exits, ResourcesOK
  <2>2. p \in Process /\ p.st = "exited" /\ p.ses = proc[r].ses /\ p.tree = proc[r].tree /\ p.clean = proc[r].clean /\ p.held = proc[r].held
    BY <2>1 DEF Process
  <2>3. proc' = [proc EXCEPT ![r] = p]
    BY DEF Exits
  <2> HIDE DEF p
  <2> QED
    BY <2>1, <2>2, <2>3
<1>A. ControlOK'
  BY <1>1 DEF Exits, ControlOK, Stages, Kinds, Threads, control, intake
<1>B. ResourcesOK'
  BY <1>1, <1>p DEF Exits, ResourcesOK
<1>C. IntakeOK'
  BY <1>1 DEF Exits, IntakeOK, Supervisor, control, intake
<1>D. Places'
  BY <1>1 DEF Exits, Places, Early, Probing, InUse, PreTarget, Leaving, interactive, Threads, control,
     intake
<1>E. Handles'
  BY <1>1, <1>p DEF Exits, Handles, Early, Probing, InUse, PreTarget, Leaving, Handle, Threads,
     control, intake, ControlOK, ResourcesOK, Process, Places, Processes, ProcessInv, NoProcess, after,
     afterDevin, afterWorker, afterGrok, afterAttached, role, Roles
<1>F. Processes'
  BY <1>1, <1>p DEF Processes, ProcessInv
<1>G. References'
  BY <1>1, <1>p DEF Exits, References, ReferenceInv, holders, one, own, Threads, Sessions, Roles,
     Early, Probing, InUse, PreTarget, Leaving, control, intake, ControlOK, ResourcesOK, Process,
     SessionState, Places, Handles, Handle, Processes, ProcessInv, NoProcess, role, after, afterDevin,
     afterWorker, afterGrok, afterAttached
<1>H. Passed'
  BY <1>1, <1>p DEF Exits, Passed, Early, Probing, InUse, PreTarget, Leaving, preflights, Threads,
     control, intake, ControlOK, ResourcesOK, Process, Places, Handles, NoProcess, role, after,
     afterDevin, afterWorker, afterGrok, afterAttached, interactive, Kinds, Roles
<1>I. Lease'
  BY <1>1, <1>p DEF Exits, Lease, Early, Probing, InUse, PreTarget, Leaving, interactive, Threads,
     control, intake, ControlOK, ResourcesOK, Process, Places, Handles, NoProcess, role, after,
     afterDevin, afterWorker, afterGrok, afterAttached, Roles
<1>J. Outcomes'
  BY <1>1, <1>p DEF Exits, Outcomes, Early, Probing, InUse, PreTarget, Leaving, own, Threads, Sessions,
     control, intake, ControlOK, ResourcesOK, Process, SessionState, Places, Handles, Handle,
     Processes, ProcessInv, References, ReferenceInv, holders, one, NoProcess, role, after, afterDevin,
     afterWorker, afterGrok, afterAttached, Roles
<1>K. Intake'
  BY <1>1 DEF Exits, Intake, Early, Probing, InUse, PreTarget, Leaving, Threads, devin, control, intake
<1>L. QED
  BY <1>A, <1>B, <1>C, <1>D, <1>E, <1>F, <1>G, <1>H, <1>I, <1>J, <1>K DEF IndInv

LEMMA CleanupProvenHolds == ASSUME IndInv, NEW r \in Roles, CleanupProven(r) PROVE IndInv'
<1>1. /\ ControlOK /\ ResourcesOK /\ IntakeOK /\ Places /\ Handles /\ Processes /\ References
      /\ Passed /\ Lease /\ Outcomes /\ Intake
  BY DEF IndInv
<1>p. /\ proc[r].st \in {"exited", "failed"} /\ proc[r].clean = "open"
      /\ proc' \in [Roles -> Process] /\ \A q \in Roles \ {r} : proc'[q] = proc[q]
      /\ proc'[r].st = proc[r].st /\ proc'[r].ses = proc[r].ses /\ proc'[r].tree = FALSE
      /\ proc'[r].clean = "done" /\ proc'[r].held = proc[r].held
  <2> DEFINE p1 == [proc[r] EXCEPT !.clean = "done"]
             p2 == [p1 EXCEPT !.tree = FALSE]
  <2>1. /\ proc[r].st \in {"exited", "failed"} /\ proc[r].clean = "open"
        /\ proc \in [Roles -> Process] /\ proc[r] \in Process
    BY <1>1 DEF CleanupProven, ResourcesOK
  <2>2. p1 \in Process /\ p1.st = proc[r].st /\ p1.ses = proc[r].ses /\ p1.tree = proc[r].tree /\ p1.clean = "done" /\ p1.held = proc[r].held
    BY <2>1 DEF Process
  <2>3. p2 \in Process /\ p2.st = proc[r].st /\ p2.ses = proc[r].ses /\ p2.tree = FALSE /\ p2.clean = "done" /\ p2.held = proc[r].held
    BY <2>2 DEF Process
  <2>4. proc' = [proc EXCEPT ![r] = p2]
    BY DEF CleanupProven
  <2> HIDE DEF p1, p2
  <2> QED
    BY <2>1, <2>3, <2>4
<1>A. ControlOK'
  BY <1>1 DEF CleanupProven, ControlOK, Stages, Kinds, Threads, control, intake
<1>B. ResourcesOK'
  BY <1>1, <1>p DEF CleanupProven, ResourcesOK
<1>C. IntakeOK'
  BY <1>1 DEF CleanupProven, IntakeOK, Supervisor, control, intake
<1>D. Places'
  BY <1>1 DEF CleanupProven, Places, Early, Probing, InUse, PreTarget, Leaving, interactive, Threads,
     control, intake
<1>E. Handles'
  BY <1>1, <1>p DEF CleanupProven, Handles, Early, Probing, InUse, PreTarget, Leaving, Handle, Threads,
     control, intake, ControlOK, ResourcesOK, Process, Places, Processes, ProcessInv, NoProcess, after,
     afterDevin, afterWorker, afterGrok, afterAttached, role, Roles
<1>F. Processes'
  BY <1>1, <1>p DEF Processes, ProcessInv
<1>G. References'
  BY <1>1, <1>p DEF CleanupProven, References, ReferenceInv, holders, one, own, Threads, Sessions,
     Roles, Early, Probing, InUse, PreTarget, Leaving, control, intake, ControlOK, ResourcesOK,
     Process, SessionState, Places, Handles, Handle, Processes, ProcessInv, NoProcess, role, after,
     afterDevin, afterWorker, afterGrok, afterAttached
<1>H. Passed'
  BY <1>1, <1>p DEF CleanupProven, Passed, Early, Probing, InUse, PreTarget, Leaving, preflights,
     Threads, control, intake, ControlOK, ResourcesOK, Process, Places, Handles, NoProcess, role,
     after, afterDevin, afterWorker, afterGrok, afterAttached, interactive, Kinds, Roles
<1>I. Lease'
  BY <1>1, <1>p DEF CleanupProven, Lease, Early, Probing, InUse, PreTarget, Leaving, interactive,
     Threads, control, intake, ControlOK, ResourcesOK, Process, Places, Handles, NoProcess, role,
     after, afterDevin, afterWorker, afterGrok, afterAttached, Roles
<1>J. Outcomes'
  BY <1>1, <1>p DEF CleanupProven, Outcomes, Early, Probing, InUse, PreTarget, Leaving, own, Threads,
     Sessions, control, intake, ControlOK, ResourcesOK, Process, SessionState, Places, Handles, Handle,
     Processes, ProcessInv, References, ReferenceInv, holders, one, NoProcess, role, after, afterDevin,
     afterWorker, afterGrok, afterAttached, Roles
<1>K. Intake'
  BY <1>1 DEF CleanupProven, Intake, Early, Probing, InUse, PreTarget, Leaving, Threads, devin,
     control, intake
<1>L. QED
  BY <1>A, <1>B, <1>C, <1>D, <1>E, <1>F, <1>G, <1>H, <1>I, <1>J, <1>K DEF IndInv

LEMMA CleanupUnprovenHolds == ASSUME IndInv, NEW r \in Roles, CleanupUnproven(r) PROVE IndInv'
<1>1. /\ ControlOK /\ ResourcesOK /\ IntakeOK /\ Places /\ Handles /\ Processes /\ References
      /\ Passed /\ Lease /\ Outcomes /\ Intake
  BY DEF IndInv
<1>p. /\ proc[r].st \in {"exited", "failed"} /\ proc[r].clean = "open"
      /\ proc' \in [Roles -> Process] /\ \A q \in Roles \ {r} : proc'[q] = proc[q]
      /\ proc'[r].st = proc[r].st /\ proc'[r].ses = proc[r].ses /\ proc'[r].tree = proc[r].tree
      /\ proc'[r].clean = "never" /\ proc'[r].held = proc[r].held
  <2> DEFINE p == [proc[r] EXCEPT !.clean = "never"]
  <2>1. /\ proc[r].st \in {"exited", "failed"} /\ proc[r].clean = "open"
        /\ proc \in [Roles -> Process] /\ proc[r] \in Process
    BY <1>1 DEF CleanupUnproven, ResourcesOK
  <2>2. p \in Process /\ p.st = proc[r].st /\ p.ses = proc[r].ses /\ p.tree = proc[r].tree /\ p.clean = "never" /\ p.held = proc[r].held
    BY <2>1 DEF Process
  <2>3. proc' = [proc EXCEPT ![r] = p]
    BY DEF CleanupUnproven
  <2> HIDE DEF p
  <2> QED
    BY <2>1, <2>2, <2>3
<1>f. faults' \in 0..MaxFaults
  BY <1>1, FaultBounds DEF CleanupUnproven, IntakeOK, control, intake
<1>A. ControlOK'
  BY <1>1 DEF CleanupUnproven, ControlOK, Stages, Kinds, Threads, control, intake
<1>B. ResourcesOK'
  BY <1>1, <1>p DEF CleanupUnproven, ResourcesOK
<1>C. IntakeOK'
  BY <1>1, <1>f DEF CleanupUnproven, IntakeOK, control, intake
<1>D. Places'
  BY <1>1 DEF CleanupUnproven, Places, Early, Probing, InUse, PreTarget, Leaving, interactive, Threads,
     control, intake
<1>E. Handles'
  BY <1>1, <1>p, <1>f DEF CleanupUnproven, Fault, Handles, Early, Probing, InUse, PreTarget, Leaving,
     Handle, Threads, control, intake, ControlOK, ResourcesOK, Process, Places, Processes, ProcessInv,
     NoProcess, after, afterDevin, afterWorker, afterGrok, afterAttached, role, Roles
<1>F. Processes'
  BY <1>1, <1>p DEF Processes, ProcessInv
<1>G. References'
  BY <1>1, <1>p, <1>f DEF CleanupUnproven, Fault, References, ReferenceInv, holders, one, own, Threads,
     Sessions, Roles, Early, Probing, InUse, PreTarget, Leaving, control, intake, ControlOK,
     ResourcesOK, Process, SessionState, Places, Handles, Handle, Processes, ProcessInv, NoProcess,
     role, after, afterDevin, afterWorker, afterGrok, afterAttached
<1>H. Passed'
  BY <1>1, <1>p, <1>f DEF CleanupUnproven, Fault, Passed, Early, Probing, InUse, PreTarget, Leaving,
     preflights, Threads, control, intake, ControlOK, ResourcesOK, Process, Places, Handles, NoProcess,
     role, after, afterDevin, afterWorker, afterGrok, afterAttached, interactive, Kinds, Roles
<1>I. Lease'
  BY <1>1, <1>p, <1>f DEF CleanupUnproven, Fault, Lease, Early, Probing, InUse, PreTarget, Leaving,
     interactive, Threads, control, intake, ControlOK, ResourcesOK, Process, Places, Handles,
     NoProcess, role, after, afterDevin, afterWorker, afterGrok, afterAttached, Roles
<1>J. Outcomes'
  BY <1>1, <1>p, <1>f DEF CleanupUnproven, Fault, Outcomes, Early, Probing, InUse, PreTarget, Leaving,
     own, Threads, Sessions, control, intake, ControlOK, ResourcesOK, Process, SessionState, Places,
     Handles, Handle, Processes, ProcessInv, References, ReferenceInv, holders, one, NoProcess, role,
     after, afterDevin, afterWorker, afterGrok, afterAttached, Roles
<1>K. Intake'
  BY <1>1 DEF CleanupUnproven, Intake, Early, Probing, InUse, PreTarget, Leaving, Threads, devin,
     control, intake
<1>L. QED
  BY <1>A, <1>B, <1>C, <1>D, <1>E, <1>F, <1>G, <1>H, <1>I, <1>J, <1>K DEF IndInv

-----------------------------------------------------------------------------
\* The invariant holds initially and in every step.
LEMMA InitHolds == ASSUME Init PROVE IndInv
<1>1. ControlOK
  BY DEF Init, ControlOK, Stages, Kinds, Threads
<1>2. ResourcesOK
  BY DEF Init, ResourcesOK, NoSession, NoProcess, SessionState, Process, Sessions
<1>3. IntakeOK
  <2>1. 0 \in 0..MaxSignals /\ 0 \in 0..MaxFaults
    BY BoundsAssumption
  <2>2. sup \in Supervisor /\ sup.interrupts = 0
    BY <2>1 DEF Init, Supervisor
  <2>3. /\ chan = "none" /\ signals = 0 /\ faults = 0 /\ cancelled = FALSE /\ hit = FALSE
        /\ accepted = FALSE /\ lost = FALSE
    BY DEF Init
  <2>4. sup.interrupts + (IF chan = "none" THEN 0 ELSE 1) <= signals
    BY <2>2, <2>3
  <2>5. signals \in 0..MaxSignals /\ faults \in 0..MaxFaults
    BY <2>1, <2>3
  <2> QED
    BY <2>2, <2>3, <2>4, <2>5 DEF IntakeOK
<1>4. Places
  BY DEF Init, Places, Early, Probing, PreTarget, Threads
<1>5. Handles
  BY DEF Init, Handles, Handle, NoProcess, Early, Probing, PreTarget, Threads, Roles
<1>6. Processes
  BY DEF Init, Processes, ProcessInv, NoProcess
<1>7. References
  BY DEF Init, References, ReferenceInv, holders, one, own, NoSession, NoProcess,
         Threads, Sessions, Roles, Early, Probing, InUse
<1>8. Passed /\ Lease
  BY DEF Init, Passed, Lease, NoProcess, Roles, Threads
<1>9. Outcomes
  BY DEF Init, Outcomes, own, NoSession, NoProcess, Threads, Sessions, Roles, Probing, Leaving
<1>10. Intake
  BY DEF Init, Intake, Threads
<1> QED
  BY <1>1, <1>2, <1>3, <1>4, <1>5, <1>6, <1>7, <1>8, <1>9, <1>10 DEF IndInv

LEMMA StutterHolds == ASSUME IndInv, UNCHANGED vars PROVE IndInv'
<1>1. /\ ControlOK' /\ ResourcesOK' /\ IntakeOK' /\ Places' /\ Handles' /\ Processes'
  BY DEF IndInv, vars, control, intake, ControlOK, ResourcesOK, IntakeOK, Places, Handles, Handle,
         interactive, Processes, ProcessInv
<1>2. References' /\ Passed' /\ Lease' /\ Outcomes' /\ Intake'
  BY DEF IndInv, vars, control, intake, References, ReferenceInv, holders, one, own, Passed, preflights,
         Lease, interactive, Outcomes, Intake, devin
<1> QED
  BY <1>1, <1>2 DEF IndInv

LEMMA StepHolds == ASSUME IndInv, [Next]_vars PROVE IndInv'
<1>1. CASE MainStep
  BY <1>1, ResolveHolds, CheckHolds, resolvePlanEnvironmentHolds, projectGrokSessionHolds,
     RevalidateHolds,
     copyAllowlistedCredentialHolds, reserveInteractiveHolds, AttachHolds, ReplayHolds, SkipRulesHolds,
     JoinHolds, ReturnHolds
     DEF MainStep
<1>2. ASSUME NEW t \in Threads, ThreadStep(t) PROVE IndInv'
  BY <1>2, CreateTrackedHolds, prepareMCPRecipesHolds, projectDevinSessionHolds,
     prepareRetainedProcessHolds,
     StartHolds, WaitHolds, SettleHolds, SettleUnprovenHolds, RemoveHolds
     DEF ThreadStep
<1>3. ASSUME NEW r \in Roles, ReleaseAfterCleanup(r) \/ Exits(r) \/ CleanupProven(r) \/ CleanupUnproven(r)
      PROVE  IndInv'
  BY <1>3, ReleaseAfterCleanupHolds, ExitsHolds, CleanupProvenHolds, CleanupUnprovenHolds
<1>4. CASE ReleaseEnvironment
  BY <1>4, ReleaseEnvironmentHolds
<1>5. ASSUME NEW sig \in {"term", "winch"}, Send(sig) PROVE IndInv'
  BY <1>5, SendHolds
<1>6. CASE handleSignal
  BY <1>6, handleSignalHolds
<1>7. CASE Forward
  BY <1>7, ForwardHolds
<1>8. CASE UNCHANGED vars
  BY <1>8, StutterHolds
<1> QED
  BY <1>1, <1>2, <1>3, <1>4, <1>5, <1>6, <1>7, <1>8 DEF Next

\* The invariant as a theorem of the specification.
LEMMA InvariantHolds == Spec => []IndInv
<1>1. Init => IndInv
  BY InitHolds
<1>2. IndInv /\ [Next]_vars => IndInv'
  BY StepHolds
<1> QED
  BY <1>1, <1>2, PTL DEF Spec

-----------------------------------------------------------------------------
\* A tree is never gone from under its holder: an open cleanup keeps the reference.
LEMMA TreeHoldsReference ==
  ASSUME IndInv, NEW r \in Roles, proc[r].tree
  PROVE  /\ proc[r].st # "none" /\ proc[r].clean # "done"
         /\ proc[r].ses = (IF r = "auth" THEN "side" ELSE "main")
         /\ ses[proc[r].ses].st = "live"
<1>1. proc[r].st # "none" /\ proc[r].clean # "done" /\ proc[r].held
  BY DEF IndInv, Processes, ProcessInv
<1> QED
  BY <1>1, HolderHasSession DEF IndInv

\* What the invariant says of the properties.
LEMMA TreesHaveTheirResources == IndInv => TreeKeepsResources
<1> SUFFICES ASSUME IndInv PROVE TreeKeepsResources
  OBVIOUS
<1>1. TypeOK
  BY DEF IndInv, ControlOK, ResourcesOK, IntakeOK, Process, SessionState, Supervisor, TypeOK
<1>2. SessionOutlivesTree
  BY TreeHoldsReference DEF SessionOutlivesTree
<1>3. OneTreePerSession
  <2> SUFFICES ASSUME NEW r \in Roles, NEW q \in Roles, r # q, proc[r].tree, proc[q].tree
               PROVE  proc[r].ses # proc[q].ses
    BY DEF OneTreePerSession
  <2>1. proc["target"].st # "none" => proc["probe"].st = "none"
    BY DEF IndInv, Handles
  <2> QED
    BY <2>1, TreeHoldsReference DEF Roles
<1>4. EnvironmentOutlivesTarget
  BY TreeHoldsReference DEF EnvironmentOutlivesTarget, IndInv, Lease, Roles
<1>5. TargetVerified
  BY TreeHoldsReference DEF TargetVerified, IndInv, Passed, Roles
<1> QED
  BY <1>1, <1>2, <1>3, <1>4, <1>5 DEF TreeKeepsResources

\* Nothing accepted is lost between Start and the replay.
LEMMA AcceptedIsHit == IndInv => TerminationReachesTarget
  BY DEF IndInv, Intake, TerminationReachesTarget

\* Whatever is left of either Session is in the outcome of the caller.
LEMMA ReturnsAreComplete == IndInv => ReturnIsComplete
<1> SUFFICES ASSUME IndInv PROVE ReturnIsComplete
  OBVIOUS
<1>1. WorkerIsJoined
  BY DEF IndInv, Places, WorkerIsJoined
<1>2. ASSUME stage["main"] = "returned", "cleanup" \notin res["main"], NEW t \in Threads
      PROVE  ses[own(t)].st \in {"none", "gone"}
  <2>1. "cleanup" \notin res[t] /\ stage[t] \in {"off", "returned", "finished"}
    BY <1>1, <1>2 DEF WorkerIsJoined, IndInv, Outcomes, Leaving, Threads
  <2>2. ses[own(t)].st # "kept" /\ ~(ses[own(t)].st = "live" /\ ses[own(t)].asked)
    BY <2>1 DEF IndInv, Outcomes
  <2>3. ses[own(t)].st = "live" => ses[own(t)].asked
    BY <2>1 DEF IndInv, References
  <2>4. ses[own(t)].st \in {"none", "live", "gone", "kept"}
    BY DEF IndInv, ResourcesOK, SessionState, own, Sessions
  <2> QED
    BY <2>2, <2>3, <2>4
<1>3. QuietMeansRemoved
  BY <1>2 DEF QuietMeansRemoved, Sessions, Threads, own
<1> QED
  BY <1>1, <1>3 DEF ReturnIsComplete

\* What a process tree depends on is there as long as the tree may be, whoever gave
\* up on it first and in whichever order references and values are released:
\* a Session of its own, the environment values, and the preflights before it
\* (prepareRetainedProcess, settleRetainedProcess, releaseAfterCleanup).
THEOREM TreesKeepResources == Spec => []TreeKeepsResources
  BY InvariantHolds, TreesHaveTheirResources, PTL

\* A termination accepted before Devin was attached reaches it if it runs, or the
\* launch has failed, for any number and order of signals (startReserved,
\* handleSignal).
THEOREM TerminationsReachTargets == Spec => []TerminationReachesTarget
  BY InvariantHolds, AcceptedIsHit, PTL

\* ACS returns only after its authentication worker was joined, and an outcome that
\* reports no cleanup problem leaves no Session behind (cleanupPrecedence,
\* AwaitRetainedSessionCleanup).
THEOREM OutcomesAreComplete == Spec => []ReturnIsComplete
  BY InvariantHolds, ReturnsAreComplete, PTL

=============================================================================
