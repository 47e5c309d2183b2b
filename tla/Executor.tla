------------------------------ MODULE Executor ------------------------------
(***************************************************************************)
(* One invocation of the executor (internal/executor) for the fixed shell, *)
(* a literal command, Grok, Devin and Devin's verification: the preflights *)
(* (Devin's authentication check runs in a goroutine and a Session of its  *)
(* own), the retained contained processes with the reference count of      *)
(* their Session, the lease of the selected environment values, and the    *)
(* signals that reach ACS meanwhile.                                       *)
(*                                                                         *)
(* Abstractions.  A probe's output is what its check makes of it: accepted *)
(* or not.  An outcome is the set of what the caller reports; the empty    *)
(* set is success.  Session records and proofs are in SessionRecovery.     *)
(***************************************************************************)
EXTENDS Naturals, FiniteSets

CONSTANTS
    MaxSignals,     \* bound: signals sent to ACS
    MaxFaults       \* bound: failing calls, timeouts, unprovable cleanups

ASSUME BoundsAssumption == MaxSignals \in Nat /\ MaxFaults \in Nat

Kinds == {"shell", "command", "grok", "devin", "verify"}
Roles == {"probe", "auth", "target"}    \* whose contained process
Threads == {"main", "worker"}           \* the caller, and Devin's authentication
Sessions == {"main", "side"}            \* the Session of each

VARIABLES
    kind,       \* what is being run
    stage,      \* what each thread does next
    sub,        \* where it is with its contained process
    res,        \* outcome of each thread
    passed,     \* preflights that succeeded
    ses,        \* Sessions: state, references, removal requested
    proc,       \* contained processes
    env,        \* lease of the selected environment values
    sup,        \* devinSignalSupervisor
    chan,       \* buffered signal, capacity one
    cancelled,  \* the preflight context
    hit,        \* the target was sent a termination
    accepted,   \* a termination was accepted before the target was attached
    lost,       \* a termination arrived at a full channel during Start
    signals, faults

control == <<stage, sub, res>>
intake == <<sup, chan, cancelled, hit, accepted, lost, signals>>
vars == <<kind, control, passed, ses, proc, env, intake, faults>>

NoProcess == [st |-> "none", ses |-> "main", tree |-> FALSE, clean |-> "open", held |-> FALSE]
NoSession == [st |-> "none", refs |-> 0, asked |-> FALSE]

own(t) == IF t = "main" THEN "main" ELSE "side"
devin == kind = "devin"
interactive == kind # "verify"
role(t) == CASE t = "worker" -> "auth" [] stage[t] = "target" -> "target" [] OTHER -> "probe"

Fault == faults < MaxFaults /\ faults' = faults + 1
Go(t, s) == stage' = [stage EXCEPT ![t] = s] /\ UNCHANGED sub
Step(t, s) == sub' = [sub EXCEPT ![t] = s] /\ UNCHANGED stage
Fail(t, why, s) ==
    /\ stage' = [stage EXCEPT ![t] = s] /\ sub' = [sub EXCEPT ![t] = "none"]
    /\ res' = [res EXCEPT ![t] = @ \cup {why}]

\* What has to pass before the target of each kind starts.
preflights == CASE kind \in {"devin", "verify"} -> {"skills", "rules", "auth"}
                [] kind = "grok" -> {"version", "login"}
                [] OTHER -> {}

\* The stages of each kind, in the order of its function.
afterDevin == [create |-> "recipes", recipes |-> "project", project |-> "skills", skills |-> "rules",
               rules |-> "join"]
afterWorker == [create |-> "recipes", recipes |-> "project", project |-> "auth", auth |-> "remove"]
afterGrok == [create |-> "recipes", recipes |-> "project", project |-> "version",
              version |-> "login", login |-> "target"]
afterAttached == [create |-> "project", project |-> "target"]

\* Where a thread goes on to after a stage of its own succeeded.
after(t) ==
    CASE t = "worker" -> afterWorker[stage[t]]
      [] t = "main" /\ kind \in {"devin", "verify"} -> afterDevin[stage[t]]
      [] t = "main" /\ kind = "grok" -> afterGrok[stage[t]]
      [] t = "main" /\ kind \in {"shell", "command"} -> afterAttached[stage[t]]

\* Where its deferred calls begin after a failure: a failed preflight of Devin
\* still joins the worker.
unwind(t) == IF t = "main" /\ stage[t] \in {"skills", "rules"} THEN "join" ELSE "remove"

-----------------------------------------------------------------------------
(* Before the Session exists. *)

\* resolvePlannedExecution: exclusions, grants and the executable.
Resolve ==
    /\ stage["main"] = "resolve"
    /\ \/ Go("main", "check") /\ UNCHANGED <<res, faults>>
       \/ Fault /\ Fail("main", "error", "returned")
    /\ sup' = [sup EXCEPT !.on = devin /\ stage'["main"] = "check"]
    /\ UNCHANGED <<kind, passed, ses, proc, env, chan, cancelled, hit, accepted, lost, signals>>

Check ==
    /\ stage["main"] = "check"
    /\ \/ Go("main", "environment") /\ UNCHANGED <<res, faults>>
       \/ /\ \/ cancelled /\ UNCHANGED faults
             \/ Fault
          /\ Fail("main", "error", "release")
    /\ UNCHANGED <<kind, passed, ses, proc, env, intake>>

\* Resolve of environmentresource; a verification only validates.
resolvePlanEnvironment ==
    /\ stage["main"] = "environment"
    /\ \/ /\ env' \in {"none", IF interactive THEN "held" ELSE "released"}
          /\ Go("main", "create") /\ UNCHANGED <<res, faults>>
       \/ Fault /\ Fail("main", "error", "release") /\ env' = "released"
    /\ UNCHANGED <<kind, passed, ses, proc, intake>>

\* CreateTracked: a Session that could not be completed is removed again; when
\* that fails too, it stays and the error says so.
CreateTracked(t) ==
    /\ stage[t] = "create"
    /\ \/ /\ ses' = [ses EXCEPT ![own(t)] = [st |-> "live", refs |-> 1, asked |-> FALSE]]
          /\ Go(t, after(t)) /\ UNCHANGED <<res, faults>>
       \/ Fault /\ Fail(t, "error", IF t = "main" THEN "release" ELSE "finished") /\ UNCHANGED ses
       \/ /\ faults + 2 <= MaxFaults /\ faults' = faults + 2
          /\ ses' = [ses EXCEPT ![own(t)] = [st |-> "kept", refs |-> 0, asked |-> TRUE]]
          /\ res' = [res EXCEPT ![t] = @ \cup {"error", "cleanup"}]
          /\ Go(t, IF t = "main" THEN "release" ELSE "finished")
    /\ UNCHANGED <<kind, passed, proc, env, intake>>

\* Anything that is written into the Session before a process may start.
Written(t) ==
    \/ Go(t, after(t)) /\ UNCHANGED <<res, faults>>
    \/ Fault /\ Fail(t, "error", "remove")

\* prepareMCPRecipes: the recipes of the selected MCP servers.
prepareMCPRecipes(t) ==
    /\ stage[t] = "recipes" /\ Written(t)
    /\ UNCHANGED <<kind, passed, ses, proc, env, intake>>

\* projectDevinSession; then the preflights start the authentication worker,
\* which projects a Session of its own.
projectDevinSession(t) ==
    /\ stage[t] = "project" /\ (t = "main" => kind \in {"devin", "verify"})
    /\ \/ /\ stage' = [x \in Threads |-> IF x = t THEN after(t)
                         ELSE IF t = "main" THEN "create" ELSE stage[x]]
          /\ UNCHANGED <<sub, res, faults>>
       \/ Fault /\ Fail(t, "error", "remove")
    /\ UNCHANGED <<kind, passed, ses, proc, env, intake>>

\* projectGrokSession: selections, configuration and the user configuration.
projectGrokSession ==
    /\ stage["main"] = "project" /\ kind = "grok" /\ Written("main")
    /\ UNCHANGED <<kind, passed, ses, proc, env, intake>>

\* Command.Revalidate: the executable and the directory are still those that
\* were resolved.  The shell has nothing to revalidate.
Revalidate ==
    /\ stage["main"] = "project" /\ kind \in {"shell", "command"}
    /\ IF kind = "shell" THEN Go("main", after("main")) /\ UNCHANGED <<res, faults>>
       ELSE Written("main")
    /\ UNCHANGED <<kind, passed, ses, proc, env, intake>>

\* The allowlisted credential is copied only after the version was accepted, and
\* Grok must be able to authenticate with it or with a selected variable.
copyAllowlistedCredential ==
    /\ stage["main"] = "login" /\ Written("main")
    /\ passed' = IF stage'["main"] = "target" THEN passed \cup {"login"} ELSE passed
    /\ UNCHANGED <<kind, ses, proc, env, intake>>

-----------------------------------------------------------------------------
(* The life of a retained contained process. *)

Working(t) == stage[t] \in {"skills", "rules", "version", "auth", "target"}

\* reserveInteractive: a termination accepted so far ends the launch here.
reserveInteractive ==
    /\ stage["main"] = "target" /\ sub["main"] = "none" /\ devin /\ ~sup.starting
    /\ IF cancelled \/ sup.pending # "none"
       THEN Fail("main", "error", "remove") /\ UNCHANGED sup
       ELSE sup' = [sup EXCEPT !.starting = TRUE] /\ UNCHANGED control
    /\ UNCHANGED <<kind, passed, ses, proc, env, chan, cancelled, hit, accepted, lost, signals, faults>>

\* prepareRetainedProcess under prepareMutex: arm, prepare, retain; the target
\* takes the environment over.
prepareRetainedProcess(t) ==
    LET r == role(t) IN
    /\ Working(t) /\ sub[t] = "none" /\ (r = "target" /\ devin => sup.starting)
    /\ \/ /\ ses[own(t)].refs > 0 /\ ~ses[own(t)].asked
          /\ ses' = [ses EXCEPT ![own(t)].refs = @ + 1]
          /\ proc' = [proc EXCEPT ![r] = [NoProcess EXCEPT !.st = "prepared", !.ses = own(t), !.held = TRUE]]
          /\ env' = IF r = "target" /\ env = "held" THEN "transferred" ELSE env
          /\ Step(t, "start") /\ UNCHANGED <<res, sup, faults>>
       \/ /\ Fault /\ Fail(t, "error", unwind(t))
          /\ sup' = [sup EXCEPT !.starting = FALSE] /\ UNCHANGED <<ses, proc, env>>
    /\ UNCHANGED <<kind, passed, chan, cancelled, hit, accepted, lost, signals>>

\* Without selected instructions there is no rule to look for.
SkipRules ==
    /\ stage["main"] = "rules" /\ sub["main"] = "none"
    /\ passed' = passed \cup {"rules"} /\ Go("main", "join")
    /\ UNCHANGED <<kind, res, ses, proc, env, intake, faults>>

\* Process.Start: a failed start leaves its cleanup to the backend.
Start(t) ==
    LET r == role(t) IN
    /\ Working(t) /\ sub[t] = "start"
    /\ \/ /\ proc' = [proc EXCEPT ![r].st = "started", ![r].tree = TRUE]
          /\ Step(t, IF r = "target" THEN "attach" ELSE "wait") /\ UNCHANGED <<sup, faults>>
       \/ /\ Fault /\ proc' = [proc EXCEPT ![r].st = "failed", ![r].tree = TRUE]
          /\ Step(t, "settle") /\ sup' = [sup EXCEPT !.starting = FALSE]
    /\ UNCHANGED <<kind, res, passed, ses, env, chan, cancelled, hit, accepted, lost, signals>>

\* startReserved after Start: the target becomes the receiver and a signal
\* accepted meanwhile is taken for replay.  RunAttached starts its forwarder.
Attach ==
    /\ stage["main"] = "target" /\ sub["main"] = "attach"
    /\ sup' = [sup EXCEPT !.starting = FALSE, !.child = devin, !.pending = "none"]
    /\ IF devin /\ sup.pending = "term" THEN Step("main", "replay") ELSE Step("main", "wait")
    /\ UNCHANGED <<kind, res, passed, ses, proc, env, chan, cancelled, hit, accepted, lost, signals, faults>>

\* startReserved, continued: a replay that fails is an error of the launch, but
\* the target has started and is waited for like any other.
Replay ==
    /\ sub["main"] = "replay" /\ Step("main", "wait")
    /\ \/ hit' = TRUE /\ UNCHANGED <<res, faults>>
       \/ Fault /\ res' = [res EXCEPT !["main"] = @ \cup {"error"}] /\ UNCHANGED hit
    /\ UNCHANGED <<kind, passed, ses, proc, env, sup, chan, cancelled, accepted, lost, signals>>

\* beginCleanup: from here on a termination only interrupts the cleanup.
beginCleanup == [sup EXCEPT !.child = FALSE, !.starting = FALSE, !.cleaning = TRUE]

\* Process.Wait; Devin's supervisor detaches and only guards the cleanup now.
Wait(t) ==
    LET r == role(t) IN
    /\ Working(t) /\ sub[t] = "wait" /\ proc[r].st = "exited"
    /\ sup' = IF r = "target" /\ devin THEN beginCleanup ELSE sup
    /\ chan' = IF r = "target" /\ ~devin THEN "none" ELSE chan
    /\ Step(t, "settle")
    /\ UNCHANGED <<kind, res, passed, ses, proc, env, cancelled, hit, accepted, lost, signals, faults>>

\* removeLocked, once the last reference is gone; a failure keeps the guard.
removeLocked(s) ==
    \/ ses' = [ses EXCEPT ![s] = [st |-> "gone", refs |-> 0, asked |-> TRUE]] /\ UNCHANGED faults
    \/ Fault /\ ses' = [ses EXCEPT ![s] = [st |-> "kept", refs |-> 0, asked |-> TRUE]]

\* releaseReference.
releaseReference(s) ==
    IF ses[s].refs = 1 /\ ses[s].asked THEN removeLocked(s)
    ELSE ses' = [ses EXCEPT ![s].refs = @ - 1] /\ UNCHANGED faults

\* RunCommand, RunGrok, RunDevin: an exit status of the target is passed on, an
\* interruption of ACS is an error, and so is a termination that could not be
\* replayed (runDevinStarted).
exitStatus == IF res["main"] # {} THEN {"error"}
              ELSE {"ok", "exit"} \cup (IF cancelled THEN {"error"} ELSE {})

\* verifyDevinSkills: the listed skills are those of the expected catalog.
verifyDevinSkills == {"ok", "error"}

\* verifyDevinRules: the receipt names every projected instruction.
verifyDevinRules == {"ok", "error"}

\* verifyDevinAuthentication.
verifyDevinAuthentication == {"ok", "error"}

\* The first line of grok --version.
AcceptsOutput == IF cancelled THEN {"error"} ELSE {"ok", "error"}

\* What the caller makes of a settled process: its own failure, the output of a
\* probe, the exit status of a target.
verdicts(t) ==
    IF proc[role(t)].st = "failed" THEN {"error"}
    ELSE CASE stage[t] = "target" -> exitStatus
           [] stage[t] = "skills" -> verifyDevinSkills
           [] stage[t] = "rules" -> verifyDevinRules
           [] stage[t] = "auth" -> verifyDevinAuthentication
           [] OTHER -> AcceptsOutput

\* settleRetainedProcess with proven cleanup.
Settle(t) ==
    LET r == role(t) IN
    /\ Working(t) /\ sub[t] = "settle" /\ proc[r].clean = "done"
    /\ IF proc[r].held THEN releaseReference(own(t)) ELSE UNCHANGED <<ses, faults>>
    /\ proc' = [proc EXCEPT ![r] = NoProcess]
    /\ \E v \in verdicts(t) :
         IF v = "ok" /\ stage[t] # "target"
         THEN /\ stage' = [stage EXCEPT ![t] = after(t)] /\ sub' = [sub EXCEPT ![t] = "none"]
              /\ passed' = passed \cup {stage[t]} /\ UNCHANGED res
         ELSE /\ stage' = [stage EXCEPT ![t] = unwind(t)] /\ sub' = [sub EXCEPT ![t] = "none"]
              /\ res' = [res EXCEPT ![t] = @ \cup ({v} \ {"ok"})] /\ UNCHANGED passed
    /\ UNCHANGED <<kind, env, intake>>

\* Mutant: an unproven cleanup is reported as an ordinary failure.
SettleUnprovenQuiet(t) ==
    LET r == role(t) IN
    /\ Working(t) /\ sub[t] = "settle"
    /\ \/ proc[r].clean = "never" /\ UNCHANGED faults
       \/ proc[r].clean = "open" /\ Fault
    /\ Fail(t, "error", unwind(t))
    /\ UNCHANGED <<kind, passed, ses, proc, env, intake>>

\* Mutant: giving up also gives the reference back.
SettleUnprovenReleases(t) ==
    LET r == role(t) IN
    /\ Working(t) /\ sub[t] = "settle"
    /\ proc[r].clean = "open" /\ Fault
    /\ ses' = [ses EXCEPT ![own(t)].refs = @ - 1]
    /\ proc' = [proc EXCEPT ![r].held = FALSE]
    /\ Fail(t, "cleanup", unwind(t))
    /\ UNCHANGED <<kind, passed, env, intake>>

\* awaitCleanup gave up: cleanup cannot be proven, or not in time.  The
\* reference stays with the background release.
SettleUnproven(t) ==
    LET r == role(t) IN
    /\ Working(t) /\ sub[t] = "settle"
    /\ \/ proc[r].clean = "never" /\ UNCHANGED faults
       \/ proc[r].clean = "open" /\ Fault
    /\ Fail(t, "cleanup", unwind(t))
    /\ UNCHANGED <<kind, passed, ses, proc, env, intake>>

-----------------------------------------------------------------------------
(* Joining, deferred calls and the return. *)

\* runDevinPreflights consumes the worker's result in order, or joins it on the
\* way out of an earlier failure.
Join ==
    /\ stage["main"] = "join" /\ stage["worker"] = "finished"
    /\ res' = [res EXCEPT !["main"] = @ \cup res["worker"]]
    /\ passed' = IF res["worker"] = {} THEN passed \cup {"auth"} ELSE passed
    /\ stage' = [stage EXCEPT !["main"] =
                   IF res'["main"] = {} /\ interactive /\ ~cancelled THEN "target" ELSE "remove"]
    /\ UNCHANGED <<kind, sub, ses, proc, env, intake, faults>>

\* cleanupPrecedence: a cleanup failure hides an ordinary exit status.
cleanupPrecedence(outcome) == (outcome \ {"exit"}) \cup {"cleanup"}

\* The deferred Session.Remove, after beginCleanup for Devin.
Remove(t) ==
    LET s == own(t) IN
    /\ stage[t] = "remove"
    /\ IF ses[s].refs = 1 THEN removeLocked(s)
       ELSE ses' = [ses EXCEPT ![s].refs = @ - 1, ![s].asked = TRUE] /\ UNCHANGED faults
    /\ res' = [res EXCEPT ![t] = IF ses'[s].st = "kept" THEN cleanupPrecedence(@) ELSE @]
    /\ sup' = IF t = "main" /\ devin THEN beginCleanup ELSE sup
    /\ Go(t, IF t = "main" THEN "release" ELSE "finished")
    /\ UNCHANGED <<kind, passed, proc, env, chan, cancelled, hit, accepted, lost, signals>>

\* The deferred release of an environment nobody took over, and the end of
\* signal capture.
Return ==
    /\ stage["main"] = "release"
    /\ env' = IF env = "held" THEN "released" ELSE env
    /\ sup' = [sup EXCEPT !.on = FALSE] /\ chan' = "none" /\ Go("main", "returned")
    /\ UNCHANGED <<kind, res, passed, ses, proc, cancelled, hit, accepted, lost, signals, faults>>

\* Mutant: nobody releases after the caller has returned.
ReleaseAfterCleanupAttended(r) ==
    /\ proc[r].clean = "done" /\ proc[r].held /\ stage["main"] \notin {"forced", "returned"}
    /\ releaseReference(proc[r].ses)
    /\ proc' = [proc EXCEPT ![r].held = FALSE]
    /\ UNCHANGED <<kind, control, passed, env, intake>>

\* releaseAfterCleanup and releaseEnvironmentAfterCleanup: the goroutines that
\* outlive a caller who gave up.
ReleaseAfterCleanup(r) ==
    /\ proc[r].clean = "done" /\ proc[r].held /\ stage["main"] # "forced"
    /\ releaseReference(proc[r].ses)
    /\ proc' = [proc EXCEPT ![r].held = FALSE]
    /\ UNCHANGED <<kind, control, passed, env, intake>>

ReleaseEnvironment ==
    /\ env = "transferred" /\ ~proc["target"].tree /\ stage["main"] # "forced"
    /\ proc["target"].clean = "done" \/ proc["target"] = NoProcess
    /\ env' = "released"
    /\ UNCHANGED <<kind, control, passed, ses, proc, intake, faults>>

-----------------------------------------------------------------------------
(* Signals. *)

\* signal.Notify never blocks: a signal that finds the channel full is dropped.
\* Outside the two captures a termination is an ordinary death of ACS.
listening == sup.on \/ (~devin /\ stage["main"] = "target" /\ sub["main"] \in {"start", "attach", "wait"}
                        /\ proc["target"].st # "exited")
Send(sig) ==
    /\ listening /\ signals < MaxSignals /\ signals' = signals + 1
    /\ IF chan = "none" THEN chan' = sig /\ UNCHANGED lost
       ELSE /\ UNCHANGED chan
            /\ lost' = (lost \/ (chan = "winch" /\ sig = "term" /\ ~devin /\ sub["main"] \in {"start", "attach"}))
    /\ UNCHANGED <<kind, control, passed, ses, proc, env, sup, cancelled, hit, accepted, faults>>

Deliver(sig) == hit' = (hit \/ sig = "term")

\* Mutant: a resize replaces an accepted termination.
pendingLatest(sig) == sig

\* The signal that stays pending during preparation: resizes coalesce, but do
\* not erase a termination.
pendingAfter(sig) == IF sup.pending = "none" \/ sig # "winch" THEN sig ELSE sup.pending

\* exitOnSignal: ACS dies; what remains is left to recovery.
exitOnSignal == [t \in Threads |-> "forced"]

\* handleSignal of the goroutine.
handleSignal ==
    /\ sup.on /\ chan # "none" /\ chan' = "none"
    /\ \/ /\ sup.cleaning /\ chan = "winch" /\ UNCHANGED <<sup, cancelled, hit, accepted, stage>>
       \/ /\ sup.cleaning /\ chan = "term"
          /\ sup' = [sup EXCEPT !.interrupts = @ + 1]
          /\ stage' = IF sup.interrupts = 0 THEN stage ELSE exitOnSignal
          /\ UNCHANGED <<cancelled, hit, accepted>>
       \/ /\ ~sup.cleaning /\ sup.child /\ Deliver(chan) /\ UNCHANGED <<sup, cancelled, accepted, stage>>
       \/ /\ ~sup.cleaning /\ ~sup.child /\ sup.starting
          /\ sup' = [sup EXCEPT !.pending = pendingAfter(chan)]
          /\ accepted' = (accepted \/ chan = "term") /\ UNCHANGED <<cancelled, hit, stage>>
       \/ /\ ~sup.cleaning /\ ~sup.child /\ ~sup.starting /\ chan = "term"
          /\ sup' = [sup EXCEPT !.pending = "term"] /\ cancelled' = TRUE
          /\ accepted' = TRUE /\ UNCHANGED <<hit, stage>>
       \/ /\ ~sup.cleaning /\ ~sup.child /\ ~sup.starting /\ chan = "winch"
          /\ UNCHANGED <<sup, cancelled, hit, accepted, stage>>
    /\ UNCHANGED <<kind, sub, res, passed, ses, proc, env, lost, signals, faults>>

\* The forwarder of RunAttached runs once Start has returned.
Forward ==
    /\ ~devin /\ stage["main"] = "target" /\ sub["main"] = "wait" /\ chan # "none"
    /\ Deliver(chan) /\ chan' = "none"
    /\ UNCHANGED <<kind, control, passed, ses, proc, env, sup, cancelled, accepted, lost, signals, faults>>

-----------------------------------------------------------------------------
(* The contained processes and their backend. *)

\* The command ends; descendants may live on until the backend has settled.
Exits(r) ==
    /\ proc[r].st = "started"
    /\ proc' = [proc EXCEPT ![r].st = "exited"]
    /\ UNCHANGED <<kind, control, passed, ses, env, intake, faults>>

\* CleanupDone: every process of the tree is gone.
CleanupProven(r) ==
    /\ proc[r].st \in {"exited", "failed"} /\ proc[r].clean = "open"
    /\ proc' = [proc EXCEPT ![r].clean = "done", ![r].tree = FALSE]
    /\ UNCHANGED <<kind, control, passed, ses, env, intake, faults>>

\* CleanupUnproven: it can never be proven.
CleanupUnproven(r) ==
    /\ proc[r].st \in {"exited", "failed"} /\ proc[r].clean = "open" /\ Fault
    /\ proc' = [proc EXCEPT ![r].clean = "never"]
    /\ UNCHANGED <<kind, control, passed, ses, env, intake>>

-----------------------------------------------------------------------------
Init ==
    /\ kind \in Kinds
    /\ stage = [t \in Threads |-> IF t = "main" THEN "resolve" ELSE "off"]
    /\ sub = [t \in Threads |-> "none"] /\ res = [t \in Threads |-> {}] /\ passed = {}
    /\ ses = [s \in Sessions |-> NoSession] /\ proc = [r \in Roles |-> NoProcess] /\ env = "none"
    /\ sup = [on |-> FALSE, pending |-> "none", starting |-> FALSE, child |-> FALSE,
              cleaning |-> FALSE, interrupts |-> 0]
    /\ chan = "none" /\ cancelled = FALSE /\ hit = FALSE /\ accepted = FALSE /\ lost = FALSE
    /\ signals = 0 /\ faults = 0

ThreadStep(t) ==
    \/ CreateTracked(t) \/ prepareMCPRecipes(t) \/ projectDevinSession(t) \/ prepareRetainedProcess(t) \/ Start(t) \/ Wait(t)
    \/ Settle(t) \/ SettleUnproven(t) \/ Remove(t)

MainStep == Resolve \/ Check \/ resolvePlanEnvironment \/ projectGrokSession
            \/ Revalidate \/ copyAllowlistedCredential \/ reserveInteractive \/ Attach \/ Replay \/ SkipRules \/ Join \/ Return

Next ==
    \/ MainStep
    \/ \E t \in Threads : ThreadStep(t)
    \/ \E r \in Roles : ReleaseAfterCleanup(r) \/ Exits(r) \/ CleanupProven(r) \/ CleanupUnproven(r)
    \/ ReleaseEnvironment
    \/ \E sig \in {"term", "winch"} : Send(sig)
    \/ handleSignal \/ Forward

Spec == Init /\ [][Next]_vars

\* Goroutines are scheduled, contained processes end, and the backend decides
\* about their cleanup one way or the other.
Fairness ==
    /\ WF_vars(MainStep) /\ \A t \in Threads : WF_vars(ThreadStep(t))
    /\ \A r \in Roles : /\ WF_vars(Exits(r)) /\ WF_vars(CleanupProven(r) \/ CleanupUnproven(r))
                        /\ WF_vars(ReleaseAfterCleanup(r))
    /\ WF_vars(ReleaseEnvironment) /\ WF_vars(handleSignal)

LiveSpec == Spec /\ Fairness

-----------------------------------------------------------------------------
(* Properties. *)

Stages == {"off", "resolve", "check", "environment", "create", "recipes", "project", "skills", "rules", "join",
           "version", "login", "auth", "target", "remove", "release", "finished", "returned", "forced"}

\* The state has its type; in particular a Session is never released more often
\* than it was retained.
TypeOK ==
    /\ kind \in Kinds /\ stage \in [Threads -> Stages]
    /\ sub \in [Threads -> {"none", "start", "attach", "replay", "wait", "settle"}]
    /\ res \in [Threads -> SUBSET {"exit", "error", "cleanup"}]
    /\ passed \subseteq {"skills", "rules", "auth", "version", "login"}
    /\ ses \in [Sessions -> [st : {"none", "live", "gone", "kept"}, refs : 0..3, asked : BOOLEAN]]
    /\ proc \in [Roles -> [st : {"none", "prepared", "started", "exited", "failed"}, ses : Sessions,
                           tree : BOOLEAN, clean : {"open", "done", "never"}, held : BOOLEAN]]
    /\ env \in {"none", "held", "transferred", "released"}
    /\ sup \in [on : BOOLEAN, pending : {"none", "term", "winch"}, starting : BOOLEAN,
                child : BOOLEAN, cleaning : BOOLEAN, interrupts : 0..MaxSignals]
    /\ chan \in {"none", "term", "winch"} /\ cancelled \in BOOLEAN /\ hit \in BOOLEAN
    /\ accepted \in BOOLEAN /\ lost \in BOOLEAN /\ signals \in 0..MaxSignals /\ faults \in 0..MaxFaults

\* No Session is deleted under a process tree that may still be alive, whoever
\* gave up on it and in whichever order the references are released.
SessionOutlivesTree ==
    \A r \in Roles : proc[r].tree => ses[proc[r].ses].st \in {"live", "kept"}

\* A tracked Session has one process generation: two trees never share one, the
\* concurrent authentication check included.
OneTreePerSession ==
    \A r, q \in Roles : r # q /\ proc[r].tree /\ proc[q].tree => proc[r].ses # proc[q].ses

\* The values of the selected environment are not wiped while the target they
\* were resolved for may still be alive.
EnvironmentOutlivesTarget == proc["target"].tree => env # "released"

\* The target only ever runs after every preflight of its kind succeeded.
TargetVerified == proc["target"].tree => preflights \subseteq passed

\* What a process tree depends on is there as long as the tree may be: a Session
\* of its own, its environment values and the preflights that allowed it,
\* whoever gave up on it first (prepareRetainedProcess, releaseAfterCleanup).
TreeKeepsResources ==
    /\ TypeOK /\ SessionOutlivesTree /\ OneTreePerSession
    /\ EnvironmentOutlivesTarget /\ TargetVerified

\* A termination accepted before Devin was attached reaches it, if it runs at
\* all, or the launch is reported as failed: whatever resizes arrive during the
\* handoff.
TerminationReachesTarget ==
    accepted /\ stage["main"] = "target" /\ sub["main"] = "wait" => hit \/ "error" \in res["main"]

\* An outcome that does not report a cleanup problem means that every Session
\* of the invocation is deleted (cleanupPrecedence, AwaitRetainedSessionCleanup).
QuietMeansRemoved ==
    stage["main"] = "returned" /\ "cleanup" \notin res["main"]
        => \A s \in Sessions : ses[s].st \in {"none", "gone"}

\* ACS never returns while its authentication worker is still at work.
WorkerIsJoined ==
    stage["main"] \in {"remove", "release", "returned"} => stage["worker"] \in {"off", "finished"}

\* An outcome is complete when it is given: no worker is still at work, and one
\* that reports no cleanup problem leaves no Session (cleanupPrecedence,
\* AwaitRetainedSessionCleanup).
ReturnIsComplete == QuietMeansRemoved /\ WorkerIsJoined

\* Once its processes have ended the invocation ends too, even if their cleanup
\* is never proven.
InvocationEnds == <>(stage["main"] \in {"returned", "forced"})

\* A retained reference does not outlive the proof it waits for: a Session is
\* deleted in the end although the caller gave up, unless deletion failed.
RemovalCatchesUp ==
    \A r \in Roles : (proc[r].held /\ proc[r].clean = "done")
                        ~> (~proc[r].held \/ stage["main"] = "forced")

\* The invocation ends although a cleanup may never be proven, and a cleanup
\* proven later still gives back its reference (awaitCleanup,
\* releaseAfterCleanup).
InvocationSettles == InvocationEnds /\ RemovalCatchesUp

\* attached.go: "Signal capture is installed before Start so resize and
\* termination events cannot be lost in the startup handoff."
HandoffLosesNothing == ~lost

=============================================================================
