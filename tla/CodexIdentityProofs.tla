------------------------ MODULE CodexIdentityProofs ------------------------
(***************************************************************************)
(* Proofs about CodexIdentity for any number of processes, accounts,       *)
(* Sessions and faults.  The invariant says what the holder of the         *)
(* identity lock may rely on at each of its steps (StepInv), what the      *)
(* marker promises about its Session (MarkerInv) and what a Session that   *)
(* still holds or can write a credential owes to the marker and to the     *)
(* stored record (SessionInv).                                             *)
(***************************************************************************)
EXTENDS CodexIdentity, TLAPS

\* The type of the state, in three parts.
ControlOK ==
    /\ backend \in {"keychain", "file"} /\ chosen \in {"none", "file", "secret-service"}
    /\ lock \in Procs \cup {Nil}
    /\ pc \in [Procs -> Labels] /\ op \in [Procs -> {"none", "login", "status", "run", "recover"}]
    /\ sid \in [Procs -> Sids] /\ chal \in [Procs -> 0..Runs]
    /\ failed \in [Procs -> BOOLEAN] /\ waiter \in [Procs -> BOOLEAN]
    /\ issued \in 0..MaxIssued /\ faults \in 0..MaxFaults
RecordsOK ==
    /\ cred \in Credential \cup {Nil} /\ marker \in Marker \cup {Nil}
    /\ snap \in [Procs -> Credential \cup {Nil}] /\ seen \in [Procs -> Marker \cup {Nil}]
SessionsOK == ses \in [Sids -> Session]

\* The steps of a command before a process was started, those at which its
\* Session is protected, and those at which the marker is its own.
Unstarted == {"protect", "project", "abandon", "advance", "arm", "pending", "spawn"}
Protected == {"project", "advance", "arm", "pending", "spawn", "running", "refresh"}
Own == Unstarted \cup {"running", "refresh", "recoverable", "finalize", "remove", "delete", "preserve"}
Undecided == {"create", "publish", "unpublished", "protect", "recoverable", "finalize"} \cup Protected
Recovers == {"found", "proven", "discard", "done"}

\* Nothing is lost if the Session is removed: there is no refresh to store.
Decided(s) ==
    cred = Nil \/ ~refreshes(ses[s].auth, cred) \/ cred = ses[s].auth \/ ses[s].unverified

\* Whoever is in the middle of a command holds the identity lock.
LockInv == \A p \in Procs : lock = p <=> pc[p] \notin {"idle", "wait"}

\* What the marker promises about its Session.
MarkerInv ==
    marker # Nil =>
        LET s == marker.sid IN
        /\ marker.phase # "pending" => ~ses[s].live
        /\ marker.phase = "pending" => marker.chal # 0
        /\ marker.refresh => ses[s].good /\ (ses[s].root => ses[s].prot)
        /\ marker.phase = "prepared" => ~marker.refresh

\* A Session with a process or a credential is under the marker, and its
\* credential is the stored one or later.
SessionInv ==
    \A s \in Sids :
        /\ ses[s].live => ses[s].root /\ ses[s].prot /\ ses[s].proof = 0
        /\ ses[s].auth # Nil => ses[s].root
        /\ ses[s].live \/ ses[s].auth # Nil => marker # Nil /\ marker.sid = s
        /\ ses[s].auth \in Credential =>
              /\ ses[s].auth.ver <= issued
              /\ cred # Nil => ses[s].auth = cred \/ cred.ver < ses[s].auth.ver
CredInv == cred # Nil => cred.ver <= issued

\* What the process of a command or a recovery knows at each step.
CommandInv(p) ==
    LET s == sid[p] IN
    /\ pc[p] \in {"create", "publish"} => marker = Nil
    /\ pc[p] \in {"publish", "unpublished", "protect"} =>
          /\ ses[s].guard = p /\ ses[s].root /\ chal[p] = 0
          /\ ~ses[s].live /\ ses[s].auth = Nil
    /\ pc[p] = "unpublished" => marker = Nil \/ (marker.sid = s /\ ~marker.refresh)
    /\ pc[p] \in {"project", "abandon"} => chal[p] = 0
    /\ pc[p] \in Own => marker # Nil /\ marker.sid = s
    /\ pc[p] \in Own \ {"running", "preserve"} => ~ses[s].live
    /\ pc[p] \in Unstarted \cup {"running"} => ~marker.refresh
    /\ pc[p] \in {"publish", "running"} \cup Unstarted => ~failed[p]
    /\ pc[p] \in Protected => ses[s].root /\ ses[s].prot
    /\ pc[p] = "advance" => chal[p] < Runs
    /\ pc[p] \in {"arm", "pending", "spawn", "running"} => chal[p] # 0
    /\ pc[p] \in {"spawn", "running"} => marker.phase = "pending" /\ marker.chal = chal[p]
    /\ pc[p] = "refresh" => ses[s].good /\ ~failed[p] /\ op[p] # "login"
    /\ pc[p] = "recoverable" /\ ~failed[p] => ses[s].good
    /\ pc[p] = "recoverable" /\ (failed[p] \/ op[p] = "login") => ~marker.refresh
    /\ pc[p] = "finalize" => ses[s].good
    /\ pc[p] = "finalize" /\ op[p] = "login" => ~marker.refresh
    /\ pc[p] \in Undecided /\ op[p] \in {"status", "run"} => snap[p] = cred /\ cred # Nil
    /\ pc[p] = "project" => op[p] \in {"status", "run"}
    /\ pc[p] \in {"create", "publish", "unpublished", "protect"} => op[p] \in {"login", "status", "run"}
    /\ pc[p] = "remove" => ~marker.refresh \/ Decided(s)
    /\ pc[p] = "delete" => ses[s].auth = Nil
    /\ pc[p] = "settle" => ~ses[s].live
RecoverInv(p) ==
    LET s == seen[p].sid IN
    /\ pc[p] \in Recovers => marker = seen[p]
    /\ pc[p] \in Recovers \cup {"wait"} => seen[p] # Nil
    /\ pc[p] \in {"proven", "discard", "done"} => ~ses[s].live
    /\ pc[p] = "discard" => ~marker.refresh \/ Decided(s)
    /\ pc[p] = "done" => ses[s].auth = Nil
StepInv == \A p \in Procs : CommandInv(p) /\ RecoverInv(p)

IndInv == ControlOK /\ RecordsOK /\ SessionsOK /\ LockInv /\ MarkerInv /\ SessionInv /\ CredInv /\ StepInv

-----------------------------------------------------------------------------
(* How one Session is written. *)

\* Only the Session s changes.
Elsewhere(s) == \A t \in Sids \ {s} : ses'[t] = ses[t]

\* A Session replaced by another Session.
LEMMA SessionWritten ==
    ASSUME SessionsOK, NEW s \in Sids, NEW r \in Session, ses' = [ses EXCEPT ![s] = r]
    PROVE  SessionsOK' /\ Elsewhere(s) /\ ses'[s] = r
  BY DEF SessionsOK, Elsewhere

\* Recovery protection is published.
LEMMA Protecting ==
    ASSUME SessionsOK, NEW s \in Sids,
           ses' = [ses EXCEPT ![s].prot = TRUE]
    PROVE  /\ SessionsOK' /\ Elsewhere(s)
           /\ ses'[s].prot = TRUE
           /\ ses'[s].root = ses[s].root /\ ses'[s].guard = ses[s].guard /\ ses'[s].auth = ses[s].auth
           /\ ses'[s].live = ses[s].live /\ ses'[s].tracked = ses[s].tracked /\ ses'[s].gen = ses[s].gen
           /\ ses'[s].proof = ses[s].proof /\ ses'[s].good = ses[s].good /\ ses'[s].unverified = ses[s].unverified
<1> DEFINE r == [ses[s] EXCEPT !.prot = TRUE]
<1>1. ses[s] \in Session
  BY DEF SessionsOK
<1>2. r \in Session
  BY <1>1 DEF Session, Runs
<1>3. ses' = [ses EXCEPT ![s] = r]
  BY <1>1 DEF SessionsOK
<1>4. ses'[s] = r /\ SessionsOK' /\ Elsewhere(s)
  BY <1>2, <1>3, SessionWritten
<1>5. QED
  BY <1>1, <1>4 DEF Session

\* The lease guard is taken or released.
LEMMA Guarding ==
    ASSUME SessionsOK, NEW s \in Sids, NEW g \in Procs \cup {Nil}, 
           ses' = [ses EXCEPT ![s].guard = g]
    PROVE  /\ SessionsOK' /\ Elsewhere(s)
           /\ ses'[s].guard = g
           /\ ses'[s].root = ses[s].root /\ ses'[s].prot = ses[s].prot /\ ses'[s].auth = ses[s].auth
           /\ ses'[s].live = ses[s].live /\ ses'[s].tracked = ses[s].tracked /\ ses'[s].gen = ses[s].gen
           /\ ses'[s].proof = ses[s].proof /\ ses'[s].good = ses[s].good /\ ses'[s].unverified = ses[s].unverified
<1> DEFINE r == [ses[s] EXCEPT !.guard = g]
<1>1. ses[s] \in Session
  BY DEF SessionsOK
<1>2. r \in Session
  BY <1>1 DEF Session, Runs
<1>3. ses' = [ses EXCEPT ![s] = r]
  BY <1>1 DEF SessionsOK
<1>4. ses'[s] = r /\ SessionsOK' /\ Elsewhere(s)
  BY <1>2, <1>3, SessionWritten
<1>5. QED
  BY <1>1, <1>4 DEF Session

\* A protected Session without its guard.
LEMMA Retaining ==
    ASSUME SessionsOK, NEW s \in Sids,
           ses' = [ses EXCEPT ![s].prot = TRUE, ![s].guard = Nil]
    PROVE  /\ SessionsOK' /\ Elsewhere(s)
           /\ ses'[s].prot = TRUE /\ ses'[s].guard = Nil
           /\ ses'[s].root = ses[s].root /\ ses'[s].auth = ses[s].auth /\ ses'[s].live = ses[s].live
           /\ ses'[s].tracked = ses[s].tracked /\ ses'[s].gen = ses[s].gen /\ ses'[s].proof = ses[s].proof
           /\ ses'[s].good = ses[s].good /\ ses'[s].unverified = ses[s].unverified
<1> DEFINE r1 == [ses[s] EXCEPT !.prot = TRUE]
<1> DEFINE r == [r1 EXCEPT !.guard = Nil]
<1>1. ses[s] \in Session
  BY DEF SessionsOK
<1>m1. r1 \in Session /\ r1.prot = TRUE
      /\ r1.root = ses[s].root /\ r1.guard = ses[s].guard /\ r1.auth = ses[s].auth
      /\ r1.live = ses[s].live /\ r1.tracked = ses[s].tracked /\ r1.gen = ses[s].gen
      /\ r1.proof = ses[s].proof /\ r1.good = ses[s].good /\ r1.unverified = ses[s].unverified
  BY <1>1 DEF Session, Runs
<1>2. r \in Session /\ r.guard = Nil
      /\ r.root = r1.root /\ r.prot = r1.prot /\ r.auth = r1.auth
      /\ r.live = r1.live /\ r.tracked = r1.tracked /\ r.gen = r1.gen
      /\ r.proof = r1.proof /\ r.good = r1.good /\ r.unverified = r1.unverified
  BY <1>m1 DEF Session, Runs
<1>3. ses' = [ses EXCEPT ![s] = r]
  BY <1>1 DEF SessionsOK
<1>4. ses'[s] = r /\ SessionsOK' /\ Elsewhere(s)
  BY <1>2, <1>3, SessionWritten
<1> HIDE DEF r1, r
<1>5. QED
  BY <1>1, <1>m1, <1>2, <1>4 DEF Elsewhere

\* A Session that never held anything is removed.
LEMMA Dropping ==
    ASSUME SessionsOK, NEW s \in Sids,
           ses' = [ses EXCEPT ![s].root = FALSE, ![s].guard = Nil]
    PROVE  /\ SessionsOK' /\ Elsewhere(s)
           /\ ses'[s].root = FALSE /\ ses'[s].guard = Nil
           /\ ses'[s].prot = ses[s].prot /\ ses'[s].auth = ses[s].auth /\ ses'[s].live = ses[s].live
           /\ ses'[s].tracked = ses[s].tracked /\ ses'[s].gen = ses[s].gen /\ ses'[s].proof = ses[s].proof
           /\ ses'[s].good = ses[s].good /\ ses'[s].unverified = ses[s].unverified
<1> DEFINE r1 == [ses[s] EXCEPT !.root = FALSE]
<1> DEFINE r == [r1 EXCEPT !.guard = Nil]
<1>1. ses[s] \in Session
  BY DEF SessionsOK
<1>m1. r1 \in Session /\ r1.root = FALSE
      /\ r1.prot = ses[s].prot /\ r1.guard = ses[s].guard /\ r1.auth = ses[s].auth
      /\ r1.live = ses[s].live /\ r1.tracked = ses[s].tracked /\ r1.gen = ses[s].gen
      /\ r1.proof = ses[s].proof /\ r1.good = ses[s].good /\ r1.unverified = ses[s].unverified
  BY <1>1 DEF Session, Runs
<1>2. r \in Session /\ r.guard = Nil
      /\ r.root = r1.root /\ r.prot = r1.prot /\ r.auth = r1.auth
      /\ r.live = r1.live /\ r.tracked = r1.tracked /\ r.gen = r1.gen
      /\ r.proof = r1.proof /\ r.good = r1.good /\ r.unverified = r1.unverified
  BY <1>m1 DEF Session, Runs
<1>3. ses' = [ses EXCEPT ![s] = r]
  BY <1>1 DEF SessionsOK
<1>4. ses'[s] = r /\ SessionsOK' /\ Elsewhere(s)
  BY <1>2, <1>3, SessionWritten
<1> HIDE DEF r1, r
<1>5. QED
  BY <1>1, <1>m1, <1>2, <1>4 DEF Elsewhere

\* A Session directory with its guard.
LEMMA Opening ==
    ASSUME SessionsOK, NEW s \in Sids, NEW g \in Procs, 
           ses' = [ses EXCEPT ![s].root = TRUE, ![s].guard = g]
    PROVE  /\ SessionsOK' /\ Elsewhere(s)
           /\ ses'[s].root = TRUE /\ ses'[s].guard = g
           /\ ses'[s].prot = ses[s].prot /\ ses'[s].auth = ses[s].auth /\ ses'[s].live = ses[s].live
           /\ ses'[s].tracked = ses[s].tracked /\ ses'[s].gen = ses[s].gen /\ ses'[s].proof = ses[s].proof
           /\ ses'[s].good = ses[s].good /\ ses'[s].unverified = ses[s].unverified
<1> DEFINE r1 == [ses[s] EXCEPT !.root = TRUE]
<1> DEFINE r == [r1 EXCEPT !.guard = g]
<1>1. ses[s] \in Session
  BY DEF SessionsOK
<1>m1. r1 \in Session /\ r1.root = TRUE
      /\ r1.prot = ses[s].prot /\ r1.guard = ses[s].guard /\ r1.auth = ses[s].auth
      /\ r1.live = ses[s].live /\ r1.tracked = ses[s].tracked /\ r1.gen = ses[s].gen
      /\ r1.proof = ses[s].proof /\ r1.good = ses[s].good /\ r1.unverified = ses[s].unverified
  BY <1>1 DEF Session, Runs
<1>2. r \in Session /\ r.guard = g
      /\ r.root = r1.root /\ r.prot = r1.prot /\ r.auth = r1.auth
      /\ r.live = r1.live /\ r.tracked = r1.tracked /\ r.gen = r1.gen
      /\ r.proof = r1.proof /\ r.good = r1.good /\ r.unverified = r1.unverified
  BY <1>m1 DEF Session, Runs
<1>3. ses' = [ses EXCEPT ![s] = r]
  BY <1>1 DEF SessionsOK
<1>4. ses'[s] = r /\ SessionsOK' /\ Elsewhere(s)
  BY <1>2, <1>3, SessionWritten
<1> HIDE DEF r1, r
<1>5. QED
  BY <1>1, <1>m1, <1>2, <1>4 DEF Elsewhere

\* The projection is written.
LEMMA Writing ==
    ASSUME SessionsOK, NEW s \in Sids, NEW a \in Credential \cup {Bad, Nil}, 
           ses' = [ses EXCEPT ![s].auth = a]
    PROVE  /\ SessionsOK' /\ Elsewhere(s)
           /\ ses'[s].auth = a
           /\ ses'[s].root = ses[s].root /\ ses'[s].prot = ses[s].prot /\ ses'[s].guard = ses[s].guard
           /\ ses'[s].live = ses[s].live /\ ses'[s].tracked = ses[s].tracked /\ ses'[s].gen = ses[s].gen
           /\ ses'[s].proof = ses[s].proof /\ ses'[s].good = ses[s].good /\ ses'[s].unverified = ses[s].unverified
<1> DEFINE r == [ses[s] EXCEPT !.auth = a]
<1>1. ses[s] \in Session
  BY DEF SessionsOK
<1>2. r \in Session
  BY <1>1 DEF Session, Runs
<1>3. ses' = [ses EXCEPT ![s] = r]
  BY <1>1 DEF SessionsOK
<1>4. ses'[s] = r /\ SessionsOK' /\ Elsewhere(s)
  BY <1>2, <1>3, SessionWritten
<1>5. QED
  BY <1>1, <1>4 DEF Session

\* The root binding of sessionops.
LEMMA Tracking ==
    ASSUME SessionsOK, NEW s \in Sids,
           ses' = [ses EXCEPT ![s].tracked = TRUE]
    PROVE  /\ SessionsOK' /\ Elsewhere(s)
           /\ ses'[s].tracked = TRUE
           /\ ses'[s].root = ses[s].root /\ ses'[s].prot = ses[s].prot /\ ses'[s].guard = ses[s].guard
           /\ ses'[s].auth = ses[s].auth /\ ses'[s].live = ses[s].live /\ ses'[s].gen = ses[s].gen
           /\ ses'[s].proof = ses[s].proof /\ ses'[s].good = ses[s].good /\ ses'[s].unverified = ses[s].unverified
<1> DEFINE r == [ses[s] EXCEPT !.tracked = TRUE]
<1>1. ses[s] \in Session
  BY DEF SessionsOK
<1>2. r \in Session
  BY <1>1 DEF Session, Runs
<1>3. ses' = [ses EXCEPT ![s] = r]
  BY <1>1 DEF SessionsOK
<1>4. ses'[s] = r /\ SessionsOK' /\ Elsewhere(s)
  BY <1>2, <1>3, SessionWritten
<1>5. QED
  BY <1>1, <1>4 DEF Session

\* Root binding, capability and the proof that nothing has started.
LEMMA Arming ==
    ASSUME SessionsOK, NEW s \in Sids, NEW c \in 0..Runs, 
           ses' = [ses EXCEPT ![s].tracked = TRUE, ![s].gen = c, ![s].proof = c]
    PROVE  /\ SessionsOK' /\ Elsewhere(s)
           /\ ses'[s].tracked = TRUE /\ ses'[s].gen = c /\ ses'[s].proof = c
           /\ ses'[s].root = ses[s].root /\ ses'[s].prot = ses[s].prot /\ ses'[s].guard = ses[s].guard
           /\ ses'[s].auth = ses[s].auth /\ ses'[s].live = ses[s].live /\ ses'[s].good = ses[s].good
           /\ ses'[s].unverified = ses[s].unverified
<1> DEFINE r1 == [ses[s] EXCEPT !.tracked = TRUE]
<1> DEFINE r2 == [r1 EXCEPT !.gen = c]
<1> DEFINE r == [r2 EXCEPT !.proof = c]
<1>1. ses[s] \in Session
  BY DEF SessionsOK
<1>m1. r1 \in Session /\ r1.tracked = TRUE
      /\ r1.root = ses[s].root /\ r1.prot = ses[s].prot /\ r1.guard = ses[s].guard
      /\ r1.auth = ses[s].auth /\ r1.live = ses[s].live /\ r1.gen = ses[s].gen
      /\ r1.proof = ses[s].proof /\ r1.good = ses[s].good /\ r1.unverified = ses[s].unverified
  BY <1>1 DEF Session, Runs
<1>m2. r2 \in Session /\ r2.gen = c
      /\ r2.root = r1.root /\ r2.prot = r1.prot /\ r2.guard = r1.guard
      /\ r2.auth = r1.auth /\ r2.live = r1.live /\ r2.tracked = r1.tracked
      /\ r2.proof = r1.proof /\ r2.good = r1.good /\ r2.unverified = r1.unverified
  BY <1>m1 DEF Session, Runs
<1>2. r \in Session /\ r.proof = c
      /\ r.root = r2.root /\ r.prot = r2.prot /\ r.guard = r2.guard
      /\ r.auth = r2.auth /\ r.live = r2.live /\ r.tracked = r2.tracked
      /\ r.gen = r2.gen /\ r.good = r2.good /\ r.unverified = r2.unverified
  BY <1>m2 DEF Session, Runs
<1>3. ses' = [ses EXCEPT ![s] = r]
  BY <1>1 DEF SessionsOK
<1>4. ses'[s] = r /\ SessionsOK' /\ Elsewhere(s)
  BY <1>2, <1>3, SessionWritten
<1> HIDE DEF r1, r2, r
<1>5. QED
  BY <1>1, <1>m1, <1>m2, <1>2, <1>4

\* A process starts and the proof is withdrawn.
LEMMA Starting ==
    ASSUME SessionsOK, NEW s \in Sids,
           ses' = [ses EXCEPT ![s].live = TRUE, ![s].proof = 0]
    PROVE  /\ SessionsOK' /\ Elsewhere(s)
           /\ ses'[s].live = TRUE /\ ses'[s].proof = 0
           /\ ses'[s].root = ses[s].root /\ ses'[s].prot = ses[s].prot /\ ses'[s].guard = ses[s].guard
           /\ ses'[s].auth = ses[s].auth /\ ses'[s].tracked = ses[s].tracked /\ ses'[s].gen = ses[s].gen
           /\ ses'[s].good = ses[s].good /\ ses'[s].unverified = ses[s].unverified
<1> DEFINE r1 == [ses[s] EXCEPT !.live = TRUE]
<1> DEFINE r == [r1 EXCEPT !.proof = 0]
<1>1. ses[s] \in Session
  BY DEF SessionsOK
<1>m1. r1 \in Session /\ r1.live = TRUE
      /\ r1.root = ses[s].root /\ r1.prot = ses[s].prot /\ r1.guard = ses[s].guard
      /\ r1.auth = ses[s].auth /\ r1.tracked = ses[s].tracked /\ r1.gen = ses[s].gen
      /\ r1.proof = ses[s].proof /\ r1.good = ses[s].good /\ r1.unverified = ses[s].unverified
  BY <1>1 DEF Session, Runs
<1>z. 0 \in 0..Runs
  BY DEF Runs
<1>2. r \in Session /\ r.proof = 0
      /\ r.root = r1.root /\ r.prot = r1.prot /\ r.guard = r1.guard
      /\ r.auth = r1.auth /\ r.live = r1.live /\ r.tracked = r1.tracked
      /\ r.gen = r1.gen /\ r.good = r1.good /\ r.unverified = r1.unverified
  BY <1>m1, <1>z DEF Session
<1>3. ses' = [ses EXCEPT ![s] = r]
  BY <1>1 DEF SessionsOK
<1>4. ses'[s] = r /\ SessionsOK' /\ Elsewhere(s)
  BY <1>2, <1>3, SessionWritten
<1> HIDE DEF r1, r
<1>5. QED
  BY <1>1, <1>m1, <1>2, <1>4 DEF Elsewhere

\* The process has ended and its generation is proved.
LEMMA Settling ==
    ASSUME SessionsOK, NEW s \in Sids,
           ses' = [ses EXCEPT ![s].live = FALSE, ![s].proof = ses[s].gen]
    PROVE  /\ SessionsOK' /\ Elsewhere(s)
           /\ ses'[s].live = FALSE /\ ses'[s].proof = ses[s].gen
           /\ ses'[s].root = ses[s].root /\ ses'[s].prot = ses[s].prot /\ ses'[s].guard = ses[s].guard
           /\ ses'[s].auth = ses[s].auth /\ ses'[s].tracked = ses[s].tracked /\ ses'[s].gen = ses[s].gen
           /\ ses'[s].good = ses[s].good /\ ses'[s].unverified = ses[s].unverified
<1> DEFINE r1 == [ses[s] EXCEPT !.live = FALSE]
<1> DEFINE r == [r1 EXCEPT !.proof = ses[s].gen]
<1>1. ses[s] \in Session
  BY DEF SessionsOK
<1>m1. r1 \in Session /\ r1.live = FALSE
      /\ r1.root = ses[s].root /\ r1.prot = ses[s].prot /\ r1.guard = ses[s].guard
      /\ r1.auth = ses[s].auth /\ r1.tracked = ses[s].tracked /\ r1.gen = ses[s].gen
      /\ r1.proof = ses[s].proof /\ r1.good = ses[s].good /\ r1.unverified = ses[s].unverified
  BY <1>1 DEF Session, Runs
<1>2. r \in Session /\ r.proof = ses[s].gen
      /\ r.root = r1.root /\ r.prot = r1.prot /\ r.guard = r1.guard
      /\ r.auth = r1.auth /\ r.live = r1.live /\ r.tracked = r1.tracked
      /\ r.gen = r1.gen /\ r.good = r1.good /\ r.unverified = r1.unverified
  BY <1>m1 DEF Session, Runs
<1>3. ses' = [ses EXCEPT ![s] = r]
  BY <1>1 DEF SessionsOK
<1>4. ses'[s] = r /\ SessionsOK' /\ Elsewhere(s)
  BY <1>2, <1>3, SessionWritten
<1> HIDE DEF r1, r
<1>5. QED
  BY <1>1, <1>m1, <1>2, <1>4 DEF Elsewhere

\* Every contained run succeeded.
LEMMA Succeeding ==
    ASSUME SessionsOK, NEW s \in Sids,
           ses' = [ses EXCEPT ![s].good = TRUE]
    PROVE  /\ SessionsOK' /\ Elsewhere(s)
           /\ ses'[s].good = TRUE
           /\ ses'[s].root = ses[s].root /\ ses'[s].prot = ses[s].prot /\ ses'[s].guard = ses[s].guard
           /\ ses'[s].auth = ses[s].auth /\ ses'[s].live = ses[s].live /\ ses'[s].tracked = ses[s].tracked
           /\ ses'[s].gen = ses[s].gen /\ ses'[s].proof = ses[s].proof /\ ses'[s].unverified = ses[s].unverified
<1> DEFINE r == [ses[s] EXCEPT !.good = TRUE]
<1>1. ses[s] \in Session
  BY DEF SessionsOK
<1>2. r \in Session
  BY <1>1 DEF Session, Runs
<1>3. ses' = [ses EXCEPT ![s] = r]
  BY <1>1 DEF SessionsOK
<1>4. ses'[s] = r /\ SessionsOK' /\ Elsewhere(s)
  BY <1>2, <1>3, SessionWritten
<1>5. QED
  BY <1>1, <1>4 DEF Session

\* The credential failed verification.
LEMMA Distrusting ==
    ASSUME SessionsOK, NEW s \in Sids,
           ses' = [ses EXCEPT ![s].unverified = TRUE]
    PROVE  /\ SessionsOK' /\ Elsewhere(s)
           /\ ses'[s].unverified = TRUE
           /\ ses'[s].root = ses[s].root /\ ses'[s].prot = ses[s].prot /\ ses'[s].guard = ses[s].guard
           /\ ses'[s].auth = ses[s].auth /\ ses'[s].live = ses[s].live /\ ses'[s].tracked = ses[s].tracked
           /\ ses'[s].gen = ses[s].gen /\ ses'[s].proof = ses[s].proof /\ ses'[s].good = ses[s].good
<1> DEFINE r == [ses[s] EXCEPT !.unverified = TRUE]
<1>1. ses[s] \in Session
  BY DEF SessionsOK
<1>2. r \in Session
  BY <1>1 DEF Session, Runs
<1>3. ses' = [ses EXCEPT ![s] = r]
  BY <1>1 DEF SessionsOK
<1>4. ses'[s] = r /\ SessionsOK' /\ Elsewhere(s)
  BY <1>2, <1>3, SessionWritten
<1>5. QED
  BY <1>1, <1>4 DEF Session

\* Session, protection, guard and projection are gone.
LEMMA Removing ==
    ASSUME SessionsOK, NEW s \in Sids,
           ses' = [ses EXCEPT ![s] = [@ EXCEPT !.root = FALSE, !.prot = FALSE, !.guard = Nil, !.auth = Nil]]
    PROVE  /\ SessionsOK' /\ Elsewhere(s)
           /\ ses'[s].root = FALSE /\ ses'[s].prot = FALSE /\ ses'[s].guard = Nil /\ ses'[s].auth = Nil
           /\ ses'[s].live = ses[s].live /\ ses'[s].tracked = ses[s].tracked /\ ses'[s].gen = ses[s].gen
           /\ ses'[s].proof = ses[s].proof /\ ses'[s].good = ses[s].good /\ ses'[s].unverified = ses[s].unverified
<1> DEFINE r1 == [ses[s] EXCEPT !.root = FALSE]
<1> DEFINE r2 == [r1 EXCEPT !.prot = FALSE]
<1> DEFINE r3 == [r2 EXCEPT !.guard = Nil]
<1> DEFINE r == [r3 EXCEPT !.auth = Nil]
<1>1. ses[s] \in Session
  BY DEF SessionsOK
<1>m1. r1 \in Session /\ r1.root = FALSE
      /\ r1.prot = ses[s].prot /\ r1.guard = ses[s].guard /\ r1.auth = ses[s].auth
      /\ r1.live = ses[s].live /\ r1.tracked = ses[s].tracked /\ r1.gen = ses[s].gen
      /\ r1.proof = ses[s].proof /\ r1.good = ses[s].good /\ r1.unverified = ses[s].unverified
  BY <1>1 DEF Session, Runs
<1>m2. r2 \in Session /\ r2.prot = FALSE
      /\ r2.root = r1.root /\ r2.guard = r1.guard /\ r2.auth = r1.auth
      /\ r2.live = r1.live /\ r2.tracked = r1.tracked /\ r2.gen = r1.gen
      /\ r2.proof = r1.proof /\ r2.good = r1.good /\ r2.unverified = r1.unverified
  BY <1>m1 DEF Session, Runs
<1>m3. r3 \in Session /\ r3.guard = Nil
      /\ r3.root = r2.root /\ r3.prot = r2.prot /\ r3.auth = r2.auth
      /\ r3.live = r2.live /\ r3.tracked = r2.tracked /\ r3.gen = r2.gen
      /\ r3.proof = r2.proof /\ r3.good = r2.good /\ r3.unverified = r2.unverified
  BY <1>m2 DEF Session, Runs
<1>2. r \in Session /\ r.auth = Nil
      /\ r.root = r3.root /\ r.prot = r3.prot /\ r.guard = r3.guard
      /\ r.live = r3.live /\ r.tracked = r3.tracked /\ r.gen = r3.gen
      /\ r.proof = r3.proof /\ r.good = r3.good /\ r.unverified = r3.unverified
  BY <1>m3 DEF Session, Runs
<1>3. ses' = [ses EXCEPT ![s] = r]
  BY <1>1 DEF SessionsOK
<1>4. ses'[s] = r /\ SessionsOK' /\ Elsewhere(s)
  BY <1>2, <1>3, SessionWritten
<1> HIDE DEF r1, r2, r3, r
<1>5. QED
  BY <1>1, <1>m1, <1>m2, <1>m3, <1>2, <1>4 DEF Elsewhere

\* An unprotected Session is deleted.
LEMMA Reclaiming ==
    ASSUME SessionsOK, NEW s \in Sids,
           ses' = [ses EXCEPT ![s].root = FALSE, ![s].auth = Nil]
    PROVE  /\ SessionsOK' /\ Elsewhere(s)
           /\ ses'[s].root = FALSE /\ ses'[s].auth = Nil
           /\ ses'[s].prot = ses[s].prot /\ ses'[s].guard = ses[s].guard /\ ses'[s].live = ses[s].live
           /\ ses'[s].tracked = ses[s].tracked /\ ses'[s].gen = ses[s].gen /\ ses'[s].proof = ses[s].proof
           /\ ses'[s].good = ses[s].good /\ ses'[s].unverified = ses[s].unverified
<1> DEFINE r1 == [ses[s] EXCEPT !.root = FALSE]
<1> DEFINE r == [r1 EXCEPT !.auth = Nil]
<1>1. ses[s] \in Session
  BY DEF SessionsOK
<1>m1. r1 \in Session /\ r1.root = FALSE
      /\ r1.prot = ses[s].prot /\ r1.guard = ses[s].guard /\ r1.auth = ses[s].auth
      /\ r1.live = ses[s].live /\ r1.tracked = ses[s].tracked /\ r1.gen = ses[s].gen
      /\ r1.proof = ses[s].proof /\ r1.good = ses[s].good /\ r1.unverified = ses[s].unverified
  BY <1>1 DEF Session, Runs
<1>2. r \in Session /\ r.auth = Nil
      /\ r.root = r1.root /\ r.prot = r1.prot /\ r.guard = r1.guard
      /\ r.live = r1.live /\ r.tracked = r1.tracked /\ r.gen = r1.gen
      /\ r.proof = r1.proof /\ r.good = r1.good /\ r.unverified = r1.unverified
  BY <1>m1 DEF Session, Runs
<1>3. ses' = [ses EXCEPT ![s] = r]
  BY <1>1 DEF SessionsOK
<1>4. ses'[s] = r /\ SessionsOK' /\ Elsewhere(s)
  BY <1>2, <1>3, SessionWritten
<1> HIDE DEF r1, r
<1>5. QED
  BY <1>1, <1>m1, <1>2, <1>4 DEF Elsewhere

\* The kernel releases guards and changes nothing else in a Session.
LEMMA Dropped ==
    ASSUME SessionsOK, NEW p, \/ DropGuards(p) \/ ses' = ses
    PROVE  /\ SessionsOK'
           /\ \A t \in Sids : /\ ses'[t].root = ses[t].root /\ ses'[t].prot = ses[t].prot
                              /\ ses'[t].auth = ses[t].auth /\ ses'[t].live = ses[t].live
                              /\ ses'[t].proof = ses[t].proof /\ ses'[t].good = ses[t].good
                              /\ ses'[t].unverified = ses[t].unverified
                              /\ ses'[t].guard \in {ses[t].guard, Nil}
                              /\ (ses'[t].guard # ses[t].guard => ses[t].guard = p)
<1>1. CASE ses' = ses
  BY <1>1 DEF SessionsOK
<1>2. CASE DropGuards(p)
  <2>1. ASSUME NEW t \in Sids
        PROVE  /\ [ses[t] EXCEPT !.guard = Nil] \in Session
               /\ \A r : r = [ses[t] EXCEPT !.guard = Nil] =>
                    /\ r.root = ses[t].root /\ r.prot = ses[t].prot /\ r.auth = ses[t].auth
                    /\ r.live = ses[t].live /\ r.proof = ses[t].proof /\ r.good = ses[t].good
                    /\ r.unverified = ses[t].unverified /\ r.guard = Nil
    <3>1. ses[t] \in Session
      BY DEF SessionsOK
    <3>2. QED
      BY <3>1 DEF Session
  <2>2. ses' \in [Sids -> Session]
    BY <1>2, <2>1 DEF DropGuards, SessionsOK
  <2>3. QED
    BY <1>2, <2>1, <2>2 DEF DropGuards, SessionsOK
<1>3. QED
  BY <1>1, <1>2

-----------------------------------------------------------------------------
(* The steps taken under the identity lock, one lemma for each. *)

\* Whoever is not the holder of the lock is idle or waits: only what the holder
\* knows has to be shown again.
LEMMA OnlyHolder ==
    ASSUME IndInv, NEW p \in Procs, lock \in {p, Nil}, CommandInv(p)', RecoverInv(p)',
           \A q \in Procs \ {p} : pc'[q] = pc[q] /\ seen'[q] = seen[q]
    PROVE  StepInv'
<1>1. \A q \in Procs \ {p} : pc[q] \in {"idle", "wait"} /\ RecoverInv(q)
  BY NamesAssumption DEF IndInv, LockInv, StepInv
<1>2. ASSUME NEW q \in Procs \ {p} PROVE CommandInv(q)' /\ RecoverInv(q)'
  BY <1>1, <1>2 DEF CommandInv, RecoverInv, Unstarted, Protected, Own, Undecided, Recovers
<1>3. QED
  BY <1>2 DEF StepInv

\* A refused command has only the lock to give back.
LEMMA PreflightFailsHolds == ASSUME IndInv, NEW p \in Procs, PreflightFails(p) PROVE IndInv'
<1>1. pc[p] = "create" /\ lock = p
  BY DEF PreflightFails, IndInv, LockInv
<1>2. CommandInv(p) /\ RecoverInv(p)
  BY DEF IndInv, StepInv
<1>3. ControlOK /\ RecordsOK /\ SessionsOK /\ LockInv /\ MarkerInv /\ SessionInv /\ CredInv
  BY DEF IndInv
<1>a. ControlOK'
  BY <1>1, <1>2, <1>3, BoundsAssumption DEF PreflightFails, Goto, Fault, ControlOK, Labels, Runs,
     durable, binding, command, Sids, CommandInv
<1>b. RecordsOK'
  BY <1>1, <1>2, <1>3 DEF PreflightFails, Goto, Fault, ControlOK, RecordsOK, SessionsOK, Session,
     Marker, Phases, Runs, durable, binding, command, CommandInv
<1>c. SessionsOK'
  BY <1>1, <1>2, <1>3 DEF PreflightFails, Goto, Fault, ControlOK, RecordsOK, SessionsOK, Session, Runs,
     durable, binding, command
<1>d. LockInv'
  BY <1>1, <1>2, <1>3, NamesAssumption DEF PreflightFails, Goto, Fault, ControlOK, LockInv, durable,
     binding, command
<1>e. MarkerInv'
  BY <1>1, <1>2, <1>3, NamesAssumption DEF PreflightFails, Goto, Fault, MarkerInv, ControlOK,
     RecordsOK, SessionsOK, Session, Marker, Phases, durable, binding, command, CommandInv, RecoverInv,
     SessionInv, Unstarted, Protected, Own, Undecided, Recovers
<1>f. SessionInv'
  BY <1>1, <1>2, <1>3, NamesAssumption DEF PreflightFails, Goto, Fault, SessionInv, CredInv, ControlOK,
     RecordsOK, SessionsOK, Session, Marker, durable, binding, command, CommandInv, RecoverInv,
     Unstarted, Protected, Own, Undecided, Recovers
<1>g. CredInv'
  BY <1>1, <1>2, <1>3 DEF PreflightFails, Goto, Fault, CredInv, SessionInv, ControlOK, SessionsOK,
     Session, Credential, durable, binding, command, verifiable, refreshes
<1>h. CommandInv(p)'
  BY <1>1, <1>2, <1>3, NamesAssumption DEF PreflightFails, Goto, Fault, MarkerInv, SessionInv,
     ControlOK, RecordsOK, SessionsOK, Session, Marker, Phases, Runs, Labels, durable, binding,
     command, CommandInv, RecoverInv, Decided, Unstarted, Protected, Own, Undecided, Recovers
<1>i. RecoverInv(p)'
  BY <1>1, <1>2, <1>3, NamesAssumption DEF PreflightFails, Goto, Fault, MarkerInv, SessionInv,
     ControlOK, RecordsOK, SessionsOK, Session, Marker, Phases, durable, binding, command, CommandInv,
     RecoverInv, Decided, Unstarted, Protected, Own, Undecided, Recovers
<1>j. \A q \in Procs \ {p} : pc'[q] = pc[q] /\ seen'[q] = seen[q]
  BY <1>3 DEF PreflightFails, Goto, Fault, ControlOK, RecordsOK, durable, binding, command
<1>k. QED
  BY <1>1, <1>2, <1>3, <1>a, <1>b, <1>c, <1>d, <1>e, <1>f, <1>g, <1>h, <1>i, <1>j, OnlyHolder DEF IndInv

\* The new Session was never used: no process, no projection.
LEMMA CreateSessionHolds == ASSUME IndInv, NEW p \in Procs, CreateSession(p) PROVE IndInv'
<1>1. pc[p] = "create" /\ lock = p
  BY DEF CreateSession, IndInv, LockInv
<1>2. CommandInv(p) /\ RecoverInv(p)
  BY DEF IndInv, StepInv
<1>3. ControlOK /\ RecordsOK /\ SessionsOK /\ LockInv /\ MarkerInv /\ SessionInv /\ CredInv
  BY DEF IndInv
<1>4. PICK s \in Sids : /\ ses[s] = NoSession /\ ses' = [ses EXCEPT ![s].root = TRUE, ![s].guard = p]
                       /\ sid' = [sid EXCEPT ![p] = s]
  BY DEF CreateSession
<1>5. /\ SessionsOK' /\ Elsewhere(s) /\ ses'[s].root = TRUE /\ ses'[s].guard = p
      /\ ses'[s].live = FALSE /\ ses'[s].auth = Nil /\ ses'[s].prot = FALSE
  <2>1. /\ SessionsOK' /\ Elsewhere(s) /\ ses'[s].root = TRUE /\ ses'[s].guard = p
        /\ ses'[s].live = ses[s].live /\ ses'[s].auth = ses[s].auth /\ ses'[s].prot = ses[s].prot
    BY <1>3, <1>4, Opening
  <2>2. ses[s].live = FALSE /\ ses[s].auth = Nil /\ ses[s].prot = FALSE
    BY <1>4 DEF NoSession
  <2>3. QED
    BY <2>1, <2>2
<1>a. ControlOK'
  BY <1>1, <1>2, <1>3, BoundsAssumption DEF CreateSession, Goto, ControlOK, Labels, Runs, durable,
     binding, command, Sids, CommandInv
<1>b. RecordsOK'
  BY <1>1, <1>2, <1>3 DEF CreateSession, Goto, ControlOK, RecordsOK, SessionsOK, Session, Marker,
     Phases, Runs, durable, binding, command, CommandInv
<1>c. SessionsOK'
  BY <1>3, <1>4, <1>5 DEF CreateSession, SessionsOK, durable, binding, command
<1>d. LockInv'
  BY <1>1, <1>2, <1>3, NamesAssumption DEF CreateSession, Goto, ControlOK, LockInv, durable, binding,
     command
<1>e. MarkerInv'
  BY <1>1, <1>2, <1>3, NamesAssumption DEF CreateSession, Goto, MarkerInv, ControlOK, RecordsOK,
     SessionsOK, Session, Marker, Phases, durable, binding, command, CommandInv, RecoverInv,
     SessionInv, Unstarted, Protected, Own, Undecided, Recovers
<1>f. SessionInv'
  BY <1>1, <1>2, <1>3, NamesAssumption DEF CreateSession, Goto, SessionInv, CredInv, ControlOK,
     RecordsOK, SessionsOK, Session, Marker, durable, binding, command, CommandInv, RecoverInv,
     Unstarted, Protected, Own, Undecided, Recovers
<1>g. CredInv'
  BY <1>1, <1>2, <1>3 DEF CreateSession, Goto, CredInv, SessionInv, ControlOK, SessionsOK, Session,
     Credential, durable, binding, command, verifiable, refreshes
<1>h. CommandInv(p)'
  BY <1>1, <1>2, <1>3, NamesAssumption DEF CreateSession, Goto, MarkerInv, SessionInv, ControlOK,
     RecordsOK, SessionsOK, Session, Marker, Phases, Runs, Labels, durable, binding, command,
     CommandInv, RecoverInv, Decided, Unstarted, Protected, Own, Undecided, Recovers
<1>i. RecoverInv(p)'
  BY <1>1, <1>2, <1>3, NamesAssumption DEF CreateSession, Goto, MarkerInv, SessionInv, ControlOK,
     RecordsOK, SessionsOK, Session, Marker, Phases, durable, binding, command, CommandInv, RecoverInv,
     Decided, Unstarted, Protected, Own, Undecided, Recovers
<1>j. \A q \in Procs \ {p} : pc'[q] = pc[q] /\ seen'[q] = seen[q]
  BY <1>3 DEF CreateSession, Goto, ControlOK, RecordsOK, durable, binding, command
<1>k. QED
  BY <1>1, <1>2, <1>3, <1>a, <1>b, <1>c, <1>d, <1>e, <1>f, <1>g, <1>h, <1>i, <1>j, OnlyHolder DEF IndInv

\* The first marker is written while there is no other.
LEMMA PublishPreparedHolds == ASSUME IndInv, NEW p \in Procs, PublishPrepared(p) PROVE IndInv'
<1>1. pc[p] = "publish" /\ lock = p
  BY DEF PublishPrepared, IndInv, LockInv
<1>2. CommandInv(p) /\ RecoverInv(p)
  BY DEF IndInv, StepInv
<1>3. ControlOK /\ RecordsOK /\ SessionsOK /\ LockInv /\ MarkerInv /\ SessionInv /\ CredInv
  BY DEF IndInv
<1> DEFINE m == [sid |-> sid[p], phase |-> "prepared", chal |-> 0, refresh |-> FALSE]
<1>4. m \in Marker /\ m.sid = sid[p] /\ m.phase = "prepared" /\ m.refresh = FALSE
  BY <1>1, <1>2, <1>3 DEF Marker, Phases, Runs, ControlOK, CommandInv
<1> HIDE DEF m
<1>5. \/ marker' = m /\ pc' = [pc EXCEPT ![p] = "protect"]
      \/ marker' \in {marker, m} /\ pc' = [pc EXCEPT ![p] = "unpublished"]
  BY DEF PublishPrepared, WriteMarker, Goto, m
<1>a. ControlOK'
  BY <1>1, <1>2, <1>3, BoundsAssumption DEF PublishPrepared, Goto, Fault, WriteMarker, ControlOK,
     Labels, Runs, durable, binding, command, Sids, CommandInv
<1>b. RecordsOK'
  BY <1>3, <1>4, <1>5 DEF PublishPrepared, RecordsOK, durable, binding, command
<1>c. SessionsOK'
  BY <1>1, <1>2, <1>3 DEF PublishPrepared, Goto, Fault, WriteMarker, ControlOK, RecordsOK, SessionsOK,
     Session, Runs, durable, binding, command
<1>d. LockInv'
  BY <1>1, <1>2, <1>3, NamesAssumption DEF PublishPrepared, Goto, Fault, WriteMarker, ControlOK,
     LockInv, durable, binding, command
<1>e. MarkerInv'
  BY <1>1, <1>2, <1>3, NamesAssumption DEF PublishPrepared, Goto, Fault, WriteMarker, MarkerInv,
     ControlOK, RecordsOK, SessionsOK, Session, Marker, Phases, durable, binding, command, CommandInv,
     RecoverInv, SessionInv, Unstarted, Protected, Own, Undecided, Recovers
<1>f. SessionInv'
  BY <1>1, <1>2, <1>3, NamesAssumption DEF PublishPrepared, Goto, Fault, WriteMarker, SessionInv,
     CredInv, ControlOK, RecordsOK, SessionsOK, Session, Marker, durable, binding, command, CommandInv,
     RecoverInv, Unstarted, Protected, Own, Undecided, Recovers
<1>g. CredInv'
  BY <1>1, <1>2, <1>3 DEF PublishPrepared, Goto, Fault, WriteMarker, CredInv, SessionInv, ControlOK,
     SessionsOK, Session, Credential, durable, binding, command, verifiable, refreshes
<1>h. CommandInv(p)'
  BY <1>1, <1>2, <1>3, <1>4, <1>5, NamesAssumption DEF PublishPrepared, FailProven, currentGeneration,
     Elsewhere, MarkerInv, SessionInv, ControlOK, RecordsOK, Phases, Runs, durable, binding, command,
     CommandInv, RecoverInv, Decided, Unstarted, Protected, Own, Undecided, Recovers
<1>i. RecoverInv(p)'
  BY <1>1, <1>2, <1>3, NamesAssumption DEF PublishPrepared, Goto, Fault, WriteMarker, MarkerInv,
     SessionInv, ControlOK, RecordsOK, SessionsOK, Session, Marker, Phases, durable, binding, command,
     CommandInv, RecoverInv, Decided, Unstarted, Protected, Own, Undecided, Recovers
<1>j. \A q \in Procs \ {p} : pc'[q] = pc[q] /\ seen'[q] = seen[q]
  BY <1>3 DEF PublishPrepared, Goto, Fault, WriteMarker, ControlOK, RecordsOK, durable, binding, command
<1>k. QED
  BY <1>1, <1>2, <1>3, <1>a, <1>b, <1>c, <1>d, <1>e, <1>f, <1>g, <1>h, <1>i, <1>j, OnlyHolder DEF IndInv

\* Whatever is left of an uncertain publication is this command's own.
LEMMA PublishFailedHolds == ASSUME IndInv, NEW p \in Procs, PublishFailed(p) PROVE IndInv'
<1>1. pc[p] = "unpublished" /\ lock = p
  BY DEF PublishFailed, IndInv, LockInv
<1>2. CommandInv(p) /\ RecoverInv(p)
  BY DEF IndInv, StepInv
<1>3. ControlOK /\ RecordsOK /\ SessionsOK /\ LockInv /\ MarkerInv /\ SessionInv /\ CredInv
  BY DEF IndInv
<1>4. SessionsOK'
  <2>1. CASE ses' = [ses EXCEPT ![sid[p]].root = FALSE, ![sid[p]].guard = Nil]
    BY <1>3, <2>1, Dropping DEF ControlOK
  <2>2. CASE ses' = [ses EXCEPT ![sid[p]].prot = TRUE, ![sid[p]].guard = Nil]
    BY <1>3, <2>2, Retaining DEF ControlOK
  <2>3. QED
    BY <2>1, <2>2 DEF PublishFailed
<1>a. ControlOK'
  BY <1>1, <1>2, <1>3, BoundsAssumption DEF PublishFailed, Goto, Fault, currentGeneration, ControlOK,
     Labels, Runs, durable, binding, command, Sids, CommandInv
<1>b. RecordsOK'
  <2>1. marker' = marker \/ (marker # Nil /\ marker' = [marker EXCEPT !.phase = "recoverable"])
    BY DEF PublishFailed, currentGeneration
  <2>2. marker # Nil => [marker EXCEPT !.phase = "recoverable"] \in Marker
    BY <1>3 DEF RecordsOK, Marker, Phases
  <2>3. QED
    BY <1>3, <2>1, <2>2 DEF PublishFailed, RecordsOK, command, binding
<1>c. SessionsOK'
  BY <1>3, <1>4 DEF PublishFailed, SessionsOK, durable, binding, command
<1>d. LockInv'
  BY <1>1, <1>2, <1>3, NamesAssumption DEF PublishFailed, Goto, Fault, currentGeneration, ControlOK,
     LockInv, durable, binding, command
<1>e. MarkerInv'
  BY <1>1, <1>2, <1>3, NamesAssumption DEF PublishFailed, Goto, Fault, currentGeneration, MarkerInv,
     ControlOK, RecordsOK, SessionsOK, Session, Marker, Phases, durable, binding, command, CommandInv,
     RecoverInv, SessionInv, Unstarted, Protected, Own, Undecided, Recovers
<1>f. SessionInv'
  BY <1>1, <1>2, <1>3, NamesAssumption DEF PublishFailed, Goto, Fault, currentGeneration, SessionInv,
     CredInv, ControlOK, RecordsOK, SessionsOK, Session, Marker, durable, binding, command, CommandInv,
     RecoverInv, Unstarted, Protected, Own, Undecided, Recovers
<1>g. CredInv'
  BY <1>1, <1>2, <1>3 DEF PublishFailed, Goto, Fault, currentGeneration, CredInv, SessionInv,
     ControlOK, SessionsOK, Session, Credential, durable, binding, command, verifiable, refreshes
<1>h. CommandInv(p)'
  BY <1>1, <1>2, <1>3, NamesAssumption DEF PublishFailed, Goto, Fault, currentGeneration, MarkerInv,
     SessionInv, ControlOK, RecordsOK, SessionsOK, Session, Marker, Phases, Runs, Labels, durable,
     binding, command, CommandInv, RecoverInv, Decided, Unstarted, Protected, Own, Undecided, Recovers
<1>i. RecoverInv(p)'
  BY <1>1, <1>2, <1>3, NamesAssumption DEF PublishFailed, Goto, Fault, currentGeneration, MarkerInv,
     SessionInv, ControlOK, RecordsOK, SessionsOK, Session, Marker, Phases, durable, binding, command,
     CommandInv, RecoverInv, Decided, Unstarted, Protected, Own, Undecided, Recovers
<1>j. \A q \in Procs \ {p} : pc'[q] = pc[q] /\ seen'[q] = seen[q]
  BY <1>3 DEF PublishFailed, Goto, Fault, currentGeneration, ControlOK, RecordsOK, durable, binding,
     command
<1>k. QED
  BY <1>1, <1>2, <1>3, <1>a, <1>b, <1>c, <1>d, <1>e, <1>f, <1>g, <1>h, <1>i, <1>j, OnlyHolder DEF IndInv

\* The projection follows only after the protection.
LEMMA ProtectHolds == ASSUME IndInv, NEW p \in Procs, Protect(p) PROVE IndInv'
<1>1. pc[p] = "protect" /\ lock = p
  BY DEF Protect, IndInv, LockInv
<1>2. CommandInv(p) /\ RecoverInv(p)
  BY DEF IndInv, StepInv
<1>3. ControlOK /\ RecordsOK /\ SessionsOK /\ LockInv /\ MarkerInv /\ SessionInv /\ CredInv
  BY DEF IndInv
<1>4. \/ /\ SessionsOK' /\ Elsewhere(sid[p])
         /\ ses'[sid[p]].prot = TRUE /\ ses'[sid[p]].root = ses[sid[p]].root
         /\ ses'[sid[p]].auth = ses[sid[p]].auth /\ ses'[sid[p]].live = ses[sid[p]].live
         /\ ses'[sid[p]].proof = ses[sid[p]].proof
      \/ ses' = ses
  BY <1>3, Protecting DEF Protect, ControlOK
<1>a. ControlOK'
  BY <1>1, <1>2, <1>3, BoundsAssumption DEF Protect, Goto, Fault, ControlOK, Labels, Runs, durable,
     binding, command, Sids, CommandInv
<1>b. RecordsOK'
  BY <1>1, <1>2, <1>3 DEF Protect, Goto, Fault, ControlOK, RecordsOK, SessionsOK, Session, Marker,
     Phases, Runs, durable, binding, command, CommandInv
<1>c. SessionsOK'
  BY <1>3, <1>4 DEF Protect, SessionsOK, durable, binding, command
<1>d. LockInv'
  BY <1>1, <1>2, <1>3, NamesAssumption DEF Protect, Goto, Fault, ControlOK, LockInv, durable, binding,
     command
<1>e. MarkerInv'
  <2>1. marker' = marker /\ (marker # Nil => marker.sid \in Sids) /\ sid[p] \in Sids
    BY <1>3 DEF Protect, ControlOK, RecordsOK, Marker
  <2>2. CASE ses' = ses
    BY <1>3, <2>1, <2>2 DEF MarkerInv
  <2>3. CASE ses' = [ses EXCEPT ![sid[p]].prot = TRUE]
    <3>1. /\ Elsewhere(sid[p]) /\ ses'[sid[p]].prot = TRUE /\ ses'[sid[p]].root = ses[sid[p]].root
          /\ ses'[sid[p]].live = ses[sid[p]].live /\ ses'[sid[p]].good = ses[sid[p]].good
      BY <1>3, <2>1, <2>3, Protecting
    <3>2. QED
      BY <1>3, <2>1, <3>1 DEF MarkerInv, Elsewhere
  <2>4. QED
    BY <2>2, <2>3 DEF Protect
<1>f. SessionInv'
  BY <1>1, <1>2, <1>3, <1>4, NamesAssumption DEF Protect, currentGeneration, Elsewhere, SessionInv,
     CredInv, ControlOK, RecordsOK, durable, binding, command, CommandInv, RecoverInv, refreshes,
     verifiable, Unstarted, Protected, Own, Undecided, Recovers
<1>g. CredInv'
  BY <1>1, <1>2, <1>3 DEF Protect, Goto, Fault, CredInv, SessionInv, ControlOK, SessionsOK, Session,
     Credential, durable, binding, command, verifiable, refreshes
<1>h. CommandInv(p)'
  <2>1. UNCHANGED <<cred, marker, lock, sid, chal, snap, failed, op, seen>>
    BY DEF Protect, command, binding
  <2>2. /\ chal[p] = 0 /\ ~failed[p] /\ marker # Nil /\ marker.sid = sid[p] /\ ~marker.refresh
        /\ ses[sid[p]].root /\ ~ses[sid[p]].live /\ op[p] \in {"login", "status", "run"}
        /\ op[p] \in {"status", "run"} => snap[p] = cred /\ cred # Nil
    BY <1>1, <1>2 DEF CommandInv, Own, Unstarted, Undecided
  <2>3. \/ pc'[p] = "abandon"
        \/ pc'[p] = "advance" /\ op[p] = "login" /\ ses'[sid[p]].prot
        \/ pc'[p] = "project" /\ op[p] # "login" /\ ses'[sid[p]].prot
    <3>1. CASE /\ ses' = [ses EXCEPT ![sid[p]].prot = TRUE]
               /\ Goto(p, IF op[p] = "login" THEN "advance" ELSE "project")
      <4>1. sid[p] \in Sids
        BY <1>3 DEF ControlOK
      <4>2. ses'[sid[p]].prot
        BY <1>3, <3>1, <4>1, Protecting
      <4>3. QED
        BY <1>3, <3>1, <4>2 DEF Goto, ControlOK
    <3>2. CASE Goto(p, "abandon")
      BY <1>3, <3>2 DEF Goto, ControlOK
    <3>3. QED
      BY <3>1, <3>2 DEF Protect
  <2>4. ses'[sid[p]].root /\ ~ses'[sid[p]].live
    BY <1>4, <2>2
  <2>5. QED
    BY <2>1, <2>2, <2>3, <2>4 DEF CommandInv, Runs, Unstarted, Protected, Own, Undecided
<1>i. RecoverInv(p)'
  BY <1>1, <1>2, <1>3, NamesAssumption DEF Protect, Goto, Fault, MarkerInv, SessionInv, ControlOK,
     RecordsOK, SessionsOK, Session, Marker, Phases, durable, binding, command, CommandInv, RecoverInv,
     Decided, Unstarted, Protected, Own, Undecided, Recovers
<1>j. \A q \in Procs \ {p} : pc'[q] = pc[q] /\ seen'[q] = seen[q]
  BY <1>3 DEF Protect, Goto, Fault, ControlOK, RecordsOK, durable, binding, command
<1>k. QED
  BY <1>1, <1>2, <1>3, <1>a, <1>b, <1>c, <1>d, <1>e, <1>f, <1>g, <1>h, <1>i, <1>j, OnlyHolder DEF IndInv

\* The projection is the stored record.
LEMMA ProjectHolds == ASSUME IndInv, NEW p \in Procs, Project(p) PROVE IndInv'
<1>1. pc[p] = "project" /\ lock = p
  BY DEF Project, IndInv, LockInv
<1>2. CommandInv(p) /\ RecoverInv(p)
  BY DEF IndInv, StepInv
<1>3. ControlOK /\ RecordsOK /\ SessionsOK /\ LockInv /\ MarkerInv /\ SessionInv /\ CredInv
  BY DEF IndInv
<1>4. \/ /\ SessionsOK' /\ Elsewhere(sid[p])
         /\ ses'[sid[p]].prot = ses[sid[p]].prot /\ ses'[sid[p]].root = ses[sid[p]].root
         /\ ses'[sid[p]].auth = snap[p] /\ ses'[sid[p]].live = ses[sid[p]].live
         /\ ses'[sid[p]].proof = ses[sid[p]].proof /\ ses'[sid[p]].good = ses[sid[p]].good
      \/ ses' = ses
  BY <1>3, Writing DEF Project, ControlOK, RecordsOK
<1>5. pc' = [pc EXCEPT ![p] = "advance"] \/ pc' = [pc EXCEPT ![p] = "abandon"]
  BY DEF Project, Goto
<1>6. snap[p] = cred /\ cred # Nil
  BY <1>1, <1>2 DEF CommandInv, Undecided, Protected
<1>a. ControlOK'
  BY <1>1, <1>2, <1>3, BoundsAssumption DEF Project, Goto, Fault, ControlOK, Labels, Runs, durable,
     binding, command, Sids, CommandInv
<1>b. RecordsOK'
  BY <1>1, <1>2, <1>3 DEF Project, Goto, Fault, ControlOK, RecordsOK, SessionsOK, Session, Marker,
     Phases, Runs, durable, binding, command, CommandInv
<1>c. SessionsOK'
  BY <1>3, <1>4, <1>5, <1>6 DEF Project, SessionsOK, durable, binding, command
<1>d. LockInv'
  BY <1>1, <1>2, <1>3, NamesAssumption DEF Project, Goto, Fault, ControlOK, LockInv, durable, binding,
     command
<1>e. MarkerInv'
  BY <1>1, <1>2, <1>3, <1>4, <1>5, <1>6, NamesAssumption DEF Project, currentGeneration, Elsewhere,
     MarkerInv, ControlOK, RecordsOK, Marker, Phases, durable, binding, command, CommandInv,
     RecoverInv, SessionInv, Unstarted, Protected, Own, Undecided, Recovers
<1>f. SessionInv'
  BY <1>1, <1>2, <1>3, <1>4, <1>5, <1>6, NamesAssumption DEF Project, currentGeneration, Elsewhere,
     SessionInv, CredInv, ControlOK, RecordsOK, durable, binding, command, CommandInv, RecoverInv,
     refreshes, verifiable, Unstarted, Protected, Own, Undecided, Recovers
<1>g. CredInv'
  BY <1>1, <1>2, <1>3 DEF Project, Goto, Fault, CredInv, SessionInv, ControlOK, SessionsOK, Session,
     Credential, durable, binding, command, verifiable, refreshes
<1>h. CommandInv(p)'
  BY <1>1, <1>2, <1>3, <1>4, <1>5, <1>6, NamesAssumption DEF Project, FailProven, currentGeneration,
     Elsewhere, MarkerInv, SessionInv, ControlOK, RecordsOK, Phases, Runs, durable, binding, command,
     CommandInv, RecoverInv, Decided, Unstarted, Protected, Own, Undecided, Recovers
<1>i. RecoverInv(p)'
  BY <1>1, <1>2, <1>3, NamesAssumption DEF Project, Goto, Fault, MarkerInv, SessionInv, ControlOK,
     RecordsOK, SessionsOK, Session, Marker, Phases, durable, binding, command, CommandInv, RecoverInv,
     Decided, Unstarted, Protected, Own, Undecided, Recovers
<1>j. \A q \in Procs \ {p} : pc'[q] = pc[q] /\ seen'[q] = seen[q]
  BY <1>3 DEF Project, Goto, Fault, ControlOK, RecordsOK, durable, binding, command
<1>k. QED
  BY <1>1, <1>2, <1>3, <1>a, <1>b, <1>c, <1>d, <1>e, <1>f, <1>g, <1>h, <1>i, <1>j, OnlyHolder DEF IndInv

\* The marker moves to the next generation while nothing runs.
LEMMA AdvanceCleanupChallengeHolds == ASSUME IndInv, NEW p \in Procs, AdvanceCleanupChallenge(p) PROVE IndInv'
<1>1. pc[p] = "advance" /\ lock = p
  BY DEF AdvanceCleanupChallenge, IndInv, LockInv
<1>2. CommandInv(p) /\ RecoverInv(p)
  BY DEF IndInv, StepInv
<1>3. ControlOK /\ RecordsOK /\ SessionsOK /\ LockInv /\ MarkerInv /\ SessionInv /\ CredInv
  BY DEF IndInv
<1>n. chal[p] + 1 \in 0..Runs
  BY <1>1, <1>2, <1>3 DEF CommandInv, ControlOK, Runs
<1> DEFINE m0 == [marker EXCEPT !.phase = "prepared"]
           m == [marker EXCEPT !.phase = "prepared", !.chal = chal[p] + 1]
<1>m. marker \in Marker
  BY <1>1, <1>2, <1>3 DEF CommandInv, RecordsOK, Own, Unstarted, Undecided
<1>o. m0 \in Marker /\ m0.phase = "prepared" /\ m0.sid = marker.sid /\ m0.refresh = marker.refresh
  BY <1>m DEF Marker, Phases
<1>q. m = [m0 EXCEPT !.chal = chal[p] + 1]
  OBVIOUS
<1>4. m \in Marker /\ m.phase = "prepared" /\ m.sid = marker.sid /\ m.refresh = marker.refresh
      /\ m.chal = chal[p] + 1
  BY <1>o, <1>q, <1>n DEF Marker, Runs
<1> HIDE DEF m, m0
<1>5. \/ marker' = marker /\ pc' = [pc EXCEPT ![p] = "recoverable"]
      \/ /\ currentGeneration(p, {"prepared", "pending"}) /\ marker' = m
         /\ pc' \in {[pc EXCEPT ![p] = "arm"], [pc EXCEPT ![p] = "recoverable"]}
  BY DEF AdvanceCleanupChallenge, UpdateMarker, WriteMarker, Goto, m
<1>a. ControlOK'
  <2>1. pc' \in [Procs -> Labels]
    BY <1>3 DEF AdvanceCleanupChallenge, Goto, Fault, UpdateMarker, WriteMarker, currentGeneration,
       FailProven, ControlOK, Labels
  <2>2. failed' \in [Procs -> BOOLEAN] /\ chal' \in [Procs -> 0..Runs]
    BY <1>3, <1>n DEF AdvanceCleanupChallenge, FailProven, ControlOK, binding
  <2>3. faults' \in 0..MaxFaults
    BY <1>3, BoundsAssumption DEF AdvanceCleanupChallenge, Goto, Fault, UpdateMarker, WriteMarker,
       currentGeneration, FailProven, ControlOK
  <2>4. QED
    BY <1>3, <2>1, <2>2, <2>3 DEF AdvanceCleanupChallenge, ControlOK, durable, binding, command
<1>b. RecordsOK'
  BY <1>3, <1>n, <1>m, <1>o, <1>q, <1>4, <1>5 DEF AdvanceCleanupChallenge, RecordsOK, durable, binding,
     command
<1>c. SessionsOK'
  BY <1>1, <1>2, <1>3 DEF AdvanceCleanupChallenge, Goto, Fault, UpdateMarker, WriteMarker,
     currentGeneration, FailProven, ControlOK, RecordsOK, SessionsOK, Session, Runs, durable, binding,
     command
<1>d. LockInv'
  BY <1>1, <1>2, <1>3, NamesAssumption DEF AdvanceCleanupChallenge, Goto, Fault, UpdateMarker,
     WriteMarker, currentGeneration, FailProven, ControlOK, LockInv, durable, binding, command
<1>e. MarkerInv'
  BY <1>1, <1>2, <1>3, <1>n, <1>m, <1>o, <1>q, <1>4, <1>5, NamesAssumption DEF AdvanceCleanupChallenge,
     currentGeneration, Elsewhere, MarkerInv, ControlOK, RecordsOK, Marker, Phases, durable, binding,
     command, CommandInv, RecoverInv, SessionInv, Unstarted, Protected, Own, Undecided, Recovers
<1>f. SessionInv'
  BY <1>3, <1>4, <1>5, NamesAssumption DEF AdvanceCleanupChallenge, SessionInv, durable
<1>g. CredInv'
  BY <1>1, <1>2, <1>3 DEF AdvanceCleanupChallenge, Goto, Fault, UpdateMarker, WriteMarker,
     currentGeneration, FailProven, CredInv, SessionInv, ControlOK, SessionsOK, Session, Credential,
     durable, binding, command, verifiable, refreshes
<1>h. CommandInv(p)'
  <2>1. CASE pc' = [pc EXCEPT ![p] = "arm"] /\ marker' = m
    BY <1>1, <1>2, <1>3, <1>4, <1>n, <2>1, NamesAssumption DEF AdvanceCleanupChallenge, ControlOK,
       Runs, durable, binding, command, CommandInv, Decided, Unstarted, Protected, Own, Undecided
  <2>2. CASE pc' = [pc EXCEPT ![p] = "recoverable"] /\ marker' \in {marker, m}
    BY <1>1, <1>2, <1>3, <1>4, <2>2, NamesAssumption DEF AdvanceCleanupChallenge, FailProven,
       ControlOK, durable, binding, command, CommandInv, Decided, Unstarted, Protected, Own, Undecided
  <2>3. QED
    BY <1>5, <2>1, <2>2
<1>i. RecoverInv(p)'
  BY <1>1, <1>2, <1>3, NamesAssumption DEF AdvanceCleanupChallenge, Goto, Fault, UpdateMarker,
     WriteMarker, currentGeneration, FailProven, MarkerInv, SessionInv, ControlOK, RecordsOK,
     SessionsOK, Session, Marker, Phases, durable, binding, command, CommandInv, RecoverInv, Decided,
     Unstarted, Protected, Own, Undecided, Recovers
<1>j. \A q \in Procs \ {p} : pc'[q] = pc[q] /\ seen'[q] = seen[q]
  BY <1>3 DEF AdvanceCleanupChallenge, Goto, Fault, UpdateMarker, WriteMarker, currentGeneration,
     FailProven, ControlOK, RecordsOK, durable, binding, command
<1>k. QED
  BY <1>1, <1>2, <1>3, <1>a, <1>b, <1>c, <1>d, <1>e, <1>f, <1>g, <1>h, <1>i, <1>j, OnlyHolder DEF IndInv

\* The proof of a generation that has not started.
LEMMA ArmOperationHolds == ASSUME IndInv, NEW p \in Procs, ArmOperation(p) PROVE IndInv'
<1>1. pc[p] = "arm" /\ lock = p
  BY DEF ArmOperation, IndInv, LockInv
<1>2. CommandInv(p) /\ RecoverInv(p)
  BY DEF IndInv, StepInv
<1>3. ControlOK /\ RecordsOK /\ SessionsOK /\ LockInv /\ MarkerInv /\ SessionInv /\ CredInv
  BY DEF IndInv
<1>4. /\ SessionsOK' /\ Elsewhere(sid[p]) /\ ses'[sid[p]].prot = ses[sid[p]].prot
      /\ ses'[sid[p]].root = ses[sid[p]].root /\ ses'[sid[p]].auth = ses[sid[p]].auth
      /\ ses'[sid[p]].live = ses[sid[p]].live /\ ses'[sid[p]].good = ses[sid[p]].good
  <2>1. chal[p] \in 0..Runs /\ sid[p] \in Sids
    BY <1>3 DEF ControlOK
  <2>2. CASE ses' = [ses EXCEPT ![sid[p]].tracked = TRUE]
    BY <1>3, <2>1, <2>2, Tracking
  <2>3. CASE ses' = Armed(sid[p], chal[p])
    BY <1>3, <2>1, <2>3, Arming DEF Armed
  <2>4. CASE ses' = ses
    BY <1>3, <2>4 DEF SessionsOK, Elsewhere
  <2>5. QED
    BY <2>2, <2>3, <2>4 DEF ArmOperation
<1>5. ~ses[sid[p]].live
  BY <1>1, <1>2 DEF CommandInv, Own, Unstarted
<1>6. \/ pc' = [pc EXCEPT ![p] = "pending"] /\ UNCHANGED failed
      \/ pc' = [pc EXCEPT ![p] = "recoverable"] /\ failed' = [failed EXCEPT ![p] = TRUE]
  BY DEF ArmOperation, Goto, FailProven
<1>a. ControlOK'
  <2>1. pc' \in [Procs -> Labels]
    BY <1>3 DEF ArmOperation, Goto, Fault, FailProven, Armed, ControlOK, Labels
  <2>2. failed' \in [Procs -> BOOLEAN] /\ chal' \in [Procs -> 0..Runs]
    BY <1>3 DEF ArmOperation, FailProven, ControlOK, binding
  <2>3. faults' \in 0..MaxFaults
    BY <1>3, BoundsAssumption DEF ArmOperation, Goto, Fault, FailProven, Armed, ControlOK
  <2>4. QED
    BY <1>3, <2>1, <2>2, <2>3 DEF ArmOperation, ControlOK, durable, binding, command
<1>b. RecordsOK'
  BY <1>1, <1>2, <1>3 DEF ArmOperation, Goto, Fault, FailProven, Armed, ControlOK, RecordsOK,
     SessionsOK, Session, Marker, Phases, Runs, durable, binding, command, CommandInv
<1>c. SessionsOK'
  BY <1>3, <1>4, <1>5, <1>6 DEF ArmOperation, SessionsOK, durable, binding, command
<1>d. LockInv'
  BY <1>1, <1>2, <1>3, NamesAssumption DEF ArmOperation, Goto, Fault, FailProven, Armed, ControlOK,
     LockInv, durable, binding, command
<1>e. MarkerInv'
  BY <1>1, <1>2, <1>3, <1>4, <1>5, <1>6, NamesAssumption DEF ArmOperation, currentGeneration,
     Elsewhere, MarkerInv, ControlOK, RecordsOK, Marker, Phases, durable, binding, command, CommandInv,
     RecoverInv, SessionInv, Unstarted, Protected, Own, Undecided, Recovers
<1>f. SessionInv'
  BY <1>1, <1>2, <1>3, <1>4, <1>5, <1>6, NamesAssumption DEF ArmOperation, currentGeneration,
     Elsewhere, SessionInv, CredInv, ControlOK, RecordsOK, durable, binding, command, CommandInv,
     RecoverInv, refreshes, verifiable, Unstarted, Protected, Own, Undecided, Recovers
<1>g. CredInv'
  BY <1>1, <1>2, <1>3 DEF ArmOperation, Goto, Fault, FailProven, Armed, CredInv, SessionInv, ControlOK,
     SessionsOK, Session, Credential, durable, binding, command, verifiable, refreshes
<1>h. CommandInv(p)'
  BY <1>1, <1>2, <1>3, <1>4, <1>5, <1>6, NamesAssumption DEF ArmOperation, FailProven,
     currentGeneration, Elsewhere, MarkerInv, SessionInv, ControlOK, RecordsOK, Phases, Runs, durable,
     binding, command, CommandInv, RecoverInv, Decided, Unstarted, Protected, Own, Undecided, Recovers
<1>i. RecoverInv(p)'
  BY <1>1, <1>2, <1>3, NamesAssumption DEF ArmOperation, Goto, Fault, FailProven, Armed, MarkerInv,
     SessionInv, ControlOK, RecordsOK, SessionsOK, Session, Marker, Phases, durable, binding, command,
     CommandInv, RecoverInv, Decided, Unstarted, Protected, Own, Undecided, Recovers
<1>j. \A q \in Procs \ {p} : pc'[q] = pc[q] /\ seen'[q] = seen[q]
  BY <1>3 DEF ArmOperation, Goto, Fault, FailProven, Armed, ControlOK, RecordsOK, durable, binding,
     command
<1>k. QED
  BY <1>1, <1>2, <1>3, <1>a, <1>b, <1>c, <1>d, <1>e, <1>f, <1>g, <1>h, <1>i, <1>j, OnlyHolder DEF IndInv

\* The marker is pending before the process starts.
LEMMA MarkCleanupPendingHolds == ASSUME IndInv, NEW p \in Procs, MarkCleanupPending(p) PROVE IndInv'
<1>1. pc[p] = "pending" /\ lock = p
  BY DEF MarkCleanupPending, IndInv, LockInv
<1>2. CommandInv(p) /\ RecoverInv(p)
  BY DEF IndInv, StepInv
<1>3. ControlOK /\ RecordsOK /\ SessionsOK /\ LockInv /\ MarkerInv /\ SessionInv /\ CredInv
  BY DEF IndInv
<1> DEFINE m == [marker EXCEPT !.phase = "pending"]
<1>m. marker \in Marker
  BY <1>1, <1>2, <1>3 DEF CommandInv, RecordsOK, Own, Unstarted, Undecided
<1>4. m \in Marker /\ m.phase = "pending" /\ m.sid = marker.sid /\ m.chal = marker.chal /\ m.refresh = marker.refresh
  BY <1>m, <1>1, <1>2, <1>3 DEF Marker, Phases, Runs, ControlOK, CommandInv
<1> HIDE DEF m
<1>5. \/ marker' = marker /\ pc' = [pc EXCEPT ![p] = "recoverable"]
      \/ /\ currentGeneration(p, {"prepared", "pending"}) /\ marker' = m
         /\ pc' \in {[pc EXCEPT ![p] = "spawn"], [pc EXCEPT ![p] = "recoverable"]}
  BY DEF MarkCleanupPending, UpdateMarker, WriteMarker, Goto, m
<1>a. ControlOK'
  <2>1. pc' \in [Procs -> Labels]
    BY <1>3 DEF MarkCleanupPending, Goto, Fault, UpdateMarker, WriteMarker, currentGeneration,
       FailProven, ControlOK, Labels
  <2>2. failed' \in [Procs -> BOOLEAN] /\ chal' \in [Procs -> 0..Runs]
    BY <1>3 DEF MarkCleanupPending, FailProven, ControlOK, binding
  <2>3. faults' \in 0..MaxFaults
    BY <1>3, BoundsAssumption DEF MarkCleanupPending, Goto, Fault, UpdateMarker, WriteMarker,
       currentGeneration, FailProven, ControlOK
  <2>4. QED
    BY <1>3, <2>1, <2>2, <2>3 DEF MarkCleanupPending, ControlOK, durable, binding, command
<1>b. RecordsOK'
  BY <1>3, <1>m, <1>4, <1>5 DEF MarkCleanupPending, RecordsOK, durable, binding, command
<1>c. SessionsOK'
  BY <1>1, <1>2, <1>3 DEF MarkCleanupPending, Goto, Fault, UpdateMarker, WriteMarker,
     currentGeneration, FailProven, ControlOK, RecordsOK, SessionsOK, Session, Runs, durable, binding,
     command
<1>d. LockInv'
  BY <1>1, <1>2, <1>3, NamesAssumption DEF MarkCleanupPending, Goto, Fault, UpdateMarker, WriteMarker,
     currentGeneration, FailProven, ControlOK, LockInv, durable, binding, command
<1>e. MarkerInv'
  BY <1>1, <1>2, <1>3, <1>m, <1>4, <1>5, NamesAssumption DEF MarkCleanupPending, currentGeneration,
     Elsewhere, MarkerInv, ControlOK, RecordsOK, Marker, Phases, durable, binding, command, CommandInv,
     RecoverInv, SessionInv, Unstarted, Protected, Own, Undecided, Recovers
<1>f. SessionInv'
  BY <1>1, <1>2, <1>3, <1>m, <1>4, <1>5, NamesAssumption DEF MarkCleanupPending, currentGeneration,
     Elsewhere, SessionInv, CredInv, ControlOK, RecordsOK, durable, binding, command, CommandInv,
     RecoverInv, refreshes, verifiable, Unstarted, Protected, Own, Undecided, Recovers
<1>g. CredInv'
  BY <1>1, <1>2, <1>3 DEF MarkCleanupPending, Goto, Fault, UpdateMarker, WriteMarker,
     currentGeneration, FailProven, CredInv, SessionInv, ControlOK, SessionsOK, Session, Credential,
     durable, binding, command, verifiable, refreshes
<1>h. CommandInv(p)'
  BY <1>1, <1>2, <1>3, <1>m, <1>4, <1>5, NamesAssumption DEF MarkCleanupPending, FailProven,
     currentGeneration, Elsewhere, MarkerInv, SessionInv, ControlOK, RecordsOK, Phases, Runs, durable,
     binding, command, CommandInv, RecoverInv, Decided, Unstarted, Protected, Own, Undecided, Recovers
<1>i. RecoverInv(p)'
  BY <1>1, <1>2, <1>3, NamesAssumption DEF MarkCleanupPending, Goto, Fault, UpdateMarker, WriteMarker,
     currentGeneration, FailProven, MarkerInv, SessionInv, ControlOK, RecordsOK, SessionsOK, Session,
     Marker, Phases, durable, binding, command, CommandInv, RecoverInv, Decided, Unstarted, Protected,
     Own, Undecided, Recovers
<1>j. \A q \in Procs \ {p} : pc'[q] = pc[q] /\ seen'[q] = seen[q]
  BY <1>3 DEF MarkCleanupPending, Goto, Fault, UpdateMarker, WriteMarker, currentGeneration,
     FailProven, ControlOK, RecordsOK, durable, binding, command
<1>k. QED
  BY <1>1, <1>2, <1>3, <1>a, <1>b, <1>c, <1>d, <1>e, <1>f, <1>g, <1>h, <1>i, <1>j, OnlyHolder DEF IndInv

\* A process starts under a pending marker of its generation.
LEMMA SpawnHolds == ASSUME IndInv, NEW p \in Procs, Spawn(p) PROVE IndInv'
<1>1. pc[p] = "spawn" /\ lock = p
  BY DEF Spawn, IndInv, LockInv
<1>2. CommandInv(p) /\ RecoverInv(p)
  BY DEF IndInv, StepInv
<1>3. ControlOK /\ RecordsOK /\ SessionsOK /\ LockInv /\ MarkerInv /\ SessionInv /\ CredInv
  BY DEF IndInv
<1>4. \/ /\ SessionsOK' /\ Elsewhere(sid[p]) /\ ses'[sid[p]].prot = ses[sid[p]].prot
         /\ ses'[sid[p]].root = ses[sid[p]].root /\ ses'[sid[p]].auth = ses[sid[p]].auth
         /\ ses'[sid[p]].live = TRUE /\ ses'[sid[p]].proof = 0 /\ ses'[sid[p]].good = ses[sid[p]].good
         /\ pc' = [pc EXCEPT ![p] = "running"] /\ UNCHANGED <<failed, faults>>
      \/ ses' = ses /\ pc' = [pc EXCEPT ![p] = "recoverable"] /\ failed' = [failed EXCEPT ![p] = TRUE]
      \/ ses' = ses /\ pc' = [pc EXCEPT ![p] = "release"] /\ UNCHANGED failed
  BY <1>3, Starting DEF Spawn, ControlOK, FailProven, Goto
<1>a. ControlOK'
  <2>1. pc' \in [Procs -> Labels]
    BY <1>3 DEF Spawn, Goto, Fault, FailProven, ControlOK, Labels
  <2>2. failed' \in [Procs -> BOOLEAN] /\ chal' \in [Procs -> 0..Runs]
    BY <1>3 DEF Spawn, FailProven, ControlOK, binding
  <2>3. faults' \in 0..MaxFaults
    BY <1>3, BoundsAssumption DEF Spawn, Goto, Fault, FailProven, ControlOK
  <2>4. QED
    BY <1>3, <2>1, <2>2, <2>3 DEF Spawn, ControlOK, durable, binding, command
<1>b. RecordsOK'
  BY <1>1, <1>2, <1>3 DEF Spawn, Goto, Fault, FailProven, ControlOK, RecordsOK, SessionsOK, Session,
     Marker, Phases, Runs, durable, binding, command, CommandInv
<1>c. SessionsOK'
  BY <1>3, <1>4 DEF Spawn, SessionsOK, durable, binding, command
<1>d. LockInv'
  BY <1>1, <1>2, <1>3, NamesAssumption DEF Spawn, Goto, Fault, FailProven, ControlOK, LockInv, durable,
     binding, command
<1>e. MarkerInv'
  BY <1>1, <1>2, <1>3, NamesAssumption DEF Spawn, Goto, Fault, FailProven, MarkerInv, ControlOK,
     RecordsOK, SessionsOK, Session, Marker, Phases, durable, binding, command, CommandInv, RecoverInv,
     SessionInv, Unstarted, Protected, Own, Undecided, Recovers
<1>f. SessionInv'
  BY <1>1, <1>2, <1>3, <1>4, NamesAssumption DEF Spawn, currentGeneration, Elsewhere, SessionInv,
     CredInv, ControlOK, RecordsOK, durable, binding, command, CommandInv, RecoverInv, refreshes,
     verifiable, Unstarted, Protected, Own, Undecided, Recovers
<1>g. CredInv'
  BY <1>1, <1>2, <1>3 DEF Spawn, Goto, Fault, FailProven, CredInv, SessionInv, ControlOK, SessionsOK,
     Session, Credential, durable, binding, command, verifiable, refreshes
<1>h. CommandInv(p)'
  BY <1>1, <1>2, <1>3, <1>4, NamesAssumption DEF Spawn, FailProven, currentGeneration, Elsewhere,
     MarkerInv, SessionInv, ControlOK, RecordsOK, Phases, Runs, durable, binding, command, CommandInv,
     RecoverInv, Decided, Unstarted, Protected, Own, Undecided, Recovers
<1>i. RecoverInv(p)'
  BY <1>1, <1>2, <1>3, NamesAssumption DEF Spawn, Goto, Fault, FailProven, MarkerInv, SessionInv,
     ControlOK, RecordsOK, SessionsOK, Session, Marker, Phases, durable, binding, command, CommandInv,
     RecoverInv, Decided, Unstarted, Protected, Own, Undecided, Recovers
<1>j. \A q \in Procs \ {p} : pc'[q] = pc[q] /\ seen'[q] = seen[q]
  BY <1>3 DEF Spawn, Goto, Fault, FailProven, ControlOK, RecordsOK, durable, binding, command
<1>k. QED
  BY <1>1, <1>2, <1>3, <1>a, <1>b, <1>c, <1>d, <1>e, <1>f, <1>g, <1>h, <1>i, <1>j, OnlyHolder DEF IndInv

\* The process has ended; after the command the refresh is eligible.
LEMMA SettledHolds == ASSUME IndInv, NEW p \in Procs, Settled(p) PROVE IndInv'
<1>1. pc[p] = "running" /\ lock = p
  BY DEF Settled, IndInv, LockInv
<1>2. CommandInv(p) /\ RecoverInv(p)
  BY DEF IndInv, StepInv
<1>3. ControlOK /\ RecordsOK /\ SessionsOK /\ LockInv /\ MarkerInv /\ SessionInv /\ CredInv
  BY DEF IndInv
<1>4. \/ /\ ses' = [ses EXCEPT ![sid[p]].good = TRUE] /\ chal[p] = Runs
         /\ pc' = [pc EXCEPT ![p] = IF op[p] = "login" THEN "recoverable" ELSE "refresh"]
         /\ UNCHANGED failed
      \/ ses' = ses /\ pc' = [pc EXCEPT ![p] = "recoverable"] /\ failed' = [failed EXCEPT ![p] = TRUE]
      \/ ses' = ses /\ pc' = [pc EXCEPT ![p] = "advance"] /\ UNCHANGED failed /\ chal[p] < Runs
  BY DEF Settled, FailProven, Goto
<1>5. ses' = [ses EXCEPT ![sid[p]].good = TRUE] =>
        /\ SessionsOK' /\ Elsewhere(sid[p]) /\ ses'[sid[p]].prot = ses[sid[p]].prot
        /\ ses'[sid[p]].root = ses[sid[p]].root /\ ses'[sid[p]].auth = ses[sid[p]].auth
        /\ ses'[sid[p]].live = ses[sid[p]].live /\ ses'[sid[p]].good = TRUE
  BY <1>3, Succeeding DEF ControlOK
<1>6. ses[sid[p]].live = FALSE
  BY <1>3 DEF Settled, mine, SessionsOK, Session, ControlOK
<1>a. ControlOK'
  <2>1. pc' \in [Procs -> Labels]
    BY <1>3 DEF Settled, Goto, FailProven, mine, ControlOK, Labels
  <2>2. failed' \in [Procs -> BOOLEAN] /\ chal' \in [Procs -> 0..Runs]
    BY <1>3 DEF Settled, FailProven, ControlOK, binding
  <2>3. faults' \in 0..MaxFaults
    BY <1>3, BoundsAssumption DEF Settled, Goto, FailProven, mine, ControlOK
  <2>4. QED
    BY <1>3, <2>1, <2>2, <2>3 DEF Settled, ControlOK, durable, binding, command
<1>b. RecordsOK'
  BY <1>1, <1>2, <1>3 DEF Settled, Goto, FailProven, mine, ControlOK, RecordsOK, SessionsOK, Session,
     Marker, Phases, Runs, durable, binding, command, CommandInv
<1>c. SessionsOK'
  BY <1>3, <1>4, <1>5, <1>6 DEF Settled, SessionsOK, durable, binding, command
<1>d. LockInv'
  BY <1>1, <1>2, <1>3, NamesAssumption DEF Settled, Goto, FailProven, mine, ControlOK, LockInv,
     durable, binding, command
<1>e. MarkerInv'
  BY <1>1, <1>2, <1>3, NamesAssumption DEF Settled, Goto, FailProven, mine, MarkerInv, ControlOK,
     RecordsOK, SessionsOK, Session, Marker, Phases, durable, binding, command, CommandInv, RecoverInv,
     SessionInv, Unstarted, Protected, Own, Undecided, Recovers
<1>f. SessionInv'
  BY <1>1, <1>2, <1>3, <1>4, <1>5, <1>6, NamesAssumption DEF Settled, currentGeneration, Elsewhere,
     SessionInv, CredInv, ControlOK, RecordsOK, durable, binding, command, CommandInv, RecoverInv,
     refreshes, verifiable, Unstarted, Protected, Own, Undecided, Recovers
<1>g. CredInv'
  BY <1>1, <1>2, <1>3 DEF Settled, Goto, FailProven, mine, CredInv, SessionInv, ControlOK, SessionsOK,
     Session, Credential, durable, binding, command, verifiable, refreshes
<1>h. CommandInv(p)'
  BY <1>1, <1>2, <1>3, <1>4, <1>5, <1>6, NamesAssumption DEF Settled, FailProven, currentGeneration,
     Elsewhere, MarkerInv, SessionInv, ControlOK, RecordsOK, Phases, Runs, durable, binding, command,
     CommandInv, RecoverInv, Decided, Unstarted, Protected, Own, Undecided, Recovers
<1>i. RecoverInv(p)'
  BY <1>1, <1>2, <1>3, NamesAssumption DEF Settled, Goto, FailProven, mine, MarkerInv, SessionInv,
     ControlOK, RecordsOK, SessionsOK, Session, Marker, Phases, durable, binding, command, CommandInv,
     RecoverInv, Decided, Unstarted, Protected, Own, Undecided, Recovers
<1>j. \A q \in Procs \ {p} : pc'[q] = pc[q] /\ seen'[q] = seen[q]
  BY <1>3 DEF Settled, Goto, FailProven, mine, ControlOK, RecordsOK, durable, binding, command
<1>k. QED
  BY <1>1, <1>2, <1>3, <1>a, <1>b, <1>c, <1>d, <1>e, <1>f, <1>g, <1>h, <1>i, <1>j, OnlyHolder DEF IndInv

\* The background settlement keeps the pending marker.
LEMMA TransferHolds == ASSUME IndInv, NEW p \in Procs, Transfer(p) PROVE IndInv'
<1>1. pc[p] = "running" /\ lock = p
  BY DEF Transfer, IndInv, LockInv
<1>2. CommandInv(p) /\ RecoverInv(p)
  BY DEF IndInv, StepInv
<1>3. ControlOK /\ RecordsOK /\ SessionsOK /\ LockInv /\ MarkerInv /\ SessionInv /\ CredInv
  BY DEF IndInv
<1>a. ControlOK'
  BY <1>1, <1>2, <1>3, BoundsAssumption DEF Transfer, Goto, Fault, ControlOK, Labels, Runs, durable,
     binding, command, Sids, CommandInv
<1>b. RecordsOK'
  BY <1>1, <1>2, <1>3 DEF Transfer, Goto, Fault, ControlOK, RecordsOK, SessionsOK, Session, Marker,
     Phases, Runs, durable, binding, command, CommandInv
<1>c. SessionsOK'
  BY <1>1, <1>2, <1>3 DEF Transfer, Goto, Fault, ControlOK, RecordsOK, SessionsOK, Session, Runs,
     durable, binding, command
<1>d. LockInv'
  BY <1>1, <1>2, <1>3, NamesAssumption DEF Transfer, Goto, Fault, ControlOK, LockInv, durable, binding,
     command
<1>e. MarkerInv'
  BY <1>1, <1>2, <1>3, NamesAssumption DEF Transfer, Goto, Fault, MarkerInv, ControlOK, RecordsOK,
     SessionsOK, Session, Marker, Phases, durable, binding, command, CommandInv, RecoverInv,
     SessionInv, Unstarted, Protected, Own, Undecided, Recovers
<1>f. SessionInv'
  BY <1>1, <1>2, <1>3, NamesAssumption DEF Transfer, Goto, Fault, SessionInv, CredInv, ControlOK,
     RecordsOK, SessionsOK, Session, Marker, durable, binding, command, CommandInv, RecoverInv,
     Unstarted, Protected, Own, Undecided, Recovers
<1>g. CredInv'
  BY <1>1, <1>2, <1>3 DEF Transfer, Goto, Fault, CredInv, SessionInv, ControlOK, SessionsOK, Session,
     Credential, durable, binding, command, verifiable, refreshes
<1>h. CommandInv(p)'
  BY <1>1, <1>2, <1>3, NamesAssumption DEF Transfer, Goto, Fault, MarkerInv, SessionInv, ControlOK,
     RecordsOK, SessionsOK, Session, Marker, Phases, Runs, Labels, durable, binding, command,
     CommandInv, RecoverInv, Decided, Unstarted, Protected, Own, Undecided, Recovers
<1>i. RecoverInv(p)'
  BY <1>1, <1>2, <1>3, NamesAssumption DEF Transfer, Goto, Fault, MarkerInv, SessionInv, ControlOK,
     RecordsOK, SessionsOK, Session, Marker, Phases, durable, binding, command, CommandInv, RecoverInv,
     Decided, Unstarted, Protected, Own, Undecided, Recovers
<1>j. \A q \in Procs \ {p} : pc'[q] = pc[q] /\ seen'[q] = seen[q]
  BY <1>3 DEF Transfer, Goto, Fault, ControlOK, RecordsOK, durable, binding, command
<1>k. QED
  BY <1>1, <1>2, <1>3, <1>a, <1>b, <1>c, <1>d, <1>e, <1>f, <1>g, <1>h, <1>i, <1>j, OnlyHolder DEF IndInv

\* Only a Session whose runs all succeeded is marked eligible.
LEMMA MarkRefreshAllowedHolds == ASSUME IndInv, NEW p \in Procs, MarkRefreshAllowed(p) PROVE IndInv'
<1>1. pc[p] = "refresh" /\ lock = p
  BY DEF MarkRefreshAllowed, IndInv, LockInv
<1>2. CommandInv(p) /\ RecoverInv(p)
  BY DEF IndInv, StepInv
<1>3. ControlOK /\ RecordsOK /\ SessionsOK /\ LockInv /\ MarkerInv /\ SessionInv /\ CredInv
  BY DEF IndInv
<1> DEFINE m == [marker EXCEPT !.refresh = TRUE]
<1>m. marker \in Marker
  BY <1>1, <1>2, <1>3 DEF CommandInv, RecordsOK, Own, Unstarted, Undecided
<1>4. m \in Marker /\ m.refresh = TRUE /\ m.sid = marker.sid /\ m.phase = marker.phase /\ m.chal = marker.chal
  BY <1>m, <1>1, <1>2, <1>3 DEF Marker, Phases, Runs, ControlOK, CommandInv
<1> HIDE DEF m
<1>5. \/ marker' = marker /\ pc' = [pc EXCEPT ![p] = "preserve"]
      \/ /\ currentGeneration(p, {"pending", "recoverable"}) /\ marker' = m
         /\ pc' \in {[pc EXCEPT ![p] = "recoverable"], [pc EXCEPT ![p] = "preserve"]}
  BY DEF MarkRefreshAllowed, UpdateMarker, WriteMarker, Goto, m
<1>a. ControlOK'
  BY <1>1, <1>2, <1>3, BoundsAssumption DEF MarkRefreshAllowed, Goto, Fault, UpdateMarker, WriteMarker,
     currentGeneration, ControlOK, Labels, Runs, durable, binding, command, Sids, CommandInv
<1>b. RecordsOK'
  BY <1>3, <1>m, <1>4, <1>5 DEF MarkRefreshAllowed, RecordsOK, durable, binding, command
<1>c. SessionsOK'
  BY <1>1, <1>2, <1>3 DEF MarkRefreshAllowed, Goto, Fault, UpdateMarker, WriteMarker,
     currentGeneration, ControlOK, RecordsOK, SessionsOK, Session, Runs, durable, binding, command
<1>d. LockInv'
  BY <1>1, <1>2, <1>3, NamesAssumption DEF MarkRefreshAllowed, Goto, Fault, UpdateMarker, WriteMarker,
     currentGeneration, ControlOK, LockInv, durable, binding, command
<1>e. MarkerInv'
  BY <1>1, <1>2, <1>3, <1>m, <1>4, <1>5, NamesAssumption DEF MarkRefreshAllowed, currentGeneration,
     Elsewhere, MarkerInv, ControlOK, RecordsOK, Marker, Phases, durable, binding, command, CommandInv,
     RecoverInv, SessionInv, Unstarted, Protected, Own, Undecided, Recovers
<1>f. SessionInv'
  BY <1>1, <1>2, <1>3, <1>m, <1>4, <1>5, NamesAssumption DEF MarkRefreshAllowed, currentGeneration,
     Elsewhere, SessionInv, CredInv, ControlOK, RecordsOK, durable, binding, command, CommandInv,
     RecoverInv, refreshes, verifiable, Unstarted, Protected, Own, Undecided, Recovers
<1>g. CredInv'
  BY <1>1, <1>2, <1>3 DEF MarkRefreshAllowed, Goto, Fault, UpdateMarker, WriteMarker,
     currentGeneration, CredInv, SessionInv, ControlOK, SessionsOK, Session, Credential, durable,
     binding, command, verifiable, refreshes
<1>h. CommandInv(p)'
  BY <1>1, <1>2, <1>3, <1>m, <1>4, <1>5, NamesAssumption DEF MarkRefreshAllowed, FailProven,
     currentGeneration, Elsewhere, MarkerInv, SessionInv, ControlOK, RecordsOK, Phases, Runs, durable,
     binding, command, CommandInv, RecoverInv, Decided, Unstarted, Protected, Own, Undecided, Recovers
<1>i. RecoverInv(p)'
  BY <1>1, <1>2, <1>3, NamesAssumption DEF MarkRefreshAllowed, Goto, Fault, UpdateMarker, WriteMarker,
     currentGeneration, MarkerInv, SessionInv, ControlOK, RecordsOK, SessionsOK, Session, Marker,
     Phases, durable, binding, command, CommandInv, RecoverInv, Decided, Unstarted, Protected, Own,
     Undecided, Recovers
<1>j. \A q \in Procs \ {p} : pc'[q] = pc[q] /\ seen'[q] = seen[q]
  BY <1>3 DEF MarkRefreshAllowed, Goto, Fault, UpdateMarker, WriteMarker, currentGeneration, ControlOK,
     RecordsOK, durable, binding, command
<1>k. QED
  BY <1>1, <1>2, <1>3, <1>a, <1>b, <1>c, <1>d, <1>e, <1>f, <1>g, <1>h, <1>i, <1>j, OnlyHolder DEF IndInv

\* The marker becomes recoverable when the processes have ended.
LEMMA MarkRecoverableHolds == ASSUME IndInv, NEW p \in Procs, MarkRecoverable(p) PROVE IndInv'
<1>1. pc[p] = "recoverable" /\ lock = p
  BY DEF MarkRecoverable, IndInv, LockInv
<1>2. CommandInv(p) /\ RecoverInv(p)
  BY DEF IndInv, StepInv
<1>3. ControlOK /\ RecordsOK /\ SessionsOK /\ LockInv /\ MarkerInv /\ SessionInv /\ CredInv
  BY DEF IndInv
<1> DEFINE m == [marker EXCEPT !.phase = "recoverable"]
<1>m. marker \in Marker
  BY <1>1, <1>2, <1>3 DEF CommandInv, RecordsOK, Own, Unstarted, Undecided
<1>4. m \in Marker /\ m.phase = "recoverable" /\ m.sid = marker.sid /\ m.chal = marker.chal /\ m.refresh = marker.refresh
  BY <1>m, <1>1, <1>2, <1>3 DEF Marker, Phases, Runs, ControlOK, CommandInv
<1> HIDE DEF m
<1>5. \/ marker' = marker /\ pc' = [pc EXCEPT ![p] = "preserve"]
      \/ /\ currentGeneration(p, Phases) /\ marker' = m
         /\ pc' \in {[pc EXCEPT ![p] = IF failed[p] THEN "remove" ELSE "finalize"], [pc EXCEPT ![p] = "preserve"]}
  BY DEF MarkRecoverable, UpdateMarker, WriteMarker, Goto, m
<1>a. ControlOK'
  BY <1>1, <1>2, <1>3, BoundsAssumption DEF MarkRecoverable, Goto, Fault, UpdateMarker, WriteMarker,
     currentGeneration, ControlOK, Labels, Runs, durable, binding, command, Sids, CommandInv
<1>b. RecordsOK'
  BY <1>3, <1>m, <1>4, <1>5 DEF MarkRecoverable, RecordsOK, durable, binding, command
<1>c. SessionsOK'
  BY <1>1, <1>2, <1>3 DEF MarkRecoverable, Goto, Fault, UpdateMarker, WriteMarker, currentGeneration,
     ControlOK, RecordsOK, SessionsOK, Session, Runs, durable, binding, command
<1>d. LockInv'
  BY <1>1, <1>2, <1>3, NamesAssumption DEF MarkRecoverable, Goto, Fault, UpdateMarker, WriteMarker,
     currentGeneration, ControlOK, LockInv, durable, binding, command
<1>e. MarkerInv'
  BY <1>1, <1>2, <1>3, <1>m, <1>4, <1>5, NamesAssumption DEF MarkRecoverable, currentGeneration,
     Elsewhere, MarkerInv, ControlOK, RecordsOK, Marker, Phases, durable, binding, command, CommandInv,
     RecoverInv, SessionInv, Unstarted, Protected, Own, Undecided, Recovers
<1>f. SessionInv'
  BY <1>1, <1>2, <1>3, <1>m, <1>4, <1>5, NamesAssumption DEF MarkRecoverable, currentGeneration,
     Elsewhere, SessionInv, CredInv, ControlOK, RecordsOK, durable, binding, command, CommandInv,
     RecoverInv, refreshes, verifiable, Unstarted, Protected, Own, Undecided, Recovers
<1>g. CredInv'
  BY <1>1, <1>2, <1>3 DEF MarkRecoverable, Goto, Fault, UpdateMarker, WriteMarker, currentGeneration,
     CredInv, SessionInv, ControlOK, SessionsOK, Session, Credential, durable, binding, command,
     verifiable, refreshes
<1>h. CommandInv(p)'
  BY <1>1, <1>2, <1>3, <1>m, <1>4, <1>5, NamesAssumption DEF MarkRecoverable, FailProven,
     currentGeneration, Elsewhere, MarkerInv, SessionInv, ControlOK, RecordsOK, Phases, Runs, durable,
     binding, command, CommandInv, RecoverInv, Decided, Unstarted, Protected, Own, Undecided, Recovers
<1>i. RecoverInv(p)'
  BY <1>1, <1>2, <1>3, NamesAssumption DEF MarkRecoverable, Goto, Fault, UpdateMarker, WriteMarker,
     currentGeneration, MarkerInv, SessionInv, ControlOK, RecordsOK, SessionsOK, Session, Marker,
     Phases, durable, binding, command, CommandInv, RecoverInv, Decided, Unstarted, Protected, Own,
     Undecided, Recovers
<1>j. \A q \in Procs \ {p} : pc'[q] = pc[q] /\ seen'[q] = seen[q]
  BY <1>3 DEF MarkRecoverable, Goto, Fault, UpdateMarker, WriteMarker, currentGeneration, ControlOK,
     RecordsOK, durable, binding, command
<1>k. QED
  BY <1>1, <1>2, <1>3, <1>a, <1>b, <1>c, <1>d, <1>e, <1>f, <1>g, <1>h, <1>i, <1>j, OnlyHolder DEF IndInv

\* Nothing was started: the mark is best effort.
LEMMA AbandonHolds == ASSUME IndInv, NEW p \in Procs, Abandon(p) PROVE IndInv'
<1>1. pc[p] = "abandon" /\ lock = p
  BY DEF Abandon, IndInv, LockInv
<1>2. CommandInv(p) /\ RecoverInv(p)
  BY DEF IndInv, StepInv
<1>3. ControlOK /\ RecordsOK /\ SessionsOK /\ LockInv /\ MarkerInv /\ SessionInv /\ CredInv
  BY DEF IndInv
<1> DEFINE m == [marker EXCEPT !.phase = "recoverable"]
<1>m. marker \in Marker
  BY <1>1, <1>2, <1>3 DEF CommandInv, RecordsOK, Own, Unstarted, Undecided
<1>4. m \in Marker /\ m.phase = "recoverable" /\ m.sid = marker.sid /\ m.chal = marker.chal /\ m.refresh = marker.refresh
  BY <1>m, <1>1, <1>2, <1>3 DEF Marker, Phases, Runs, ControlOK, CommandInv
<1> HIDE DEF m
<1>5. \/ marker' = marker /\ pc' = [pc EXCEPT ![p] = "remove"]
      \/ /\ currentGeneration(p, Phases) /\ marker' = m
         /\ pc' \in {[pc EXCEPT ![p] = "remove"], [pc EXCEPT ![p] = "remove"]}
  BY DEF Abandon, UpdateMarker, WriteMarker, Goto, m
<1>a. ControlOK'
  BY <1>1, <1>2, <1>3, BoundsAssumption DEF Abandon, Goto, Fault, UpdateMarker, WriteMarker,
     currentGeneration, ControlOK, Labels, Runs, durable, binding, command, Sids, CommandInv
<1>b. RecordsOK'
  BY <1>3, <1>m, <1>4, <1>5 DEF Abandon, RecordsOK, durable, binding, command
<1>c. SessionsOK'
  BY <1>1, <1>2, <1>3 DEF Abandon, Goto, Fault, UpdateMarker, WriteMarker, currentGeneration,
     ControlOK, RecordsOK, SessionsOK, Session, Runs, durable, binding, command
<1>d. LockInv'
  BY <1>1, <1>2, <1>3, NamesAssumption DEF Abandon, Goto, Fault, UpdateMarker, WriteMarker,
     currentGeneration, ControlOK, LockInv, durable, binding, command
<1>e. MarkerInv'
  BY <1>1, <1>2, <1>3, <1>m, <1>4, <1>5, NamesAssumption DEF Abandon, currentGeneration, Elsewhere,
     MarkerInv, ControlOK, RecordsOK, Marker, Phases, durable, binding, command, CommandInv,
     RecoverInv, SessionInv, Unstarted, Protected, Own, Undecided, Recovers
<1>f. SessionInv'
  BY <1>1, <1>2, <1>3, <1>m, <1>4, <1>5, NamesAssumption DEF Abandon, currentGeneration, Elsewhere,
     SessionInv, CredInv, ControlOK, RecordsOK, durable, binding, command, CommandInv, RecoverInv,
     refreshes, verifiable, Unstarted, Protected, Own, Undecided, Recovers
<1>g. CredInv'
  BY <1>1, <1>2, <1>3 DEF Abandon, Goto, Fault, UpdateMarker, WriteMarker, currentGeneration, CredInv,
     SessionInv, ControlOK, SessionsOK, Session, Credential, durable, binding, command, verifiable,
     refreshes
<1>h. CommandInv(p)'
  BY <1>1, <1>2, <1>3, <1>m, <1>4, <1>5, NamesAssumption DEF Abandon, FailProven, currentGeneration,
     Elsewhere, MarkerInv, SessionInv, ControlOK, RecordsOK, Phases, Runs, durable, binding, command,
     CommandInv, RecoverInv, Decided, Unstarted, Protected, Own, Undecided, Recovers
<1>i. RecoverInv(p)'
  BY <1>1, <1>2, <1>3, NamesAssumption DEF Abandon, Goto, Fault, UpdateMarker, WriteMarker,
     currentGeneration, MarkerInv, SessionInv, ControlOK, RecordsOK, SessionsOK, Session, Marker,
     Phases, durable, binding, command, CommandInv, RecoverInv, Decided, Unstarted, Protected, Own,
     Undecided, Recovers
<1>j. \A q \in Procs \ {p} : pc'[q] = pc[q] /\ seen'[q] = seen[q]
  BY <1>3 DEF Abandon, Goto, Fault, UpdateMarker, WriteMarker, currentGeneration, ControlOK, RecordsOK,
     durable, binding, command
<1>k. QED
  BY <1>1, <1>2, <1>3, <1>a, <1>b, <1>c, <1>d, <1>e, <1>f, <1>g, <1>h, <1>i, <1>j, OnlyHolder DEF IndInv

\* A login stores what an eligible Session holds.
LEMMA CommitLoginHolds == ASSUME IndInv, NEW p \in Procs, CommitLogin(p) PROVE IndInv'
<1>1. pc[p] = "finalize" /\ lock = p
  BY DEF CommitLogin, IndInv, LockInv
<1>2. CommandInv(p) /\ RecoverInv(p)
  BY DEF IndInv, StepInv
<1>3. ControlOK /\ RecordsOK /\ SessionsOK /\ LockInv /\ MarkerInv /\ SessionInv /\ CredInv
  BY DEF IndInv
<1>4. \/ /\ SessionsOK' /\ Elsewhere(sid[p])
         /\ ses'[sid[p]].root = ses[sid[p]].root /\ ses'[sid[p]].prot = ses[sid[p]].prot
         /\ ses'[sid[p]].auth = ses[sid[p]].auth /\ ses'[sid[p]].live = ses[sid[p]].live
         /\ ses'[sid[p]].proof = ses[sid[p]].proof /\ ses'[sid[p]].good = ses[sid[p]].good
      \/ ses' = ses
  BY <1>3, Distrusting DEF CommitLogin, WriteCredential, Unverified, ControlOK
<1>5. /\ pc' = [pc EXCEPT ![p] = "remove"]
      /\ \/ cred' = cred
         \/ cred = Nil /\ cred' = ses[sid[p]].auth /\ cred' \notin {Bad, Nil} /\ ses' = ses
  BY DEF CommitLogin, WriteCredential, Goto, mine, verifiable
<1>a. ControlOK'
  BY <1>1, <1>2, <1>3, BoundsAssumption DEF CommitLogin, Goto, Fault, currentGeneration, mine,
     verifiable, WriteCredential, Unverified, ControlOK, Labels, Runs, durable, binding, command, Sids,
     CommandInv
<1>b. RecordsOK'
  BY <1>1, <1>2, <1>3 DEF CommitLogin, Goto, Fault, currentGeneration, mine, verifiable,
     WriteCredential, Unverified, ControlOK, RecordsOK, SessionsOK, Session, Marker, Phases, Runs,
     durable, binding, command, CommandInv
<1>c. SessionsOK'
  BY <1>3, <1>4, <1>5 DEF CommitLogin, SessionsOK, durable, binding, command
<1>d. LockInv'
  BY <1>1, <1>2, <1>3, NamesAssumption DEF CommitLogin, Goto, Fault, currentGeneration, mine,
     verifiable, WriteCredential, Unverified, ControlOK, LockInv, durable, binding, command
<1>e. MarkerInv'
  BY <1>1, <1>2, <1>3, NamesAssumption DEF CommitLogin, Goto, Fault, currentGeneration, mine,
     verifiable, WriteCredential, Unverified, MarkerInv, ControlOK, RecordsOK, SessionsOK, Session,
     Marker, Phases, durable, binding, command, CommandInv, RecoverInv, SessionInv, Unstarted,
     Protected, Own, Undecided, Recovers
<1>f. SessionInv'
  BY <1>1, <1>2, <1>3, <1>4, <1>5, NamesAssumption DEF CommitLogin, currentGeneration, Elsewhere,
     SessionInv, CredInv, ControlOK, RecordsOK, durable, binding, command, CommandInv, RecoverInv,
     refreshes, verifiable, Unstarted, Protected, Own, Undecided, Recovers
<1>g. CredInv'
  BY <1>1, <1>2, <1>3 DEF CommitLogin, Goto, Fault, currentGeneration, mine, verifiable,
     WriteCredential, Unverified, CredInv, SessionInv, ControlOK, SessionsOK, Session, Credential,
     durable, binding, command, verifiable, refreshes
<1>h. CommandInv(p)'
  BY <1>1, <1>2, <1>3, <1>4, <1>5, NamesAssumption DEF CommitLogin, FailProven, currentGeneration,
     Elsewhere, MarkerInv, SessionInv, ControlOK, RecordsOK, Phases, Runs, durable, binding, command,
     CommandInv, RecoverInv, Decided, Unstarted, Protected, Own, Undecided, Recovers
<1>i. RecoverInv(p)'
  BY <1>1, <1>2, <1>3, NamesAssumption DEF CommitLogin, Goto, Fault, currentGeneration, mine,
     verifiable, WriteCredential, Unverified, MarkerInv, SessionInv, ControlOK, RecordsOK, SessionsOK,
     Session, Marker, Phases, durable, binding, command, CommandInv, RecoverInv, Decided, Unstarted,
     Protected, Own, Undecided, Recovers
<1>j. \A q \in Procs \ {p} : pc'[q] = pc[q] /\ seen'[q] = seen[q]
  BY <1>3 DEF CommitLogin, Goto, Fault, currentGeneration, mine, verifiable, WriteCredential,
     Unverified, ControlOK, RecordsOK, durable, binding, command
<1>k. QED
  BY <1>1, <1>2, <1>3, <1>a, <1>b, <1>c, <1>d, <1>e, <1>f, <1>g, <1>h, <1>i, <1>j, OnlyHolder DEF IndInv

\* A status or run decides about its refresh against the record it loaded.
LEMMA FinalizeStatusHolds == ASSUME IndInv, NEW p \in Procs, FinalizeStatus(p) PROVE IndInv'
<1>1. pc[p] = "finalize" /\ lock = p
  BY DEF FinalizeStatus, IndInv, LockInv
<1>2. CommandInv(p) /\ RecoverInv(p)
  BY DEF IndInv, StepInv
<1>3. ControlOK /\ RecordsOK /\ SessionsOK /\ LockInv /\ MarkerInv /\ SessionInv /\ CredInv
  BY DEF IndInv
<1>4. \/ /\ SessionsOK' /\ Elsewhere(sid[p])
         /\ ses'[sid[p]].root = ses[sid[p]].root /\ ses'[sid[p]].prot = ses[sid[p]].prot
         /\ ses'[sid[p]].auth = ses[sid[p]].auth /\ ses'[sid[p]].live = ses[sid[p]].live
         /\ ses'[sid[p]].proof = ses[sid[p]].proof /\ ses'[sid[p]].good = ses[sid[p]].good
         /\ ses'[sid[p]].unverified = TRUE /\ cred' = cred
      \/ ses' = ses
  BY <1>3, Distrusting DEF FinalizeStatus, Decide, WriteCredential, Unverified, ControlOK
<1>5. /\ pc' \in {[pc EXCEPT ![p] = "remove"], [pc EXCEPT ![p] = "preserve"]}
      /\ \/ cred' = cred
         \/ ses[sid[p]].auth # cred /\ cred' = ses[sid[p]].auth /\ refreshes(cred', cred) /\ ses' = ses
  BY <1>1, <1>2 DEF FinalizeStatus, Decide, WriteCredential, Goto, CommandInv, Undecided, Protected
<1>6. cred' \in Credential \cup {Nil}
  BY <1>3, <1>5 DEF RecordsOK, SessionsOK, Session, refreshes, verifiable, ControlOK
<1>7. \/ pc' = [pc EXCEPT ![p] = "preserve"]
      \/ /\ pc' = [pc EXCEPT ![p] = "remove"]
         /\ \/ cred' = cred /\ ses' = ses /\ (ses[sid[p]].auth = cred \/ ~refreshes(ses[sid[p]].auth, cred))
            \/ cred' = ses[sid[p]].auth /\ ses' = ses
            \/ ses' = [ses EXCEPT ![sid[p]].unverified = TRUE]
  BY <1>1, <1>2 DEF FinalizeStatus, Decide, WriteCredential, Unverified, Goto, CommandInv, Undecided,
     Protected
<1>8. pc'[p] = "remove" => Decided(sid[p])'
  BY <1>3, <1>7, Distrusting DEF Decided, FinalizeStatus, ControlOK, binding
<1>a. ControlOK'
  BY <1>1, <1>2, <1>3, BoundsAssumption DEF FinalizeStatus, Goto, Fault, currentGeneration, mine,
     Decide, WriteCredential, Unverified, replaceable, ControlOK, Labels, Runs, durable, binding,
     command, Sids, CommandInv
<1>b. RecordsOK'
  BY <1>3, <1>4, <1>5, <1>6, <1>7, <1>8 DEF FinalizeStatus, RecordsOK, durable, binding, command
<1>c. SessionsOK'
  BY <1>3, <1>4, <1>5, <1>6, <1>7, <1>8 DEF FinalizeStatus, SessionsOK, durable, binding, command
<1>d. LockInv'
  BY <1>1, <1>2, <1>3, NamesAssumption DEF FinalizeStatus, Goto, Fault, currentGeneration, mine,
     Decide, WriteCredential, Unverified, replaceable, ControlOK, LockInv, durable, binding, command
<1>e. MarkerInv'
  BY <1>1, <1>2, <1>3, <1>4, <1>5, <1>6, <1>7, <1>8, NamesAssumption DEF FinalizeStatus,
     currentGeneration, Elsewhere, MarkerInv, ControlOK, RecordsOK, Marker, Phases, durable, binding,
     command, CommandInv, RecoverInv, SessionInv, Unstarted, Protected, Own, Undecided, Recovers
<1>f. SessionInv'
  BY <1>1, <1>2, <1>3, <1>4, <1>5, <1>6, <1>7, <1>8, NamesAssumption DEF FinalizeStatus,
     currentGeneration, Elsewhere, SessionInv, CredInv, ControlOK, RecordsOK, durable, binding,
     command, CommandInv, RecoverInv, refreshes, verifiable, Unstarted, Protected, Own, Undecided,
     Recovers
<1>g. CredInv'
  BY <1>3, <1>4, <1>5, <1>6, <1>7, <1>8 DEF FinalizeStatus, CredInv, SessionInv, ControlOK, SessionsOK,
     Session, Credential, durable, binding, command, verifiable, refreshes
<1>h. CommandInv(p)'
  BY <1>1, <1>2, <1>3, <1>4, <1>5, <1>8 DEF FinalizeStatus, ControlOK, durable, binding, command,
     CommandInv, Elsewhere, Unstarted, Protected, Own, Undecided, Recovers
<1>i. RecoverInv(p)'
  BY <1>1, <1>2, <1>3, NamesAssumption DEF FinalizeStatus, Goto, Fault, currentGeneration, mine,
     Decide, WriteCredential, Unverified, replaceable, MarkerInv, SessionInv, ControlOK, RecordsOK,
     SessionsOK, Session, Marker, Phases, durable, binding, command, CommandInv, RecoverInv, Decided,
     Unstarted, Protected, Own, Undecided, Recovers
<1>j. \A q \in Procs \ {p} : pc'[q] = pc[q] /\ seen'[q] = seen[q]
  BY <1>3 DEF FinalizeStatus, Goto, Fault, currentGeneration, mine, Decide, WriteCredential,
     Unverified, replaceable, ControlOK, RecordsOK, durable, binding, command
<1>k. QED
  BY <1>1, <1>2, <1>3, <1>a, <1>b, <1>c, <1>d, <1>e, <1>f, <1>g, <1>h, <1>i, <1>j, OnlyHolder DEF IndInv

\* Only a decided Session is removed.
LEMMA RemoveHolds == ASSUME IndInv, NEW p \in Procs, Remove(p) PROVE IndInv'
<1>1. pc[p] = "remove" /\ lock = p
  BY DEF Remove, IndInv, LockInv
<1>2. CommandInv(p) /\ RecoverInv(p)
  BY DEF IndInv, StepInv
<1>3. ControlOK /\ RecordsOK /\ SessionsOK /\ LockInv /\ MarkerInv /\ SessionInv /\ CredInv
  BY DEF IndInv
<1>4. \/ /\ SessionsOK' /\ Elsewhere(sid[p])
         /\ ses'[sid[p]].root = FALSE /\ ses'[sid[p]].prot = FALSE
         /\ ses'[sid[p]].auth = Nil /\ ses'[sid[p]].live = ses[sid[p]].live /\ ses'[sid[p]].good = ses[sid[p]].good
         /\ pc' = [pc EXCEPT ![p] = "delete"]
      \/ ses' = ses /\ pc' = [pc EXCEPT ![p] = "preserve"]
  BY <1>3, Removing DEF Remove, ControlOK, Goto
<1>a. ControlOK'
  BY <1>1, <1>2, <1>3, BoundsAssumption DEF Remove, Goto, Fault, ControlOK, Labels, Runs, durable,
     binding, command, Sids, CommandInv
<1>b. RecordsOK'
  BY <1>1, <1>2, <1>3 DEF Remove, Goto, Fault, ControlOK, RecordsOK, SessionsOK, Session, Marker,
     Phases, Runs, durable, binding, command, CommandInv
<1>c. SessionsOK'
  BY <1>3, <1>4 DEF Remove, SessionsOK, durable, binding, command
<1>d. LockInv'
  BY <1>1, <1>2, <1>3, NamesAssumption DEF Remove, Goto, Fault, ControlOK, LockInv, durable, binding,
     command
<1>e. MarkerInv'
  BY <1>1, <1>2, <1>3, <1>4, NamesAssumption DEF Remove, currentGeneration, Elsewhere, MarkerInv,
     ControlOK, RecordsOK, Marker, Phases, durable, binding, command, CommandInv, RecoverInv,
     SessionInv, Unstarted, Protected, Own, Undecided, Recovers
<1>f. SessionInv'
  BY <1>1, <1>2, <1>3, <1>4, NamesAssumption DEF Remove, currentGeneration, Elsewhere, SessionInv,
     CredInv, ControlOK, RecordsOK, durable, binding, command, CommandInv, RecoverInv, refreshes,
     verifiable, Unstarted, Protected, Own, Undecided, Recovers
<1>g. CredInv'
  BY <1>1, <1>2, <1>3 DEF Remove, Goto, Fault, CredInv, SessionInv, ControlOK, SessionsOK, Session,
     Credential, durable, binding, command, verifiable, refreshes
<1>h. CommandInv(p)'
  BY <1>1, <1>2, <1>3, <1>4, NamesAssumption DEF Remove, FailProven, currentGeneration, Elsewhere,
     MarkerInv, SessionInv, ControlOK, RecordsOK, Phases, Runs, durable, binding, command, CommandInv,
     RecoverInv, Decided, Unstarted, Protected, Own, Undecided, Recovers
<1>i. RecoverInv(p)'
  BY <1>1, <1>2, <1>3, NamesAssumption DEF Remove, Goto, Fault, MarkerInv, SessionInv, ControlOK,
     RecordsOK, SessionsOK, Session, Marker, Phases, durable, binding, command, CommandInv, RecoverInv,
     Decided, Unstarted, Protected, Own, Undecided, Recovers
<1>j. \A q \in Procs \ {p} : pc'[q] = pc[q] /\ seen'[q] = seen[q]
  BY <1>3 DEF Remove, Goto, Fault, ControlOK, RecordsOK, durable, binding, command
<1>k. QED
  BY <1>1, <1>2, <1>3, <1>a, <1>b, <1>c, <1>d, <1>e, <1>f, <1>g, <1>h, <1>i, <1>j, OnlyHolder DEF IndInv

\* The marker goes after the projection.
LEMMA DeleteMarkerHolds == ASSUME IndInv, NEW p \in Procs, DeleteMarker(p) PROVE IndInv'
<1>1. pc[p] = "delete" /\ lock = p
  BY DEF DeleteMarker, IndInv, LockInv
<1>2. CommandInv(p) /\ RecoverInv(p)
  BY DEF IndInv, StepInv
<1>3. ControlOK /\ RecordsOK /\ SessionsOK /\ LockInv /\ MarkerInv /\ SessionInv /\ CredInv
  BY DEF IndInv
<1>a. ControlOK'
  BY <1>1, <1>2, <1>3, BoundsAssumption DEF DeleteMarker, Goto, Fault, UpdateMarker, WriteMarker,
     currentGeneration, ControlOK, Labels, Runs, durable, binding, command, Sids, CommandInv
<1>b. RecordsOK'
  BY <1>1, <1>2, <1>3 DEF DeleteMarker, Goto, Fault, UpdateMarker, WriteMarker, currentGeneration,
     ControlOK, RecordsOK, SessionsOK, Session, Marker, Phases, Runs, durable, binding, command,
     CommandInv
<1>c. SessionsOK'
  BY <1>1, <1>2, <1>3 DEF DeleteMarker, Goto, Fault, UpdateMarker, WriteMarker, currentGeneration,
     ControlOK, RecordsOK, SessionsOK, Session, Runs, durable, binding, command
<1>d. LockInv'
  BY <1>1, <1>2, <1>3, NamesAssumption DEF DeleteMarker, Goto, Fault, UpdateMarker, WriteMarker,
     currentGeneration, ControlOK, LockInv, durable, binding, command
<1>e. MarkerInv'
  BY <1>1, <1>2, <1>3, NamesAssumption DEF DeleteMarker, Goto, Fault, UpdateMarker, WriteMarker,
     currentGeneration, MarkerInv, ControlOK, RecordsOK, SessionsOK, Session, Marker, Phases, durable,
     binding, command, CommandInv, RecoverInv, SessionInv, Unstarted, Protected, Own, Undecided,
     Recovers
<1>f. SessionInv'
  BY <1>1, <1>2, <1>3, NamesAssumption DEF DeleteMarker, Goto, Fault, UpdateMarker, WriteMarker,
     currentGeneration, SessionInv, CredInv, ControlOK, RecordsOK, SessionsOK, Session, Marker,
     durable, binding, command, CommandInv, RecoverInv, Unstarted, Protected, Own, Undecided, Recovers
<1>g. CredInv'
  BY <1>1, <1>2, <1>3 DEF DeleteMarker, Goto, Fault, UpdateMarker, WriteMarker, currentGeneration,
     CredInv, SessionInv, ControlOK, SessionsOK, Session, Credential, durable, binding, command,
     verifiable, refreshes
<1>h. CommandInv(p)'
  BY <1>1, <1>2, <1>3, NamesAssumption DEF DeleteMarker, Goto, Fault, UpdateMarker, WriteMarker,
     currentGeneration, MarkerInv, SessionInv, ControlOK, RecordsOK, SessionsOK, Session, Marker,
     Phases, Runs, Labels, durable, binding, command, CommandInv, RecoverInv, Decided, Unstarted,
     Protected, Own, Undecided, Recovers
<1>i. RecoverInv(p)'
  BY <1>1, <1>2, <1>3, NamesAssumption DEF DeleteMarker, Goto, Fault, UpdateMarker, WriteMarker,
     currentGeneration, MarkerInv, SessionInv, ControlOK, RecordsOK, SessionsOK, Session, Marker,
     Phases, durable, binding, command, CommandInv, RecoverInv, Decided, Unstarted, Protected, Own,
     Undecided, Recovers
<1>j. \A q \in Procs \ {p} : pc'[q] = pc[q] /\ seen'[q] = seen[q]
  BY <1>3 DEF DeleteMarker, Goto, Fault, UpdateMarker, WriteMarker, currentGeneration, ControlOK,
     RecordsOK, durable, binding, command
<1>k. QED
  BY <1>1, <1>2, <1>3, <1>a, <1>b, <1>c, <1>d, <1>e, <1>f, <1>g, <1>h, <1>i, <1>j, OnlyHolder DEF IndInv

\* Only the guard is given back.
LEMMA PreserveHolds == ASSUME IndInv, NEW p \in Procs, Preserve(p) PROVE IndInv'
<1>1. pc[p] = "preserve" /\ lock = p
  BY DEF Preserve, IndInv, LockInv
<1>2. CommandInv(p) /\ RecoverInv(p)
  BY DEF IndInv, StepInv
<1>3. ControlOK /\ RecordsOK /\ SessionsOK /\ LockInv /\ MarkerInv /\ SessionInv /\ CredInv
  BY DEF IndInv
<1>4. SessionsOK'
  BY <1>3, Guarding DEF Preserve, ControlOK
<1>a. ControlOK'
  BY <1>1, <1>2, <1>3, BoundsAssumption DEF Preserve, Goto, ControlOK, Labels, Runs, durable, binding,
     command, Sids, CommandInv
<1>b. RecordsOK'
  BY <1>1, <1>2, <1>3 DEF Preserve, Goto, ControlOK, RecordsOK, SessionsOK, Session, Marker, Phases,
     Runs, durable, binding, command, CommandInv
<1>c. SessionsOK'
  BY <1>3, <1>4 DEF Preserve, SessionsOK, durable, binding, command
<1>d. LockInv'
  BY <1>1, <1>2, <1>3, NamesAssumption DEF Preserve, Goto, ControlOK, LockInv, durable, binding, command
<1>e. MarkerInv'
  BY <1>1, <1>2, <1>3, NamesAssumption DEF Preserve, Goto, MarkerInv, ControlOK, RecordsOK, SessionsOK,
     Session, Marker, Phases, durable, binding, command, CommandInv, RecoverInv, SessionInv, Unstarted,
     Protected, Own, Undecided, Recovers
<1>f. SessionInv'
  BY <1>1, <1>2, <1>3, NamesAssumption DEF Preserve, Goto, SessionInv, CredInv, ControlOK, RecordsOK,
     SessionsOK, Session, Marker, durable, binding, command, CommandInv, RecoverInv, Unstarted,
     Protected, Own, Undecided, Recovers
<1>g. CredInv'
  BY <1>1, <1>2, <1>3 DEF Preserve, Goto, CredInv, SessionInv, ControlOK, SessionsOK, Session,
     Credential, durable, binding, command, verifiable, refreshes
<1>h. CommandInv(p)'
  BY <1>1, <1>2, <1>3, NamesAssumption DEF Preserve, Goto, MarkerInv, SessionInv, ControlOK, RecordsOK,
     SessionsOK, Session, Marker, Phases, Runs, Labels, durable, binding, command, CommandInv,
     RecoverInv, Decided, Unstarted, Protected, Own, Undecided, Recovers
<1>i. RecoverInv(p)'
  BY <1>1, <1>2, <1>3, NamesAssumption DEF Preserve, Goto, MarkerInv, SessionInv, ControlOK, RecordsOK,
     SessionsOK, Session, Marker, Phases, durable, binding, command, CommandInv, RecoverInv, Decided,
     Unstarted, Protected, Own, Undecided, Recovers
<1>j. \A q \in Procs \ {p} : pc'[q] = pc[q] /\ seen'[q] = seen[q]
  BY <1>3 DEF Preserve, Goto, ControlOK, RecordsOK, durable, binding, command
<1>k. QED
  BY <1>1, <1>2, <1>3, <1>a, <1>b, <1>c, <1>d, <1>e, <1>f, <1>g, <1>h, <1>i, <1>j, OnlyHolder DEF IndInv

\* Lock and guards are given back.
LEMMA ReleaseHolds == ASSUME IndInv, NEW p \in Procs, Release(p) PROVE IndInv'
<1>1. pc[p] = "release" /\ lock = p
  BY DEF Release, IndInv, LockInv
<1>2. CommandInv(p) /\ RecoverInv(p)
  BY DEF IndInv, StepInv
<1>3. ControlOK /\ RecordsOK /\ SessionsOK /\ LockInv /\ MarkerInv /\ SessionInv /\ CredInv
  BY DEF IndInv
<1>4. /\ SessionsOK'
      /\ \A t \in Sids : /\ ses'[t].root = ses[t].root /\ ses'[t].prot = ses[t].prot
                         /\ ses'[t].auth = ses[t].auth /\ ses'[t].live = ses[t].live
                         /\ ses'[t].proof = ses[t].proof /\ ses'[t].good = ses[t].good
  BY <1>3, Dropped DEF Release, SessionsOK
<1>n. 1 \in Sids /\ 0 \in 0..Runs
  BY BoundsAssumption DEF Sids, Runs
<1>a. ControlOK'
  BY <1>1, <1>2, <1>3, <1>4, <1>n, BoundsAssumption DEF Release, Forget, Goto, DropGuards, Unbind,
     ControlOK, Labels, durable, binding, command
<1>b. RecordsOK'
  BY <1>1, <1>2, <1>3 DEF Release, Forget, Goto, DropGuards, Unbind, ControlOK, RecordsOK, SessionsOK,
     Session, Marker, Phases, Runs, durable, binding, command, CommandInv
<1>c. SessionsOK'
  BY <1>3, <1>4, <1>n DEF Release, SessionsOK, durable, binding, command
<1>d. LockInv'
  BY <1>1, <1>2, <1>3, NamesAssumption DEF Release, Forget, Goto, DropGuards, Unbind, ControlOK,
     LockInv, durable, binding, command
<1>e. MarkerInv'
  BY <1>1, <1>2, <1>3, <1>4, <1>n, NamesAssumption DEF Release, currentGeneration, Elsewhere,
     MarkerInv, ControlOK, RecordsOK, Marker, Phases, durable, binding, command, CommandInv,
     RecoverInv, SessionInv, Unstarted, Protected, Own, Undecided, Recovers
<1>f. SessionInv'
  BY <1>1, <1>2, <1>3, <1>4, <1>n, NamesAssumption DEF Release, currentGeneration, Elsewhere,
     SessionInv, CredInv, ControlOK, RecordsOK, durable, binding, command, CommandInv, RecoverInv,
     refreshes, verifiable, Unstarted, Protected, Own, Undecided, Recovers
<1>g. CredInv'
  BY <1>1, <1>2, <1>3 DEF Release, Forget, Goto, DropGuards, Unbind, CredInv, SessionInv, ControlOK,
     SessionsOK, Session, Credential, durable, binding, command, verifiable, refreshes
<1>h. CommandInv(p)'
  BY <1>1, <1>2, <1>3, NamesAssumption DEF Release, Forget, Goto, DropGuards, Unbind, MarkerInv,
     SessionInv, ControlOK, RecordsOK, SessionsOK, Session, Marker, Phases, Runs, Labels, durable,
     binding, command, CommandInv, RecoverInv, Decided, Unstarted, Protected, Own, Undecided, Recovers
<1>i. RecoverInv(p)'
  BY <1>1, <1>2, <1>3, NamesAssumption DEF Release, Forget, Goto, DropGuards, Unbind, MarkerInv,
     SessionInv, ControlOK, RecordsOK, SessionsOK, Session, Marker, Phases, durable, binding, command,
     CommandInv, RecoverInv, Decided, Unstarted, Protected, Own, Undecided, Recovers
<1>j. \A q \in Procs \ {p} : pc'[q] = pc[q] /\ seen'[q] = seen[q]
  BY <1>3 DEF Release, Forget, Goto, DropGuards, Unbind, ControlOK, RecordsOK, durable, binding, command
<1>k. QED
  BY <1>1, <1>2, <1>3, <1>a, <1>b, <1>c, <1>d, <1>e, <1>f, <1>g, <1>h, <1>i, <1>j, OnlyHolder DEF IndInv

\* The late settlement advances only the pending generation of its own.
LEMMA SettlePendingHolds == ASSUME IndInv, NEW p \in Procs, SettlePending(p) PROVE IndInv'
<1>1. pc[p] = "settle" /\ lock = p
  BY DEF SettlePending, IndInv, LockInv
<1>2. CommandInv(p) /\ RecoverInv(p)
  BY DEF IndInv, StepInv
<1>3. ControlOK /\ RecordsOK /\ SessionsOK /\ LockInv /\ MarkerInv /\ SessionInv /\ CredInv
  BY DEF IndInv
<1>m. \/ marker' = marker
      \/ /\ currentGeneration(p, {"pending"}) /\ marker \in Marker
         /\ marker' = [marker EXCEPT !.phase = "recoverable"]
  BY <1>3 DEF SettlePending, UpdateMarker, WriteMarker, RecordsOK, currentGeneration
<1>4. \/ marker' = marker
      \/ /\ currentGeneration(p, {"pending"}) /\ marker \in Marker
         /\ marker' \in Marker /\ marker'.phase = "recoverable" /\ marker'.sid = marker.sid
         /\ marker'.refresh = marker.refresh
  BY <1>m DEF Marker, Phases
<1>a. ControlOK'
  BY <1>1, <1>2, <1>3, BoundsAssumption DEF SettlePending, Goto, Fault, UpdateMarker, WriteMarker,
     currentGeneration, ControlOK, Labels, Runs, durable, binding, command, Sids, CommandInv
<1>b. RecordsOK'
  BY <1>1, <1>2, <1>3 DEF SettlePending, Goto, Fault, UpdateMarker, WriteMarker, currentGeneration,
     ControlOK, RecordsOK, SessionsOK, Session, Marker, Phases, Runs, durable, binding, command,
     CommandInv
<1>c. SessionsOK'
  BY <1>1, <1>2, <1>3 DEF SettlePending, Goto, Fault, UpdateMarker, WriteMarker, currentGeneration,
     ControlOK, RecordsOK, SessionsOK, Session, Runs, durable, binding, command
<1>d. LockInv'
  BY <1>1, <1>2, <1>3, NamesAssumption DEF SettlePending, Goto, Fault, UpdateMarker, WriteMarker,
     currentGeneration, ControlOK, LockInv, durable, binding, command
<1>e. MarkerInv'
  BY <1>1, <1>2, <1>3, <1>m, <1>4, NamesAssumption DEF SettlePending, currentGeneration, Elsewhere,
     MarkerInv, ControlOK, RecordsOK, Marker, Phases, durable, binding, command, CommandInv,
     RecoverInv, SessionInv, Unstarted, Protected, Own, Undecided, Recovers
<1>f. SessionInv'
  BY <1>1, <1>2, <1>3, <1>m, <1>4, NamesAssumption DEF SettlePending, currentGeneration, Elsewhere,
     SessionInv, CredInv, ControlOK, RecordsOK, durable, binding, command, CommandInv, RecoverInv,
     refreshes, verifiable, Unstarted, Protected, Own, Undecided, Recovers
<1>g. CredInv'
  BY <1>1, <1>2, <1>3 DEF SettlePending, Goto, Fault, UpdateMarker, WriteMarker, currentGeneration,
     CredInv, SessionInv, ControlOK, SessionsOK, Session, Credential, durable, binding, command,
     verifiable, refreshes
<1>h. CommandInv(p)'
  BY <1>1, <1>2, <1>3, NamesAssumption DEF SettlePending, Goto, Fault, UpdateMarker, WriteMarker,
     currentGeneration, MarkerInv, SessionInv, ControlOK, RecordsOK, SessionsOK, Session, Marker,
     Phases, Runs, Labels, durable, binding, command, CommandInv, RecoverInv, Decided, Unstarted,
     Protected, Own, Undecided, Recovers
<1>i. RecoverInv(p)'
  BY <1>1, <1>2, <1>3, NamesAssumption DEF SettlePending, Goto, Fault, UpdateMarker, WriteMarker,
     currentGeneration, MarkerInv, SessionInv, ControlOK, RecordsOK, SessionsOK, Session, Marker,
     Phases, durable, binding, command, CommandInv, RecoverInv, Decided, Unstarted, Protected, Own,
     Undecided, Recovers
<1>j. \A q \in Procs \ {p} : pc'[q] = pc[q] /\ seen'[q] = seen[q]
  BY <1>3 DEF SettlePending, Goto, Fault, UpdateMarker, WriteMarker, currentGeneration, ControlOK,
     RecordsOK, durable, binding, command
<1>k. QED
  BY <1>1, <1>2, <1>3, <1>a, <1>b, <1>c, <1>d, <1>e, <1>f, <1>g, <1>h, <1>i, <1>j, OnlyHolder DEF IndInv

\* Recovery goes on only where no process can be alive.
LEMMA RecoverSessionHolds == ASSUME IndInv, NEW p \in Procs, RecoverSession(p) PROVE IndInv'
<1>1. pc[p] = "found" /\ lock = p
  BY DEF RecoverSession, IndInv, LockInv
<1>2. CommandInv(p) /\ RecoverInv(p)
  BY DEF IndInv, StepInv
<1>3. ControlOK /\ RecordsOK /\ SessionsOK /\ LockInv /\ MarkerInv /\ SessionInv /\ CredInv
  BY DEF IndInv
<1> DEFINE s == seen[p].sid
<1>s. s \in Sids /\ seen[p] # Nil
  BY <1>1, <1>2, <1>3 DEF RecoverInv, Recovers, RecordsOK, Marker
<1>4. \/ /\ SessionsOK' /\ Elsewhere(s)
         /\ ses'[s].root = ses[s].root /\ ses'[s].prot = ses[s].prot
         /\ ses'[s].auth = ses[s].auth /\ ses'[s].live = ses[s].live
         /\ ses'[s].proof = ses[s].proof /\ ses'[s].good = ses[s].good
      \/ ses' = ses
  BY <1>3, <1>s, Guarding DEF RecoverSession
<1>a. ControlOK'
  BY <1>1, <1>2, <1>3, BoundsAssumption DEF RecoverSession, Goto, recordsAgree, ControlOK, Labels,
     Runs, durable, binding, command, Sids, CommandInv
<1>b. RecordsOK'
  BY <1>1, <1>2, <1>3 DEF RecoverSession, Goto, recordsAgree, ControlOK, RecordsOK, SessionsOK,
     Session, Marker, Phases, Runs, durable, binding, command, CommandInv
<1>c. SessionsOK'
  BY <1>3, <1>s, <1>4 DEF RecoverSession, SessionsOK, durable, binding, command
<1>d. LockInv'
  BY <1>1, <1>2, <1>3, NamesAssumption DEF RecoverSession, Goto, recordsAgree, ControlOK, LockInv,
     durable, binding, command
<1>e. MarkerInv'
  <2>1. marker' = marker /\ (marker # Nil => marker.sid \in Sids)
    BY <1>3 DEF RecoverSession, RecordsOK, Marker
  <2>2. QED
    BY <1>3, <1>s, <1>4, <2>1 DEF MarkerInv, Elsewhere
<1>f. SessionInv'
  BY <1>1, <1>2, <1>3, <1>s, <1>4, NamesAssumption DEF RecoverSession, currentGeneration, Elsewhere,
     SessionInv, CredInv, ControlOK, RecordsOK, durable, binding, command, CommandInv, RecoverInv,
     refreshes, verifiable, Unstarted, Protected, Own, Undecided, Recovers
<1>g. CredInv'
  BY <1>1, <1>2, <1>3 DEF RecoverSession, Goto, recordsAgree, CredInv, SessionInv, ControlOK,
     SessionsOK, Session, Credential, durable, binding, command, verifiable, refreshes
<1>h. CommandInv(p)'
  <2>1. pc'[p] \in {"proven", "discard", "done", "release"}
    BY <1>3 DEF RecoverSession, Goto, ControlOK
  <2>2. QED
    BY <2>1 DEF CommandInv, Unstarted, Protected, Own, Undecided
<1>i. RecoverInv(p)'
  BY <1>1, <1>2, <1>3, NamesAssumption DEF RecoverSession, Goto, recordsAgree, MarkerInv, SessionInv,
     ControlOK, RecordsOK, SessionsOK, Session, Marker, Phases, durable, binding, command, CommandInv,
     RecoverInv, Decided, Unstarted, Protected, Own, Undecided, Recovers
<1>j. \A q \in Procs \ {p} : pc'[q] = pc[q] /\ seen'[q] = seen[q]
  BY <1>3 DEF RecoverSession, Goto, recordsAgree, ControlOK, RecordsOK, durable, binding, command
<1>k. QED
  BY <1>1, <1>2, <1>3, <1>a, <1>b, <1>c, <1>d, <1>e, <1>f, <1>g, <1>h, <1>i, <1>j, OnlyHolder DEF IndInv

\* Recovery decides against the record that is stored now.
LEMMA FinalizeRecoveryHolds == ASSUME IndInv, NEW p \in Procs, FinalizeRecovery(p) PROVE IndInv'
<1>1. pc[p] = "proven" /\ lock = p
  BY DEF FinalizeRecovery, IndInv, LockInv
<1>2. CommandInv(p) /\ RecoverInv(p)
  BY DEF IndInv, StepInv
<1>3. ControlOK /\ RecordsOK /\ SessionsOK /\ LockInv /\ MarkerInv /\ SessionInv /\ CredInv
  BY DEF IndInv
<1> DEFINE s == seen[p].sid
<1>s. s \in Sids /\ seen[p] # Nil
  BY <1>1, <1>2, <1>3 DEF RecoverInv, Recovers, RecordsOK, Marker
<1>4. \/ /\ SessionsOK' /\ Elsewhere(s)
         /\ ses'[s].root = ses[s].root /\ ses'[s].prot = ses[s].prot
         /\ ses'[s].auth = ses[s].auth /\ ses'[s].live = ses[s].live
         /\ ses'[s].proof = ses[s].proof /\ ses'[s].good = ses[s].good
         /\ ses'[s].unverified = TRUE /\ cred' = cred
      \/ ses' = ses
  BY <1>3, <1>s, Distrusting DEF FinalizeRecovery, Decide, WriteCredential, Unverified
<1>5. /\ pc' \in {[pc EXCEPT ![p] = "discard"], [pc EXCEPT ![p] = "release"]}
      /\ \/ cred' = cred
         \/ ses[s].auth # cred /\ cred' = ses[s].auth /\ refreshes(cred', cred) /\ ses' = ses
  BY <1>1, <1>2 DEF FinalizeRecovery, Decide, WriteCredential, Goto
<1> HIDE DEF s
<1>6. cred' \in Credential \cup {Nil}
  BY <1>3, <1>5, <1>s DEF RecordsOK, SessionsOK, Session, refreshes, verifiable, ControlOK
<1>a. ControlOK'
  BY <1>1, <1>2, <1>3, BoundsAssumption DEF FinalizeRecovery, Goto, Fault, Decide, WriteCredential,
     Unverified, replaceable, ControlOK, Labels, Runs, durable, binding, command, Sids, CommandInv
<1>b. RecordsOK'
  BY <1>3, <1>s, <1>4, <1>5, <1>6 DEF FinalizeRecovery, RecordsOK, durable, binding, command
<1>c. SessionsOK'
  BY <1>3, <1>s, <1>4, <1>5, <1>6 DEF FinalizeRecovery, SessionsOK, durable, binding, command
<1>d. LockInv'
  BY <1>1, <1>2, <1>3, NamesAssumption DEF FinalizeRecovery, Goto, Fault, Decide, WriteCredential,
     Unverified, replaceable, ControlOK, LockInv, durable, binding, command
<1>e. MarkerInv'
  BY <1>1, <1>2, <1>3, <1>s, <1>4, <1>5, <1>6, NamesAssumption DEF FinalizeRecovery, currentGeneration,
     Elsewhere, MarkerInv, ControlOK, RecordsOK, Marker, Phases, durable, binding, command, CommandInv,
     RecoverInv, SessionInv, Unstarted, Protected, Own, Undecided, Recovers
<1>f. SessionInv'
  BY <1>1, <1>2, <1>3, <1>s, <1>4, <1>5, <1>6, NamesAssumption DEF FinalizeRecovery, currentGeneration,
     Elsewhere, SessionInv, CredInv, ControlOK, RecordsOK, durable, binding, command, CommandInv,
     RecoverInv, refreshes, verifiable, Unstarted, Protected, Own, Undecided, Recovers
<1>g. CredInv'
  BY <1>3, <1>s, <1>4, <1>5, <1>6 DEF FinalizeRecovery, CredInv, SessionInv, ControlOK, SessionsOK,
     Session, Credential, durable, binding, command, verifiable, refreshes
<1>h. CommandInv(p)'
  <2>1. pc'[p] \in {"discard", "release"}
    BY <1>3, <1>5 DEF ControlOK
  <2>2. QED
    BY <2>1 DEF CommandInv, Unstarted, Protected, Own, Undecided
<1>i. RecoverInv(p)'
  BY <1>1, <1>2, <1>3, NamesAssumption DEF FinalizeRecovery, Goto, Fault, Decide, WriteCredential,
     Unverified, replaceable, MarkerInv, SessionInv, ControlOK, RecordsOK, SessionsOK, Session, Marker,
     Phases, durable, binding, command, CommandInv, RecoverInv, Decided, Unstarted, Protected, Own,
     Undecided, Recovers
<1>j. \A q \in Procs \ {p} : pc'[q] = pc[q] /\ seen'[q] = seen[q]
  BY <1>3 DEF FinalizeRecovery, Goto, Fault, Decide, WriteCredential, Unverified, replaceable,
     ControlOK, RecordsOK, durable, binding, command
<1>k. QED
  BY <1>1, <1>2, <1>3, <1>a, <1>b, <1>c, <1>d, <1>e, <1>f, <1>g, <1>h, <1>i, <1>j, OnlyHolder DEF IndInv

\* Recovery removes only what is decided.
LEMMA RecoverRemoveHolds == ASSUME IndInv, NEW p \in Procs, RecoverRemove(p) PROVE IndInv'
<1>1. pc[p] = "discard" /\ lock = p
  BY DEF RecoverRemove, IndInv, LockInv
<1>2. CommandInv(p) /\ RecoverInv(p)
  BY DEF IndInv, StepInv
<1>3. ControlOK /\ RecordsOK /\ SessionsOK /\ LockInv /\ MarkerInv /\ SessionInv /\ CredInv
  BY DEF IndInv
<1> DEFINE s == seen[p].sid
<1>s. s \in Sids /\ seen[p] # Nil
  BY <1>1, <1>2, <1>3 DEF RecoverInv, Recovers, RecordsOK, Marker
<1>4. \/ /\ SessionsOK' /\ Elsewhere(s)
         /\ ses'[s].root = FALSE /\ ses'[s].prot = FALSE
         /\ ses'[s].auth = Nil /\ ses'[s].live = ses[s].live /\ ses'[s].good = ses[s].good
         /\ pc' = [pc EXCEPT ![p] = "done"]
      \/ ses' = ses /\ pc' = [pc EXCEPT ![p] = "release"]
  BY <1>3, <1>s, Removing DEF RecoverRemove, Goto
<1>a. ControlOK'
  BY <1>1, <1>2, <1>3, BoundsAssumption DEF RecoverRemove, Goto, Fault, ControlOK, Labels, Runs,
     durable, binding, command, Sids, CommandInv
<1>b. RecordsOK'
  BY <1>1, <1>2, <1>3 DEF RecoverRemove, Goto, Fault, ControlOK, RecordsOK, SessionsOK, Session,
     Marker, Phases, Runs, durable, binding, command, CommandInv
<1>c. SessionsOK'
  BY <1>3, <1>s, <1>4 DEF RecoverRemove, SessionsOK, durable, binding, command
<1>d. LockInv'
  BY <1>1, <1>2, <1>3, NamesAssumption DEF RecoverRemove, Goto, Fault, ControlOK, LockInv, durable,
     binding, command
<1>e. MarkerInv'
  BY <1>1, <1>2, <1>3, <1>s, <1>4, NamesAssumption DEF RecoverRemove, currentGeneration, Elsewhere,
     MarkerInv, ControlOK, RecordsOK, Marker, Phases, durable, binding, command, CommandInv,
     RecoverInv, SessionInv, Unstarted, Protected, Own, Undecided, Recovers
<1>f. SessionInv'
  BY <1>1, <1>2, <1>3, <1>s, <1>4, NamesAssumption DEF RecoverRemove, currentGeneration, Elsewhere,
     SessionInv, CredInv, ControlOK, RecordsOK, durable, binding, command, CommandInv, RecoverInv,
     refreshes, verifiable, Unstarted, Protected, Own, Undecided, Recovers
<1>g. CredInv'
  BY <1>1, <1>2, <1>3 DEF RecoverRemove, Goto, Fault, CredInv, SessionInv, ControlOK, SessionsOK,
     Session, Credential, durable, binding, command, verifiable, refreshes
<1>h. CommandInv(p)'
  <2>1. pc'[p] \in {"done", "release"}
    BY <1>3, <1>4 DEF ControlOK
  <2>2. QED
    BY <2>1 DEF CommandInv, Unstarted, Protected, Own, Undecided
<1>i. RecoverInv(p)'
  BY <1>1, <1>2, <1>3, <1>s, <1>4, NamesAssumption DEF RecoverRemove, Elsewhere, MarkerInv, SessionInv,
     ControlOK, RecordsOK, durable, binding, command, CommandInv, RecoverInv, Decided, Unstarted,
     Protected, Own, Undecided, Recovers, refreshes, verifiable
<1>j. \A q \in Procs \ {p} : pc'[q] = pc[q] /\ seen'[q] = seen[q]
  BY <1>3 DEF RecoverRemove, Goto, Fault, ControlOK, RecordsOK, durable, binding, command
<1>k. QED
  BY <1>1, <1>2, <1>3, <1>a, <1>b, <1>c, <1>d, <1>e, <1>f, <1>g, <1>h, <1>i, <1>j, OnlyHolder DEF IndInv

\* Recovery deletes the marker it is bound to.
LEMMA RecoverDeleteHolds == ASSUME IndInv, NEW p \in Procs, RecoverDelete(p) PROVE IndInv'
<1>1. pc[p] = "done" /\ lock = p
  BY DEF RecoverDelete, IndInv, LockInv
<1>2. CommandInv(p) /\ RecoverInv(p)
  BY DEF IndInv, StepInv
<1>3. ControlOK /\ RecordsOK /\ SessionsOK /\ LockInv /\ MarkerInv /\ SessionInv /\ CredInv
  BY DEF IndInv
<1>a. ControlOK'
  BY <1>1, <1>2, <1>3, BoundsAssumption DEF RecoverDelete, Goto, Fault, WriteMarker, ControlOK, Labels,
     Runs, durable, binding, command, Sids, CommandInv
<1>b. RecordsOK'
  BY <1>1, <1>2, <1>3 DEF RecoverDelete, Goto, Fault, WriteMarker, ControlOK, RecordsOK, SessionsOK,
     Session, Marker, Phases, Runs, durable, binding, command, CommandInv
<1>c. SessionsOK'
  BY <1>1, <1>2, <1>3 DEF RecoverDelete, Goto, Fault, WriteMarker, ControlOK, RecordsOK, SessionsOK,
     Session, Runs, durable, binding, command
<1>d. LockInv'
  BY <1>1, <1>2, <1>3, NamesAssumption DEF RecoverDelete, Goto, Fault, WriteMarker, ControlOK, LockInv,
     durable, binding, command
<1>e. MarkerInv'
  BY <1>1, <1>2, <1>3, NamesAssumption DEF RecoverDelete, Goto, Fault, WriteMarker, MarkerInv,
     ControlOK, RecordsOK, SessionsOK, Session, Marker, Phases, durable, binding, command, CommandInv,
     RecoverInv, SessionInv, Unstarted, Protected, Own, Undecided, Recovers
<1>f. SessionInv'
  BY <1>1, <1>2, <1>3, NamesAssumption DEF RecoverDelete, Goto, Fault, WriteMarker, SessionInv,
     CredInv, ControlOK, RecordsOK, SessionsOK, Session, Marker, durable, binding, command, CommandInv,
     RecoverInv, Unstarted, Protected, Own, Undecided, Recovers
<1>g. CredInv'
  BY <1>1, <1>2, <1>3 DEF RecoverDelete, Goto, Fault, WriteMarker, CredInv, SessionInv, ControlOK,
     SessionsOK, Session, Credential, durable, binding, command, verifiable, refreshes
<1>h. CommandInv(p)'
  BY <1>1, <1>2, <1>3, NamesAssumption DEF RecoverDelete, Goto, Fault, WriteMarker, MarkerInv,
     SessionInv, ControlOK, RecordsOK, SessionsOK, Session, Marker, Phases, Runs, Labels, durable,
     binding, command, CommandInv, RecoverInv, Decided, Unstarted, Protected, Own, Undecided, Recovers
<1>i. RecoverInv(p)'
  BY <1>1, <1>2, <1>3, NamesAssumption DEF RecoverDelete, Goto, Fault, WriteMarker, MarkerInv,
     SessionInv, ControlOK, RecordsOK, SessionsOK, Session, Marker, Phases, durable, binding, command,
     CommandInv, RecoverInv, Decided, Unstarted, Protected, Own, Undecided, Recovers
<1>j. \A q \in Procs \ {p} : pc'[q] = pc[q] /\ seen'[q] = seen[q]
  BY <1>3 DEF RecoverDelete, Goto, Fault, WriteMarker, ControlOK, RecordsOK, durable, binding, command
<1>k. QED
  BY <1>1, <1>2, <1>3, <1>a, <1>b, <1>c, <1>d, <1>e, <1>f, <1>g, <1>h, <1>i, <1>j, OnlyHolder DEF IndInv
-----------------------------------------------------------------------------
(* The steps that take the lock, end a process, or are not of a command. *)

\* Everything the invariant says about a Session, its guard apart, stays.
SessionsKept ==
    \A t \in Sids : /\ ses'[t].root = ses[t].root /\ ses'[t].prot = ses[t].prot
                    /\ ses'[t].auth = ses[t].auth /\ ses'[t].live = ses[t].live
                    /\ ses'[t].proof = ses[t].proof /\ ses'[t].good = ses[t].good
                    /\ ses'[t].unverified = ses[t].unverified
LocalsKept(q) ==
    /\ pc'[q] = pc[q] /\ seen'[q] = seen[q] /\ sid'[q] = sid[q] /\ chal'[q] = chal[q]
    /\ failed'[q] = failed[q] /\ snap'[q] = snap[q] /\ op'[q] = op[q]

\* Marker, credential and Sessions stay as they are, guards apart.
LEMMA RecordsStay ==
    ASSUME RecordsOK, MarkerInv, SessionInv, CredInv, SessionsKept,
           marker' = marker, cred' = cred, issued' = issued
    PROVE  MarkerInv' /\ SessionInv' /\ CredInv'
<1>1. marker # Nil => marker.sid \in Sids
  BY DEF RecordsOK, Marker
<1>2. MarkerInv'
  BY <1>1 DEF MarkerInv, SessionsKept
<1>3. SessionInv' /\ CredInv'
  BY DEF SessionInv, CredInv, SessionsKept
<1>4. QED
  BY <1>2, <1>3

\* What a process knows survives the steps of the others that only take or
\* release a guard of their own.
LEMMA Bystander ==
    ASSUME ControlOK, RecordsOK, NEW q \in Procs, CommandInv(q), RecoverInv(q), SessionsKept, LocalsKept(q),
           marker' = marker, cred' = cred,
           \A t \in Sids : ses[t].guard = q => ses'[t].guard = q
    PROVE  CommandInv(q)' /\ RecoverInv(q)'
<1>1. sid[q] \in Sids /\ (seen[q] # Nil => seen[q].sid \in Sids)
  BY DEF ControlOK, RecordsOK, Marker
<1>2. Decided(sid[q])' <=> Decided(sid[q])
  BY <1>1 DEF Decided, SessionsKept, LocalsKept
<1>3. CommandInv(q)'
  BY <1>1, <1>2 DEF CommandInv, SessionsKept, LocalsKept
<1>4. RecoverInv(q)'
  <2>1. seen[q] # Nil => (Decided(seen[q].sid)' <=> Decided(seen[q].sid))
    BY <1>1 DEF Decided, SessionsKept, LocalsKept
  <2>2. QED
    BY <1>1, <2>1 DEF RecoverInv, SessionsKept, LocalsKept, Recovers
<1>5. QED
  BY <1>3, <1>4

\* A command starts with the lock and no marker.
LEMMA BeginHolds ==
    ASSUME IndInv, NEW p \in Procs, NEW k \in {"login", "status", "run"}, Begin(p, k),
           k \in {"status", "run"} => cred # Nil
    PROVE  IndInv'
<1>1. lock = Nil /\ marker = Nil
  BY DEF Begin, TryLock
<1>2. ControlOK /\ RecordsOK /\ SessionsOK /\ LockInv /\ MarkerInv /\ SessionInv /\ CredInv
  BY DEF IndInv
<1>3. ControlOK'
  BY <1>2 DEF Begin, TryLock, Goto, Loads, ControlOK, Labels, durable
<1>4. RecordsOK' /\ SessionsOK'
  BY <1>2 DEF Begin, Loads, RecordsOK, SessionsOK
<1>5. LockInv'
  BY <1>1, <1>2, NamesAssumption DEF Begin, TryLock, Goto, LockInv, ControlOK
<1>6. MarkerInv' /\ SessionInv' /\ CredInv'
  BY <1>2, RecordsStay DEF Begin, SessionsKept
<1>7. CommandInv(p)' /\ RecoverInv(p)'
  BY <1>1, <1>2 DEF Begin, Goto, Loads, ControlOK, RecordsOK, CommandInv, RecoverInv,
                    Unstarted, Protected, Own, Undecided, Recovers
<1>8. \A q \in Procs \ {p} : pc'[q] = pc[q] /\ seen'[q] = seen[q]
  BY <1>2 DEF Begin, Goto, ControlOK, RecordsOK
<1>9. QED
  BY <1>1, <1>3, <1>4, <1>5, <1>6, <1>7, <1>8, OnlyHolder DEF IndInv

\* There is no marker and nothing to lose.
LEMMA LogoutHolds == ASSUME IndInv, NEW p \in Procs, Logout(p) PROVE IndInv'
<1>1. lock = Nil /\ marker = Nil /\ pc[p] = "idle"
  BY DEF Logout
<1>2. ControlOK /\ RecordsOK /\ SessionsOK /\ LockInv /\ MarkerInv /\ SessionInv /\ CredInv
  BY DEF IndInv
<1>3. cred' \in {cred, Nil} /\ pc' = [pc EXCEPT ![p] = "idle"]
  BY DEF Logout, WriteCredential, Goto
<1>4. ControlOK'
  BY <1>2, <1>3, BoundsAssumption DEF Logout, WriteCredential, Fault, ControlOK, Labels, durable,
     command, binding
<1>5. RecordsOK' /\ SessionsOK'
  BY <1>2, <1>3 DEF Logout, RecordsOK, SessionsOK, command, binding
<1>6. LockInv'
  BY <1>1, <1>2, <1>3 DEF Logout, LockInv, ControlOK
<1>7. MarkerInv' /\ SessionInv' /\ CredInv'
  BY <1>1, <1>2, <1>3 DEF Logout, MarkerInv, SessionInv, CredInv
<1>8. CommandInv(p)' /\ RecoverInv(p)'
  BY <1>1, <1>2, <1>3 DEF Logout, ControlOK, CommandInv, RecoverInv, Unstarted, Protected, Own,
     Undecided, Recovers
<1>9. \A q \in Procs \ {p} : pc'[q] = pc[q] /\ seen'[q] = seen[q]
  BY <1>2, <1>3 DEF Logout, ControlOK, command
<1>10. QED
  BY <1>1, <1>4, <1>5, <1>6, <1>7, <1>8, <1>9, OnlyHolder DEF IndInv

\* The settlement only releases its guard before it has the lock.
LEMMA SettleBeginHolds == ASSUME IndInv, NEW p \in Procs, SettleBegin(p) PROVE IndInv'
<1>1. pc[p] = "idle" /\ ~ses[sid[p]].live
  BY DEF SettleBegin, mine
<1>2. ControlOK /\ RecordsOK /\ SessionsOK /\ LockInv /\ MarkerInv /\ SessionInv /\ CredInv
  BY DEF IndInv
<1>3. /\ SessionsOK' /\ SessionsKept
      /\ \A t \in Sids : \A q \in Procs \ {p} : ses[t].guard = q => ses'[t].guard = q
  <2>1. sid[p] \in Sids
    BY <1>2 DEF ControlOK
  <2>2. PICK g \in Procs \cup {Nil} : /\ ses' = [ses EXCEPT ![sid[p]].guard = g]
                                      /\ g = IF ses[sid[p]].guard = p THEN Nil ELSE ses[sid[p]].guard
    <3>1. ses[sid[p]].guard \in Procs \cup {Nil}
      BY <1>2, <2>1 DEF SessionsOK, Session
    <3>2. QED
      BY <1>2, <2>1, <3>1 DEF SettleBegin, SessionsOK
  <2>3. SessionsOK' /\ SessionsKept /\ ses'[sid[p]].guard = g
    <3>1. /\ SessionsOK' /\ Elsewhere(sid[p]) /\ ses'[sid[p]].guard = g
          /\ ses'[sid[p]].root = ses[sid[p]].root /\ ses'[sid[p]].prot = ses[sid[p]].prot
          /\ ses'[sid[p]].auth = ses[sid[p]].auth /\ ses'[sid[p]].live = ses[sid[p]].live
          /\ ses'[sid[p]].proof = ses[sid[p]].proof /\ ses'[sid[p]].good = ses[sid[p]].good
          /\ ses'[sid[p]].unverified = ses[sid[p]].unverified
      BY <1>2, <2>1, <2>2, Guarding
    <3>2. QED
      BY <3>1 DEF Elsewhere, SessionsKept
  <2>4. \A t \in Sids \ {sid[p]} : ses'[t] = ses[t]
    BY <1>2, <2>1, <2>2, Guarding DEF Elsewhere
  <2>5. QED
    BY <2>1, <2>2, <2>3, <2>4
<1>4. ControlOK' /\ RecordsOK'
  BY <1>2 DEF SettleBegin, Goto, ControlOK, RecordsOK, Labels, durable, command, binding
<1>5. LockInv'
  BY <1>1, <1>2, NamesAssumption DEF SettleBegin, Goto, LockInv, ControlOK
<1>6. MarkerInv' /\ SessionInv' /\ CredInv'
  BY <1>2, <1>3, RecordsStay DEF SettleBegin
<1>7. CASE lock = Nil
  <2>1. CommandInv(p)' /\ RecoverInv(p)'
    BY <1>1, <1>2, <1>3, <1>7 DEF SettleBegin, Goto, ControlOK, command, binding, SessionsKept,
       CommandInv, RecoverInv, Unstarted, Protected, Own, Undecided, Recovers
  <2>2. \A q \in Procs \ {p} : pc'[q] = pc[q] /\ seen'[q] = seen[q]
    BY <1>2 DEF SettleBegin, Goto, ControlOK, command
  <2>3. QED
    BY <1>3, <1>4, <1>5, <1>6, <1>7, <2>1, <2>2, OnlyHolder DEF IndInv
<1>8. CASE lock # Nil
  <2>1. ASSUME NEW q \in Procs PROVE CommandInv(q)' /\ RecoverInv(q)'
    <3>1. LocalsKept(q) /\ marker' = marker /\ cred' = cred /\ pc' = pc
      BY <1>8 DEF SettleBegin, command, binding, LocalsKept
    <3>2. CASE q = p
      BY <1>1, <3>1, <3>2 DEF LocalsKept, CommandInv, RecoverInv, Unstarted, Protected, Own, Undecided,
         Recovers
    <3>3. CASE q # p
      BY <1>2, <1>3, <3>1, <3>3, Bystander DEF IndInv, StepInv
    <3>4. QED
      BY <3>2, <3>3
  <2>2. QED
    BY <1>3, <1>4, <1>5, <1>6, <2>1 DEF IndInv, StepInv
<1>9. QED
  BY <1>7, <1>8

\* Recovery is bound to the marker it found.
LEMMA AcquireRecoveryHolds == ASSUME IndInv, NEW p \in Procs, AcquireRecovery(p) PROVE IndInv'
<1>1. /\ pc[p] = "idle" /\ marker # Nil /\ seen' = [seen EXCEPT ![p] = marker]
      /\ \/ lock = Nil /\ lock' = p /\ pc' = [pc EXCEPT ![p] = "found"]
         \/ lock # Nil /\ lock' = lock /\ pc' = [pc EXCEPT ![p] = "wait"]
  BY DEF AcquireRecovery, Goto
<1>2. ControlOK /\ RecordsOK /\ SessionsOK /\ LockInv /\ MarkerInv /\ SessionInv /\ CredInv
  BY DEF IndInv
<1>3. ControlOK'
  BY <1>2 DEF AcquireRecovery, Goto, ControlOK, Labels, durable, binding
<1>4. RecordsOK' /\ SessionsOK'
  BY <1>1, <1>2 DEF AcquireRecovery, RecordsOK, SessionsOK, binding
<1>5. LockInv'
  BY <1>1, <1>2, NamesAssumption DEF AcquireRecovery, Goto, LockInv, ControlOK
<1>6. MarkerInv' /\ SessionInv' /\ CredInv'
  BY <1>2, RecordsStay DEF AcquireRecovery, SessionsKept
<1>7. CommandInv(p)' /\ RecoverInv(p)'
  BY <1>1, <1>2 DEF AcquireRecovery, ControlOK, RecordsOK, binding,
     CommandInv, RecoverInv, Unstarted, Protected, Own, Undecided, Recovers
<1>8. ASSUME NEW q \in Procs \ {p} PROVE CommandInv(q)' /\ RecoverInv(q)'
  <2>1. LocalsKept(q) /\ SessionsKept /\ marker' = marker /\ cred' = cred /\ ses' = ses
    BY <1>1, <1>2 DEF AcquireRecovery, ControlOK, RecordsOK, binding, LocalsKept, SessionsKept
  <2>2. QED
    BY <1>2, <2>1, Bystander DEF IndInv, StepInv
<1>9. QED
  BY <1>3, <1>4, <1>5, <1>6, <1>7, <1>8 DEF IndInv, StepInv

\* The exact marker, or the end of the wait.
LEMMA AwaitHandoffHolds == ASSUME IndInv, NEW p \in Procs, AwaitHandoff(p) PROVE IndInv'
<1>1. /\ pc[p] = "wait" /\ ses' = ses /\ marker' = marker /\ cred' = cred /\ issued' = issued
      /\ \/ lock = Nil /\ lock' = p /\ marker = seen[p] /\ seen' = seen /\ pc' = [pc EXCEPT ![p] = "found"]
         \/ lock' = lock /\ pc' = [pc EXCEPT ![p] = "idle"]
  BY DEF AwaitHandoff, Goto, Forget
<1>2. ControlOK /\ RecordsOK /\ SessionsOK /\ LockInv /\ MarkerInv /\ SessionInv /\ CredInv
  BY DEF IndInv
<1>3. RecoverInv(p)
  BY DEF IndInv, StepInv
<1>4. ControlOK'
  BY <1>2 DEF AwaitHandoff, Goto, Forget, ControlOK, Labels, durable
<1>5. RecordsOK' /\ SessionsOK'
  BY <1>2 DEF AwaitHandoff, Forget, RecordsOK, SessionsOK
<1>6. LockInv'
  BY <1>1, <1>2, NamesAssumption DEF LockInv, ControlOK
<1>7. MarkerInv' /\ SessionInv' /\ CredInv'
  BY <1>1, <1>2, RecordsStay DEF SessionsKept
<1>8. CommandInv(p)' /\ RecoverInv(p)'
  BY <1>1, <1>2, <1>3 DEF ControlOK, CommandInv, RecoverInv, Unstarted, Protected, Own, Undecided,
     Recovers
<1>9. ASSUME NEW q \in Procs \ {p} PROVE CommandInv(q)' /\ RecoverInv(q)'
  <2>1. LocalsKept(q) /\ SessionsKept
    BY <1>1, <1>2 DEF AwaitHandoff, Forget, Goto, ControlOK, RecordsOK, LocalsKept, SessionsKept
  <2>2. QED
    BY <1>1, <1>2, <2>1, Bystander DEF IndInv, StepInv
<1>10. QED
  BY <1>4, <1>5, <1>6, <1>7, <1>8, <1>9 DEF IndInv, StepInv

\* The end of a process takes away nothing that others rely on.
LEMMA EndsHolds ==
    ASSUME IndInv, NEW p \in Procs, Ends(p), faults' \in 0..MaxFaults
    PROVE  IndInv'
<1>1. /\ lock' = (IF lock = p THEN Nil ELSE lock) /\ DropGuards(p)
      /\ marker' = marker /\ cred' = cred /\ issued' = issued /\ pc' = [pc EXCEPT ![p] = "idle"]
  BY DEF Ends, Forget, Goto
<1>2. ControlOK /\ RecordsOK /\ SessionsOK /\ LockInv /\ MarkerInv /\ SessionInv /\ CredInv
  BY DEF IndInv
<1>3. /\ SessionsOK' /\ SessionsKept
      /\ \A t \in Sids : \A q \in Procs \ {p} : ses[t].guard = q => ses'[t].guard = q
  BY <1>1, <1>2, Dropped DEF SessionsKept
<1>4. ControlOK'
  <2>1. 1 \in Sids /\ 0 \in 0..Runs
    BY BoundsAssumption DEF Sids, Runs
  <2>2. QED
    BY <1>2, <2>1 DEF Ends, Forget, Goto, Unbind, ControlOK, Labels, durable
<1>5. RecordsOK'
  BY <1>2 DEF Ends, Forget, RecordsOK
<1>6. LockInv'
  BY <1>1, <1>2, NamesAssumption DEF LockInv, ControlOK
<1>7. MarkerInv' /\ SessionInv' /\ CredInv'
  BY <1>1, <1>2, <1>3, RecordsStay
<1>8. CommandInv(p)' /\ RecoverInv(p)'
  BY <1>1, <1>2 DEF ControlOK, CommandInv, RecoverInv, Unstarted, Protected, Own, Undecided, Recovers
<1>9. ASSUME NEW q \in Procs \ {p} PROVE CommandInv(q)' /\ RecoverInv(q)'
  <2>1. LocalsKept(q)
    BY <1>2 DEF Ends, Forget, Goto, Unbind, ControlOK, RecordsOK, LocalsKept
  <2>2. QED
    BY <1>1, <1>2, <1>3, <2>1, Bystander DEF IndInv, StepInv
<1>10. QED
  BY <1>3, <1>4, <1>5, <1>6, <1>7, <1>8, <1>9 DEF IndInv, StepInv

\* Steps outside the commands leave all of their locals.
LEMMA EnvironmentFrame ==
    ASSUME ControlOK, RecordsOK, LockInv,
           UNCHANGED <<durable, cred, marker, lock, pc, command, binding, waiter, faults>>, issued' \in 0..MaxIssued
    PROVE  ControlOK' /\ RecordsOK' /\ LockInv' /\ \A q \in Procs : LocalsKept(q)
  BY DEF ControlOK, RecordsOK, LockInv, durable, command, binding, LocalsKept

\* A contained process writes its projection: it is alive, so nobody has decided
\* about the Session yet.
LEMMA TargetWritesHolds == ASSUME IndInv, NEW s \in Sids, TargetWrites(s) PROVE IndInv'
<1>1. ControlOK /\ RecordsOK /\ SessionsOK /\ LockInv /\ MarkerInv /\ SessionInv /\ CredInv
  BY DEF IndInv
<1>2. PICK a \in Credential \cup {Bad, Nil} :
        /\ ses' = [ses EXCEPT ![s].auth = a]
        /\ \/ a \in Credential /\ a.ver = issued' /\ issued' = issued + 1 /\ issued < MaxIssued
           \/ a \in {Bad, Nil} /\ issued' = issued
  <2>1. CASE issued < MaxIssued /\ issued' = issued + 1
    <3>1. PICK u \in Users : ses' = [ses EXCEPT ![s].auth = [who |-> u, ver |-> issued']]
      BY <2>1, <1>1, BoundsAssumption DEF TargetWrites, ControlOK
    <3> DEFINE a == [who |-> u, ver |-> issued']
    <3>2. a \in Credential /\ a.ver = issued'
      BY <1>1, <2>1, BoundsAssumption DEF ControlOK, Credential
    <3> HIDE DEF a
    <3>4. ses' = [ses EXCEPT ![s].auth = a]
      BY <3>1 DEF a
    <3>3. QED
      BY <2>1, <3>4, <3>2
  <2>2. CASE issued' = issued /\ \E a \in {Bad, Nil} : ses' = [ses EXCEPT ![s].auth = a]
    BY <2>2
  <2>3. QED
    BY <2>1, <2>2 DEF TargetWrites
<1>3. /\ ses[s].live /\ SessionsOK' /\ Elsewhere(s) /\ ses'[s].auth = a
      /\ ses'[s].root = ses[s].root /\ ses'[s].prot = ses[s].prot /\ ses'[s].live = ses[s].live
      /\ ses'[s].proof = ses[s].proof /\ ses'[s].good = ses[s].good
      /\ ses'[s].unverified = ses[s].unverified /\ ses'[s].guard = ses[s].guard
  BY <1>1, <1>2, Writing DEF TargetWrites
<1>4. issued' \in 0..MaxIssued /\ issued <= issued'
  BY <1>1, <1>2, BoundsAssumption DEF ControlOK
<1>5. ControlOK' /\ RecordsOK' /\ LockInv' /\ \A q \in Procs : LocalsKept(q)
  BY <1>1, <1>4, EnvironmentFrame DEF TargetWrites
<1>6. marker' = marker /\ cred' = cred
  BY DEF TargetWrites
<1>7. MarkerInv'
  BY <1>1, <1>3, <1>6 DEF MarkerInv, Elsewhere, RecordsOK, Marker
<1>8. CredInv'
  BY <1>1, <1>2, <1>6 DEF CredInv, RecordsOK, Credential, ControlOK
<1>9. SessionInv'
  <2>1. ASSUME NEW t \in Sids \ {s}
        PROVE  ses[t].auth \in Credential => ses[t].auth.ver <= issued'
    BY <1>1, <1>2 DEF SessionInv, ControlOK, Credential
  <2>2. a \in Credential => a.ver <= issued' /\ (cred # Nil => cred.ver < a.ver)
    BY <1>1, <1>2, NamesAssumption DEF CredInv, ControlOK, RecordsOK, Credential
  <2>3. QED
    BY <1>1, <1>3, <1>6, <2>1, <2>2 DEF SessionInv, Elsewhere
<1>10. ASSUME NEW q \in Procs PROVE CommandInv(q)' /\ RecoverInv(q)'
  <2>1. CommandInv(q) /\ RecoverInv(q) /\ LocalsKept(q)
    BY <1>5 DEF IndInv, StepInv
  <2>2. sid[q] \in Sids /\ (seen[q] # Nil => seen[q].sid \in Sids)
    BY <1>1 DEF ControlOK, RecordsOK, Marker
  <2>3. CommandInv(q)'
    BY <1>3, <1>6, <2>1, <2>2 DEF CommandInv, LocalsKept, Elsewhere, Decided, Own, Unstarted,
       Protected, Undecided
  <2>4. RecoverInv(q)'
    BY <1>3, <1>6, <2>1, <2>2 DEF RecoverInv, LocalsKept, Elsewhere, Decided, Recovers
  <2>5. QED
    BY <2>3, <2>4
<1>11. QED
  BY <1>3, <1>5, <1>7, <1>8, <1>9, <1>10 DEF IndInv, StepInv

\* A process that has ended makes nothing less safe.
LEMMA TargetSettlesHolds == ASSUME IndInv, NEW s \in Sids, TargetSettles(s) PROVE IndInv'
<1>1. ControlOK /\ RecordsOK /\ SessionsOK /\ LockInv /\ MarkerInv /\ SessionInv /\ CredInv
  BY DEF IndInv
<1>2. /\ SessionsOK' /\ Elsewhere(s) /\ ses'[s].live = FALSE /\ ses'[s].auth = ses[s].auth
      /\ ses'[s].root = ses[s].root /\ ses'[s].prot = ses[s].prot /\ ses'[s].good = ses[s].good
      /\ ses'[s].unverified = ses[s].unverified /\ ses'[s].guard = ses[s].guard
  BY <1>1, Settling DEF TargetSettles
<1>3. ControlOK' /\ RecordsOK' /\ LockInv' /\ \A q \in Procs : LocalsKept(q)
  BY <1>1, EnvironmentFrame DEF TargetSettles, ControlOK
<1>4. marker' = marker /\ cred' = cred /\ issued' = issued
  BY DEF TargetSettles
<1>5. MarkerInv'
  BY <1>1, <1>2, <1>4 DEF MarkerInv, Elsewhere, RecordsOK, Marker
<1>6. SessionInv' /\ CredInv'
  BY <1>1, <1>2, <1>4 DEF SessionInv, CredInv, Elsewhere
<1>7. ASSUME NEW q \in Procs PROVE CommandInv(q)' /\ RecoverInv(q)'
  <2>1. CommandInv(q) /\ RecoverInv(q) /\ LocalsKept(q)
    BY <1>3 DEF IndInv, StepInv
  <2>2. sid[q] \in Sids /\ (seen[q] # Nil => seen[q].sid \in Sids)
    BY <1>1 DEF ControlOK, RecordsOK, Marker
  <2>3. CommandInv(q)'
    BY <1>2, <1>4, <2>1, <2>2 DEF CommandInv, LocalsKept, Elsewhere, Decided
  <2>4. RecoverInv(q)'
    BY <1>2, <1>4, <2>1, <2>2 DEF RecoverInv, LocalsKept, Elsewhere, Decided, Recovers
  <2>5. QED
    BY <2>3, <2>4
<1>8. QED
  BY <1>2, <1>3, <1>5, <1>6, <1>7 DEF IndInv, StepInv

\* What is reclaimed had no process and no eligible refresh.
LEMMA ReclaimUnprotectedHolds == ASSUME IndInv, NEW s \in Sids, ReclaimUnprotected(s) PROVE IndInv'
<1>1. ControlOK /\ RecordsOK /\ SessionsOK /\ LockInv /\ MarkerInv /\ SessionInv /\ CredInv
  BY DEF IndInv
<1>2. /\ ses[s].root /\ ~ses[s].prot /\ ses[s].guard = Nil
      /\ SessionsOK' /\ Elsewhere(s) /\ ses'[s].root = FALSE /\ ses'[s].auth = Nil
      /\ ses'[s].live = ses[s].live /\ ses'[s].prot = ses[s].prot /\ ses'[s].good = ses[s].good
      /\ ses'[s].unverified = ses[s].unverified /\ ses'[s].guard = ses[s].guard
  BY <1>1, Reclaiming DEF ReclaimUnprotected
<1>3. ControlOK' /\ RecordsOK' /\ LockInv' /\ \A q \in Procs : LocalsKept(q)
  BY <1>1, EnvironmentFrame DEF ReclaimUnprotected, ControlOK
<1>4. marker' = marker /\ cred' = cred /\ issued' = issued
  BY DEF ReclaimUnprotected
<1>5. MarkerInv'
  BY <1>1, <1>2, <1>4 DEF MarkerInv, Elsewhere, RecordsOK, Marker
<1>6. SessionInv' /\ CredInv'
  BY <1>1, <1>2, <1>4, NamesAssumption DEF SessionInv, CredInv, Elsewhere
<1>7. ASSUME NEW q \in Procs PROVE CommandInv(q)' /\ RecoverInv(q)'
  <2>1. CommandInv(q) /\ RecoverInv(q) /\ LocalsKept(q)
    BY <1>3 DEF IndInv, StepInv
  <2>2. sid[q] \in Sids /\ (seen[q] # Nil => seen[q].sid \in Sids)
    BY <1>1 DEF ControlOK, RecordsOK, Marker
  <2>3. Nil \notin Procs
    BY NamesAssumption
  <2>4. CommandInv(q)'
    BY <1>2, <1>4, <2>1, <2>2, <2>3 DEF CommandInv, LocalsKept, Elsewhere, Decided, refreshes,
       verifiable
  <2>5. RecoverInv(q)'
    BY <1>2, <1>4, <2>1, <2>2 DEF RecoverInv, LocalsKept, Elsewhere, Decided, refreshes, verifiable,
       Recovers
  <2>6. QED
    BY <2>4, <2>5
<1>8. QED
  BY <1>2, <1>3, <1>5, <1>6, <1>7 DEF IndInv, StepInv

\* The selection concerns no Session.
LEMMA SelectProviderHolds == ASSUME IndInv, SelectProvider PROVE IndInv'
<1>1. ControlOK /\ RecordsOK /\ SessionsOK /\ LockInv /\ MarkerInv /\ SessionInv /\ CredInv
  BY DEF IndInv
<1>2. ControlOK' /\ RecordsOK' /\ SessionsOK' /\ LockInv'
  BY <1>1 DEF SelectProvider, ControlOK, RecordsOK, SessionsOK, LockInv, command, binding
<1>3. MarkerInv' /\ SessionInv' /\ CredInv'
  BY <1>1, RecordsStay DEF SelectProvider, SessionsKept
<1>4. ASSUME NEW q \in Procs PROVE CommandInv(q)' /\ RecoverInv(q)'
  <2>1. SessionsKept /\ LocalsKept(q) /\ marker' = marker /\ cred' = cred /\ ses' = ses
    BY DEF SelectProvider, command, binding, SessionsKept, LocalsKept
  <2>2. QED
    BY <1>1, <2>1, Bystander DEF IndInv, StepInv
<1>5. QED
  BY <1>2, <1>3, <1>4 DEF IndInv, StepInv

\* Nothing happens.
LEMMA StutterHolds == ASSUME IndInv, UNCHANGED vars PROVE IndInv'
<1>1. ControlOK /\ RecordsOK /\ SessionsOK /\ LockInv /\ MarkerInv /\ SessionInv /\ CredInv
  BY DEF IndInv
<1>2. ControlOK' /\ RecordsOK' /\ SessionsOK' /\ LockInv'
  BY <1>1 DEF vars, durable, ControlOK, RecordsOK, SessionsOK, LockInv, command, binding
<1>3. MarkerInv' /\ SessionInv' /\ CredInv'
  BY <1>1, RecordsStay DEF vars, SessionsKept
<1>4. ASSUME NEW q \in Procs PROVE CommandInv(q)' /\ RecoverInv(q)'
  <2>1. SessionsKept /\ LocalsKept(q) /\ marker' = marker /\ cred' = cred /\ ses' = ses
    BY DEF vars, command, binding, SessionsKept, LocalsKept
  <2>2. QED
    BY <1>1, <2>1, Bystander DEF IndInv, StepInv
<1>5. QED
  BY <1>2, <1>3, <1>4 DEF IndInv, StepInv

\* Every step.
LEMMA NextHolds == ASSUME IndInv, [Next]_vars PROVE IndInv'
<1>1. CASE UNCHANGED vars
  BY <1>1, StutterHolds
<1>2. ASSUME NEW p \in Procs,
             AcquireLogin(p) \/ (\E k \in {"status", "run"} : AcquireStatus(p, k)) \/ Logout(p)
             \/ SettleBegin(p) \/ SettlePending(p) \/ AcquireRecovery(p)
      PROVE  IndInv'
  <2>1. AcquireLogin(p) => Begin(p, "login")
    BY DEF AcquireLogin
  <2>2. \A k \in {"status", "run"} : AcquireStatus(p, k) => Begin(p, k) /\ cred # Nil
    BY DEF AcquireStatus
  <2>3. QED
    BY <1>2, <2>1, <2>2, BeginHolds, LogoutHolds, SettleBeginHolds, SettlePendingHolds,
       AcquireRecoveryHolds
<1>3. ASSUME NEW p \in Procs, CommandStep(p) PROVE IndInv'
  BY <1>3, PreflightFailsHolds, CreateSessionHolds, PublishPreparedHolds, PublishFailedHolds,
     ProtectHolds,
     ProjectHolds, AdvanceCleanupChallengeHolds, ArmOperationHolds, MarkCleanupPendingHolds, SpawnHolds,
     SettledHolds, TransferHolds, MarkRefreshAllowedHolds, MarkRecoverableHolds, AbandonHolds,
     CommitLoginHolds, FinalizeStatusHolds, RemoveHolds, DeleteMarkerHolds, PreserveHolds, ReleaseHolds
     DEF CommandStep
<1>4. ASSUME NEW p \in Procs, RecoverStep(p) PROVE IndInv'
  BY <1>4, AwaitHandoffHolds, RecoverSessionHolds, FinalizeRecoveryHolds, RecoverRemoveHolds,
     RecoverDeleteHolds DEF RecoverStep
<1>5. ASSUME NEW p \in Procs, Dies(p) \/ Exits(p) PROVE IndInv'
  <2>1. Ends(p) /\ faults' \in 0..MaxFaults
    BY <1>5, BoundsAssumption DEF Dies, Exits, Fault, IndInv, ControlOK
  <2>2. QED
    BY <2>1, EndsHolds
<1>6. QED
  BY <1>1, <1>2, <1>3, <1>4, <1>5, SelectProviderHolds, TargetWritesHolds, TargetSettlesHolds,
     ReclaimUnprotectedHolds DEF Next

\* The initial state.
LEMMA InitHolds == ASSUME Init PROVE IndInv
<1>1. ControlOK /\ RecordsOK
  BY BoundsAssumption DEF Init, ControlOK, RecordsOK, Labels, Sids, Runs
<1>2. SessionsOK
  BY DEF Init, SessionsOK, Session, NoSession, Runs
<1>3. LockInv /\ MarkerInv /\ CredInv
  BY NamesAssumption DEF Init, LockInv, MarkerInv, CredInv
<1>4. \A s \in Sids : ~ses[s].live /\ ses[s].auth = Nil
  BY DEF Init, NoSession
<1>5. SessionInv
  BY <1>4, NamesAssumption DEF SessionInv
<1>6. StepInv
  BY DEF Init, StepInv, CommandInv, RecoverInv, Unstarted, Protected, Own, Undecided, Recovers
<1>7. QED
  BY <1>1, <1>2, <1>3, <1>5, <1>6 DEF IndInv

\* The invariant holds throughout.
LEMMA Inductive == Spec => []IndInv
  BY InitHolds, NextHolds, PTL DEF Spec

\* THEOREM.  Whatever died, failed or ran late, every copy of the credential
\* outside the provider, and every process that could write one, is under the
\* marker of its own Session, and a recoverable marker is never put over a
\* Session that can still change.
THEOREM CopiesAreQuarantined == Spec => []ProjectionIsQuarantined
<1>1. IndInv => TypeOK
  BY DEF IndInv, ControlOK, RecordsOK, SessionsOK, TypeOK
<1>2. IndInv => ProjectionIsMarked
  BY DEF IndInv, SessionInv, ProjectionIsMarked
<1>3. IndInv => RecoverableIsQuiet
  BY DEF IndInv, MarkerInv, RecoverableIsQuiet
<1>4. QED
  BY <1>1, <1>2, <1>3, Inductive, PTL DEF ProjectionIsQuarantined

\* The steps that change the stored credential.
LEMMA CredentialSteps ==
    ASSUME Next, cred' # cred
    PROVE  \E p \in Procs : CommitLogin(p) \/ FinalizeStatus(p) \/ FinalizeRecovery(p) \/ Logout(p)
<1>1. ASSUME NEW p \in Procs, CommandStep(p) PROVE CommitLogin(p) \/ FinalizeStatus(p)
  BY <1>1 DEF CommandStep, PreflightFails, CreateSession, PublishPrepared, PublishFailed, Protect,
     Project,
     AdvanceCleanupChallenge, ArmOperation, MarkCleanupPending, Spawn, Settled, Transfer,
     MarkRefreshAllowed, MarkRecoverable, Abandon, Remove, DeleteMarker, Preserve, Release
<1>2. ASSUME NEW p \in Procs, RecoverStep(p) PROVE FinalizeRecovery(p)
  BY <1>2 DEF RecoverStep, AwaitHandoff, RecoverSession, RecoverRemove, RecoverDelete
<1>3. \A p \in Procs : /\ ~AcquireLogin(p) /\ \A k \in {"status", "run"} : ~AcquireStatus(p, k)
                       /\ ~SettleBegin(p) /\ ~SettlePending(p) /\ ~AcquireRecovery(p)
                       /\ ~Dies(p) /\ ~Exits(p)
  BY DEF AcquireLogin, AcquireStatus, Begin, SettleBegin, SettlePending, AcquireRecovery, Dies, Exits,
     Ends
<1>4. ~SelectProvider /\ \A s \in Sids : ~TargetWrites(s) /\ ~TargetSettles(s) /\ ~ReclaimUnprotected(s)
  BY DEF SelectProvider, TargetWrites, TargetSettles, ReclaimUnprotected
<1>5. QED
  BY <1>1, <1>2, <1>3, <1>4 DEF Next

\* Each of them stores what an eligible Session holds, and nothing older.
LEMMA CredentialMoves ==
    ASSUME IndInv, NEW p \in Procs,
           CommitLogin(p) \/ FinalizeStatus(p) \/ FinalizeRecovery(p) \/ Logout(p)
    PROVE  \/ cred' \in {cred, Nil}
           \/ \E s \in Sids : /\ ses[s].auth = cred' /\ ses[s].good /\ ~ses[s].live
                              /\ cred' \in Credential
                              /\ cred # Nil => refreshes(cred', cred) /\ cred' # cred
<1>1. /\ ControlOK /\ RecordsOK /\ SessionsOK /\ LockInv /\ MarkerInv /\ SessionInv /\ CredInv
      /\ CommandInv(p) /\ RecoverInv(p)
  BY DEF IndInv, StepInv
<1>2. CASE Logout(p)
  BY <1>2 DEF Logout, WriteCredential
<1>3. CASE CommitLogin(p)
  <2>1. \/ cred' = cred
        \/ cred = Nil /\ cred' = ses[sid[p]].auth /\ cred' \notin {Bad, Nil}
    BY <1>3 DEF CommitLogin, WriteCredential, mine, verifiable
  <2>2. sid[p] \in Sids /\ ses[sid[p]].good /\ ~ses[sid[p]].live
    BY <1>1, <1>3 DEF CommitLogin, CommandInv, ControlOK, Own
  <2>3. ses[sid[p]].auth \in Credential \cup {Bad, Nil}
    BY <1>1, <2>2 DEF SessionsOK, Session
  <2>4. QED
    BY <2>1, <2>2, <2>3
<1>4. CASE FinalizeStatus(p)
  <2>1. snap[p] = cred /\ cred # Nil
    BY <1>1, <1>4 DEF FinalizeStatus, CommandInv, Undecided
  <2>2. \/ cred' = cred
        \/ cred' = ses[sid[p]].auth /\ refreshes(cred', cred) /\ cred' # cred
    BY <1>4, <2>1 DEF FinalizeStatus, Decide, WriteCredential
  <2>3. sid[p] \in Sids /\ ses[sid[p]].good /\ ~ses[sid[p]].live
    BY <1>1, <1>4 DEF FinalizeStatus, CommandInv, ControlOK, Own
  <2>4. ses[sid[p]].auth \in Credential \cup {Bad, Nil}
    BY <1>1, <2>3 DEF SessionsOK, Session
  <2>5. QED
    BY <2>2, <2>3, <2>4 DEF refreshes, verifiable
<1>5. CASE FinalizeRecovery(p)
  <2>1. \/ cred' = cred
        \/ /\ cred' = ses[seen[p].sid].auth /\ refreshes(cred', cred) /\ cred' # cred /\ cred # Nil
           /\ marker = seen[p] /\ seen[p].refresh
    BY <1>5 DEF FinalizeRecovery, Decide, WriteCredential
  <2>2. seen[p] # Nil /\ seen[p].sid \in Sids /\ ~ses[seen[p].sid].live
    BY <1>1, <1>5 DEF FinalizeRecovery, RecoverInv, Recovers, RecordsOK, Marker
  <2>3. marker = seen[p] /\ seen[p].refresh => ses[seen[p].sid].good
    BY <1>1, <2>2 DEF MarkerInv
  <2>4. ses[seen[p].sid].auth \in Credential \cup {Bad, Nil}
    BY <1>1, <2>2 DEF SessionsOK, Session
  <2>5. QED
    BY <2>1, <2>2, <2>3, <2>4 DEF refreshes, verifiable
<1>6. QED
  BY <1>2, <1>3, <1>4, <1>5

\* THEOREM.  However Sessions, recoveries, logouts and late settlements
\* interleave, the stored credential is replaced only by a later one of the same
\* account that a finished, successful Session holds.
THEOREM CredentialOnlyAdvances == Spec => CredentialAdvances
<1>1. ASSUME IndInv, [Next]_vars PROVE [laterOfSameAccount /\ fromEligibleSession]_vars
  <2>1. CASE cred' = cred
    <3>1. cred # Nil => cred.ver \in Nat
      BY <1>1, BoundsAssumption DEF IndInv, RecordsOK, Credential
    <3>2. QED
      BY <2>1, <3>1 DEF laterOfSameAccount, fromEligibleSession
  <2>2. CASE cred' # cred
    <3>1. Next
      BY <1>1, <2>2 DEF vars
    <3>2. PICK p \in Procs : CommitLogin(p) \/ FinalizeStatus(p) \/ FinalizeRecovery(p) \/ Logout(p)
      BY <2>2, <3>1, CredentialSteps
    <3>3. \/ cred' = Nil
          \/ \E s \in Sids : /\ ses[s].auth = cred' /\ ses[s].good /\ ~ses[s].live
                             /\ cred' \in Credential
                             /\ cred # Nil => refreshes(cred', cred) /\ cred' # cred
      BY <1>1, <2>2, <3>2, CredentialMoves
    <3>4. CASE cred' = Nil
      BY <3>4 DEF laterOfSameAccount, fromEligibleSession
    <3>5. ASSUME NEW s \in Sids, ses[s].auth = cred', ses[s].good, ~ses[s].live, cred' \in Credential,
                 cred # Nil => refreshes(cred', cred) /\ cred' # cred
          PROVE  laterOfSameAccount /\ fromEligibleSession
      <4>1. cred # Nil => cred'.who = cred.who /\ cred.ver < cred'.ver /\ cred.ver \in Nat /\ cred'.ver \in Nat
        BY <1>1, <3>5, BoundsAssumption DEF IndInv, SessionInv, RecordsOK, Credential, refreshes
      <4>2. QED
        BY <3>5, <4>1 DEF laterOfSameAccount, fromEligibleSession
    <3>6. QED
      BY <3>3, <3>4, <3>5
  <2>3. QED
    BY <2>1, <2>2
<1>2. QED
  BY <1>1, Inductive, PTL DEF Spec, CredentialAdvances

-----------------------------------------------------------------------------
\* No Session directory disappears.
RootsKept == \A s \in Sids : ses[s].root => ses'[s].root

\* A Session directory disappears only in four steps.
LEMMA RootSteps ==
    ASSUME SessionsOK, ControlOK, RecordsOK, StepInv, Next
    PROVE  \/ RootsKept
           \/ \E p \in Procs : Remove(p) \/ RecoverRemove(p) \/ PublishFailed(p)
           \/ \E s \in Sids : ReclaimUnprotected(s)
<1>1. ASSUME NEW p \in Procs, CommandStep(p), ~Remove(p), ~PublishFailed(p) PROVE RootsKept
  <2>1. sid[p] \in Sids /\ chal[p] \in 0..Runs /\ snap[p] \in Credential \cup {Bad, Nil}
    BY DEF ControlOK, RecordsOK
  <2>2. CASE ses' = ses
    BY <2>2 DEF RootsKept
  <2>3. CASE CreateSession(p)
    <3>1. PICK s \in Sids : ses' = [ses EXCEPT ![s].root = TRUE, ![s].guard = p]
      BY <2>3 DEF CreateSession
    <3>2. QED
      BY <3>1, Opening DEF RootsKept, Elsewhere
  <2>4. CASE Protect(p)
    BY <2>1, <2>2, <2>4, Protecting DEF Protect, RootsKept, Elsewhere
  <2>5. CASE Project(p)
    BY <2>1, <2>2, <2>5, Writing DEF Project, RootsKept, Elsewhere
  <2>6. CASE ArmOperation(p)
    <3>1. CASE ses' = [ses EXCEPT ![sid[p]].tracked = TRUE]
      BY <2>1, <3>1, Tracking DEF RootsKept, Elsewhere
    <3>2. CASE ses' = Armed(sid[p], chal[p])
      <4>1. ses'[sid[p]].root = ses[sid[p]].root /\ Elsewhere(sid[p])
        BY <2>1, <3>2, Arming DEF Armed
      <4>2. QED
        BY <4>1 DEF RootsKept, Elsewhere
    <3>3. QED
      BY <2>2, <2>6, <3>1, <3>2 DEF ArmOperation
  <2>7. CASE Spawn(p)
    BY <2>1, <2>2, <2>7, Starting DEF Spawn, RootsKept, Elsewhere
  <2>8. CASE Settled(p)
    <3>1. CASE ses' = [ses EXCEPT ![sid[p]].good = TRUE]
      <4>1. ses'[sid[p]].root = ses[sid[p]].root /\ Elsewhere(sid[p])
        BY <2>1, <3>1, Succeeding
      <4>2. QED
        BY <4>1 DEF RootsKept, Elsewhere
    <3>2. QED
      BY <2>2, <2>8, <3>1 DEF Settled
  <2>9. CASE CommitLogin(p)
    BY <2>1, <2>2, <2>9, Distrusting DEF CommitLogin, Unverified, RootsKept, Elsewhere
  <2>10. CASE FinalizeStatus(p)
    BY <2>1, <2>2, <2>10, Distrusting DEF FinalizeStatus, Decide, Unverified, RootsKept, Elsewhere
  <2>11. CASE Preserve(p)
    BY <2>1, <2>11, Guarding DEF Preserve, RootsKept, Elsewhere
  <2>12. CASE Release(p)
    BY <2>12, <2>2, Dropped DEF Release, RootsKept
  <2>13. QED
    BY <1>1, <2>2, <2>3, <2>4, <2>5, <2>6, <2>7, <2>8, <2>9, <2>10, <2>11, <2>12
    DEF CommandStep, PreflightFails, PublishPrepared, AdvanceCleanupChallenge, MarkCleanupPending,
        Transfer, MarkRefreshAllowed, MarkRecoverable, Abandon, DeleteMarker
<1>2. ASSUME NEW p \in Procs, RecoverStep(p), ~RecoverRemove(p) PROVE RootsKept
  <2>1. CASE ses' = ses
    BY <2>1 DEF RootsKept
  <2>2. pc[p] \in {"found", "proven"} => seen[p].sid \in Sids
    BY DEF StepInv, RecoverInv, RecordsOK, Marker, Recovers
  <2>3. CASE RecoverSession(p)
    BY <2>1, <2>2, <2>3, Guarding DEF RecoverSession, RootsKept, Elsewhere
  <2>4. CASE FinalizeRecovery(p)
    BY <2>1, <2>2, <2>4, Distrusting DEF FinalizeRecovery, Decide, Unverified, RootsKept, Elsewhere
  <2>5. QED
    BY <1>2, <2>1, <2>3, <2>4 DEF RecoverStep, AwaitHandoff, RecoverDelete
<1>3. ASSUME NEW p \in Procs, SettleBegin(p) PROVE RootsKept
  <2>1. sid[p] \in Sids
    BY DEF ControlOK
  <2>2. ses[sid[p]].guard \in Procs \cup {Nil}
    BY <2>1 DEF SessionsOK, Session
  <2>3. PICK g \in Procs \cup {Nil} : ses' = [ses EXCEPT ![sid[p]].guard = g]
    BY <1>3, <2>1, <2>2 DEF SettleBegin, SessionsOK
  <2>4. QED
    BY <2>1, <2>3, Guarding DEF RootsKept, Elsewhere
<1>4. ASSUME NEW p \in Procs, Dies(p) \/ Exits(p) PROVE RootsKept
  BY <1>4, Dropped DEF Dies, Exits, Ends, RootsKept
<1>5. ASSUME NEW s \in Sids, TargetSettles(s) PROVE RootsKept
  <2>1. ses'[s].root = ses[s].root /\ Elsewhere(s)
    BY <1>5, Settling DEF TargetSettles
  <2>2. QED
    BY <2>1 DEF RootsKept, Elsewhere
<1>6. ASSUME NEW s \in Sids, TargetWrites(s) PROVE RootsKept
  <2>1. SUFFICES ASSUME NEW a, ses' = [ses EXCEPT ![s].auth = a] PROVE RootsKept
    BY <1>6 DEF TargetWrites
  <2>2. \A t \in Sids : ses'[t].root = ses[t].root
    BY <2>1 DEF SessionsOK, Session
  <2>3. QED
    BY <2>2 DEF RootsKept
<1>7. ASSUME NEW p \in Procs,
             AcquireLogin(p) \/ (\E k \in {"status", "run"} : AcquireStatus(p, k)) \/ Logout(p)
             \/ SettlePending(p) \/ AcquireRecovery(p)
      PROVE  RootsKept
  BY <1>7 DEF AcquireLogin, AcquireStatus, Begin, Logout, SettlePending, AcquireRecovery, RootsKept
<1>8. SelectProvider => RootsKept
  BY DEF SelectProvider, RootsKept
<1>9. QED
  BY <1>1, <1>2, <1>3, <1>4, <1>5, <1>6, <1>7, <1>8 DEF Next

\* THEOREM.  A Session marked as holding a refresh is not removed, by whomever,
\* before that refresh is the stored credential or is known to be none.
THEOREM RefreshIsKept == Spec => RefreshSurvives
<1>1. ASSUME IndInv, [Next]_vars,
             NEW s \in Sids, ses[s].root, ~ses'[s].root, marker # Nil, marker.sid = s, marker.refresh
      PROVE  Decided(s)
  <2>1. ControlOK /\ RecordsOK /\ SessionsOK /\ MarkerInv /\ StepInv
    BY <1>1 DEF IndInv
  <2>2. Next
    BY <1>1 DEF vars
  <2>3. ~RootsKept
    BY <1>1 DEF RootsKept
  <2>4. CASE \E p \in Procs : Remove(p)
    <3>1. PICK p \in Procs : Remove(p)
      BY <2>4
    <3>2. CommandInv(p) /\ pc[p] = "remove" /\ sid[p] \in Sids
      BY <2>1, <3>1 DEF Remove, StepInv, ControlOK
    <3>3. sid[p] = s
      BY <1>1, <3>2 DEF CommandInv, Own
    <3>4. QED
      BY <1>1, <3>2, <3>3 DEF CommandInv
  <2>5. CASE \E p \in Procs : RecoverRemove(p)
    <3>1. PICK p \in Procs : RecoverRemove(p)
      BY <2>5
    <3>2. RecoverInv(p) /\ pc[p] = "discard"
      BY <2>1, <3>1 DEF RecoverRemove, StepInv
    <3>3. seen[p].sid = s
      BY <1>1, <3>2 DEF RecoverInv, Recovers
    <3>4. QED
      BY <1>1, <3>2, <3>3 DEF RecoverInv
  <2>6. CASE \E p \in Procs : PublishFailed(p)
    <3>1. PICK p \in Procs : PublishFailed(p)
      BY <2>6
    <3>2. CommandInv(p) /\ pc[p] = "unpublished"
      BY <2>1, <3>1 DEF PublishFailed, StepInv
    <3>3. QED
      BY <1>1, <3>2 DEF CommandInv
  <2>7. CASE \E t \in Sids : ReclaimUnprotected(t)
    <3>1. PICK t \in Sids : ReclaimUnprotected(t)
      BY <2>7
    <3>2. t = s
      <4>1. Elsewhere(t)
        BY <2>1, <3>1, Reclaiming DEF ReclaimUnprotected
      <4>2. QED
        BY <1>1, <4>1 DEF Elsewhere
    <3>3. QED
      BY <1>1, <2>1, <3>1, <3>2 DEF MarkerInv, ReclaimUnprotected
  <2>8. QED
    BY <2>1, <2>2, <2>3, <2>4, <2>5, <2>6, <2>7, RootSteps
<1>2. ASSUME IndInv, [Next]_vars
      PROVE  [\A s \in Sids :
                ses[s].root /\ ~ses'[s].root /\ marker # Nil /\ marker.sid = s /\ marker.refresh
                  => cred = Nil \/ ~refreshes(ses[s].auth, cred) \/ cred = ses[s].auth
                     \/ ses[s].unverified]_vars
  BY <1>1, <1>2 DEF Decided
<1>3. QED
  BY <1>2, Inductive, PTL DEF Spec, RefreshSurvives

=============================================================================
