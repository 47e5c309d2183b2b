---------------------------- MODULE LaunchProofs ----------------------------
(***************************************************************************)
(* Proofs about the two parts of a launch: LinuxSupervisor, which starts a *)
(* target and settles what it started, for every number of signals and     *)
(* faults, and LaunchAuthority, which decides what the target may reach,   *)
(* for every tree of paths, selection and change by another program.       *)
(*                                                                         *)
(* The proofs about LaunchAuthority come in layers.  Paths and the disk:   *)
(* prefixes are a chain, what exists hangs below directories, and          *)
(* EvalSymlinks does what its recursion says.  The mounts: the deepest     *)
(* mount above a path gives exactly what the authorities say.  The         *)
(* invariant LaunchInv: what holds of the captures (CaptureInv), of the    *)
(* policy (PolicyInv) and at the moment the target starts (StartInv).      *)
(* Last the properties, each of which follows from LaunchInv.              *)
(***************************************************************************)
EXTENDS LinuxSupervisor, LaunchAuthority, SequenceTheorems, FiniteSetTheorems,
        WellFoundedInduction, TLAPS

-----------------------------------------------------------------------------
(* Linux supervisor                                                         *)

\* The supervisor's steps before Bubblewrap exists, and those with the group.
Early == {"off", "load", "protect", "binding", "revoke", "recipe", "bwrap", "probe"}
Before == Early \cup {"preflight", "group", "bind", "spawn"}
NoResult == [exited |-> FALSE, settled |-> FALSE, err |-> FALSE]

\* What the supervisor may rely on at each of its steps.
SupInv ==
    /\ sup \in Before => /\ state = 0 /\ init = "off" /\ image = "none"
                         /\ toSup = <<>> /\ toOwner = <<>>
                         /\ life = [p \in Tree |-> "none"]
    /\ sup \in Before \cup {"protocol"} => result = NoResult
    /\ sup \in {"kill", "settle"} => ~result.settled
    /\ result.exited => state = 3
    /\ sup \in Early \cup {"group"} => cg = NoGroup
    /\ sup \in {"preflight", "bind", "spawn", "protocol", "kill"} => cg = [st |-> "open", killed |-> FALSE]
    /\ sup \in (Before \ {"off", "load", "protect"}) \cup {"protocol", "kill", "settle"} => protected
    /\ sup \in {"recipe", "bwrap", "probe", "preflight", "group", "bind", "spawn", "protocol", "kill", "settle"}
           => proof = "none"
    /\ sup \in {"spawn", "protocol", "kill", "settle"} => binding = "cgroup"
    /\ sup \in {"finish", "report"} /\ result.settled => NoneLive /\ cg = NoGroup
    /\ sup = "report" /\ result.settled /\ ~result.err => proof = "settled"
    /\ proof = "settled" => sup \in {"report", "exited", "killed"}
    /\ image = "target" => state >= 2 /\ init \in {"run", "gone"}

\* What the owner has heard, and what is on its way to and from it.
OwnerInv ==
    /\ owner \in {"new", "refused", "prepared"} => sup = "off"
    /\ owner \in {"unproven", "dead"} => sup \in {"off", "exited", "killed"}
    /\ owner = "awaitR" => /\ state \in {0, 1} /\ toSup = <<>>
                           /\ toOwner = IF state = 1 THEN <<"R">> ELSE <<>>
    /\ owner = "awaitE" => /\ state \in 1..3
                           /\ toSup = IF state = 1 THEN <<"S">> ELSE <<>>
                           /\ IF state < 3 THEN toOwner = <<>>
                              ELSE toOwner \in {<<"E">>, <<"E", "X">>}
    /\ owner = "running" => /\ state = 3 /\ toSup \in Seq({"sig"})
                            /\ toOwner \in {<<>>, <<"X">>}
    /\ owner = "done" => sup \in {"exited", "killed"} /\ proof = "settled"
    /\ toOwner \in {<<>>, <<"R">>, <<"E">>, <<"E", "X">>, <<"X">>}
    /\ toOwner \in {<<"E", "X">>, <<"X">>} => sup \in {"exited", "killed"} /\ proof = "settled"
    /\ Len(toSup) + Len(toInit) <= signals + 1
    /\ owner \in {"new", "refused", "prepared", "awaitR"} => toInit = <<>>

\* Where the contained init stands, and what is on its way to and from it.
InitInv ==
    /\ init \in {"off", "boot", "fork", "ready"} => state = 0 /\ fromInit = <<>> /\ toInit = <<>>
    /\ init = "awaitS" => /\ state \in 0..2
                          /\ fromInit = <<>> \/ (fromInit = <<"R">> /\ state = 0)
                          /\ toInit = <<>> \/ (toInit = <<"S">> /\ state = 2)
    /\ init = "exec" => state = 2 /\ fromInit = <<>> /\ toInit = <<>>
    /\ init = "run" => /\ (state = 2 /\ fromInit = <<"E">>) \/ (state = 3 /\ fromInit = <<>>)
                       /\ toInit \in Seq({"sig"})
    /\ init = "gone" => \/ fromInit = <<>> \/ (fromInit = <<"R">> /\ state = 0)
                        \/ fromInit \in {<<"E">>, <<"E", "X">>} /\ state = 2
                        \/ fromInit = <<"X">> /\ state = 3
    /\ state < 2 => toInit = <<>>

\* The type of everything but the pipes; their lengths follow from the protocol.
ScalarOK ==
    /\ owner \in {"new", "refused", "prepared", "awaitR", "awaitE", "running", "done", "unproven", "dead"}
    /\ sup \in {"off", "load", "protect", "binding", "revoke", "recipe", "bwrap", "probe", "preflight", "group", "bind", "spawn",
                "protocol", "kill", "settle", "finish", "report", "exited", "killed"}
    /\ init \in {"off", "boot", "fork", "ready", "awaitS", "exec", "run", "gone"} /\ image \in {"none", "gated", "target"}
    /\ proof \in {"legacy", "none", "settled"} /\ binding \in {"none", "generation", "cgroup"}
    /\ terminal \in {"host", "raw"} /\ state \in 0..3 /\ signals \in 0..MaxSignals /\ faults \in 0..MaxFaults
FlagsOK == protected \in BOOLEAN /\ surprise \in BOOLEAN
Result == [exited : BOOLEAN, settled : BOOLEAN, err : BOOLEAN]
Group == [st : {"none", "open", "left"}, killed : BOOLEAN]
RecordOK ==
    /\ result \in Result
    /\ life \in [Tree -> {"none", "live", "zombie", "waited", "reaped"}]
    /\ cg \in Group
RequestsOK == toSup \in Seq({"S", "sig"}) /\ toInit \in Seq({"S", "sig"})

IndInv == ScalarOK /\ FlagsOK /\ RecordOK /\ RequestsOK /\ SupInv /\ OwnerInv /\ InitInv
          /\ ProofMeansEmpty /\ DoneMeansProven /\ RunningIsQuarantined
          /\ FreshCgroup /\ StatusNotStolen /\ NoUnexpectedByte

\* Frames of a pipe that holds one or two of them.
LEMMA AppendToOne == ASSUME NEW a, NEW b PROVE Append(<<a>>, b) = <<a, b>>
  <1>1. <<a>> \in Seq({a, b}) /\ <<a, b>> \in Seq({a, b})
    OBVIOUS
  <1>2. Append(<<a>>, b) \in Seq({a, b}) /\ Len(Append(<<a>>, b)) = Len(<<a, b>>)
    BY <1>1
  <1>3. \A i \in 1..Len(<<a, b>>) : Append(<<a>>, b)[i] = <<a, b>>[i]
    BY <1>1
  <1> QED
    BY <1>1, <1>2, <1>3, SeqEqual

LEMMA Frames ==
  /\ \A a \in {"R", "S", "E", "X", "sig"} :
        Append(<<>>, a) = <<a>> /\ Head(<<a>>) = a /\ Tail(<<a>>) = <<>> /\ <<a>> # <<>>
  /\ Append(<<"E">>, "X") = <<"E", "X">>
  /\ Head(<<"E", "X">>) = "E" /\ Tail(<<"E", "X">>) = <<"X">> /\ <<"E", "X">> # <<>>
  /\ <<"R">> # <<"E">> /\ <<"R">> # <<"X">> /\ <<"E">> # <<"X">>
  /\ \A a : <<"E", "X">> # <<a>>
  BY AppendToOne

\* How the results a step may return and the states of the group are typed.
LEMMA Records ==
  ASSUME RecordOK
  PROVE  /\ fail \in Result /\ [fail EXCEPT !.settled = TRUE] \in Result
         /\ [fail EXCEPT !.settled = FALSE] \in Result
         /\ [result EXCEPT !.settled = TRUE] \in Result /\ [result EXCEPT !.exited = TRUE] \in Result
         /\ NoGroup \in Group /\ [cg EXCEPT !.killed = TRUE] \in Group
         /\ [st |-> "open", killed |-> FALSE] \in Group
         /\ \A k \in BOOLEAN : [st |-> "left", killed |-> k] \in Group
         /\ fail.exited = result.exited /\ fail.settled = result.settled /\ fail.err
         /\ [fail EXCEPT !.settled = TRUE].settled /\ [fail EXCEPT !.settled = TRUE].err
         /\ [fail EXCEPT !.settled = TRUE].exited = result.exited
  BY DEF RecordOK, Result, Group, fail, NoGroup

LEMMA PrepareHolds ==
  ASSUME IndInv, Prepare
  PROVE  IndInv'
  <1> USE BoundsAssumption DEF IndInv, Prepare, Fault, disk, wires
  <1>1. ScalarOK' /\ FlagsOK' /\ RecordOK' /\ RequestsOK' /\ SupInv' /\ OwnerInv' /\ InitInv'
        /\ ProofMeansEmpty' /\ DoneMeansProven' /\ RunningIsQuarantined' /\ FreshCgroup'
        /\ StatusNotStolen' /\ NoUnexpectedByte'
    BY DEF ScalarOK, FlagsOK, RecordOK, RequestsOK, SupInv, NoneLive, live, OwnerInv, InitInv,
       ProofMeansEmpty, DoneMeansProven, RunningIsQuarantined, FreshCgroup, StatusNotStolen,
       NoUnexpectedByte
  <1> QED
    BY <1>1

LEMMA StartHolds ==
  ASSUME IndInv, Start
  PROVE  IndInv'
  <1> USE BoundsAssumption DEF IndInv, Start, Fault, disk, wires
  <1>1. ScalarOK' /\ FlagsOK' /\ RecordOK' /\ RequestsOK' /\ InitInv' /\ ProofMeansEmpty'
        /\ DoneMeansProven' /\ RunningIsQuarantined' /\ FreshCgroup' /\ StatusNotStolen'
        /\ NoUnexpectedByte'
    BY DEF ScalarOK, FlagsOK, RecordOK, RequestsOK, InitInv, ProofMeansEmpty, DoneMeansProven,
       RunningIsQuarantined, NoneLive, live, FreshCgroup, StatusNotStolen, NoUnexpectedByte
  <1>2. SupInv'
    BY DEF SupInv, OwnerInv, InitInv, ScalarOK, RecordOK, Result, Group, RequestsOK, NoneLive,
       live, NoGroup, NoResult, Early, Before, Tree
  <1>3. OwnerInv'
    BY DEF OwnerInv, SupInv, RequestsOK, Early, Before
  <1> QED
    BY <1>1, <1>2, <1>3

LEMMA OwnerReadyHolds ==
  ASSUME IndInv, OwnerReady
  PROVE  IndInv'
  <1> USE BoundsAssumption DEF IndInv, OwnerReady, readOwner, disk, wires
  <1>1. ScalarOK' /\ FlagsOK' /\ RecordOK' /\ RequestsOK' /\ SupInv' /\ InitInv'
        /\ ProofMeansEmpty' /\ DoneMeansProven' /\ RunningIsQuarantined' /\ FreshCgroup'
        /\ StatusNotStolen' /\ NoUnexpectedByte'
    BY DEF ScalarOK, FlagsOK, RecordOK, RequestsOK, SupInv, NoneLive, live, InitInv,
       ProofMeansEmpty, DoneMeansProven, RunningIsQuarantined, FreshCgroup, StatusNotStolen,
       NoUnexpectedByte
  <1>2. OwnerInv'
    <2>1. state = 1 /\ toOwner = <<"R">> /\ toSup = <<>> /\ toInit = <<>>
      BY DEF OwnerInv
    <2>2. toOwner' = <<>> /\ toSup' = <<"S">> /\ Len(toSup') + Len(toInit) = 1
      BY <2>1, Frames
    <2> HIDE DEF OwnerReady
    <2> QED
      BY <2>1, <2>2, OwnerReady DEF SupInv, OwnerInv, InitInv, ScalarOK, RecordOK, RequestsOK,
         NoResult, Early, Before, OwnerReady
  <1> QED
    BY <1>1, <1>2

LEMMA OwnerExecHolds ==
  ASSUME IndInv, OwnerExec
  PROVE  IndInv'
  <1> USE BoundsAssumption DEF IndInv, OwnerExec, readOwner, disk, wires
  <1>1. ScalarOK' /\ FlagsOK' /\ RecordOK' /\ RequestsOK' /\ SupInv' /\ InitInv'
        /\ ProofMeansEmpty' /\ DoneMeansProven' /\ RunningIsQuarantined' /\ FreshCgroup'
        /\ StatusNotStolen' /\ NoUnexpectedByte'
    BY DEF ScalarOK, FlagsOK, RecordOK, RequestsOK, SupInv, NoneLive, live, InitInv,
       ProofMeansEmpty, DoneMeansProven, RunningIsQuarantined, FreshCgroup, StatusNotStolen,
       NoUnexpectedByte
  <1>2. OwnerInv'
    <2>1. state = 3 /\ toSup = <<>> /\ toOwner \in {<<"E">>, <<"E", "X">>}
      BY DEF OwnerInv
    <2>2. toOwner' \in {<<>>, <<"X">>}
      BY <2>1, Frames
    <2>3. toOwner' = <<"X">> => toOwner = <<"E", "X">>
      BY <2>1, Frames
    <2>4. toSup \in Seq({"sig"})
      BY <2>1
    <2> QED
      BY <2>1, <2>2, <2>3, <2>4, Frames DEF SupInv, OwnerInv, InitInv, ScalarOK, RecordOK,
         RequestsOK, NoResult, Early, Before
  <1> QED
    BY <1>1, <1>2

LEMMA StartFailsHolds ==
  ASSUME IndInv, StartFails
  PROVE  IndInv'
  <1> USE BoundsAssumption DEF IndInv, StartFails, Fault, ended, disk, wires
  <1>1. ScalarOK' /\ FlagsOK' /\ RecordOK' /\ RequestsOK' /\ OwnerInv' /\ InitInv'
        /\ ProofMeansEmpty' /\ DoneMeansProven' /\ RunningIsQuarantined' /\ FreshCgroup'
        /\ StatusNotStolen' /\ NoUnexpectedByte'
    BY DEF ScalarOK, FlagsOK, RecordOK, RequestsOK, OwnerInv, InitInv, ProofMeansEmpty,
       DoneMeansProven, RunningIsQuarantined, NoneLive, live, FreshCgroup, StatusNotStolen,
       NoUnexpectedByte
  <1>2. SupInv'
    BY DEF SupInv, NoneLive, live, Early, Before
  <1> QED
    BY <1>1, <1>2

LEMMA SignalHolds ==
  ASSUME IndInv, Signal
  PROVE  IndInv'
  <1> USE BoundsAssumption DEF IndInv, Signal, ended, disk, wires
  <1>1. ScalarOK' /\ FlagsOK' /\ RecordOK' /\ RequestsOK' /\ OwnerInv' /\ InitInv'
        /\ ProofMeansEmpty' /\ DoneMeansProven' /\ RunningIsQuarantined' /\ FreshCgroup'
        /\ StatusNotStolen' /\ NoUnexpectedByte'
    BY DEF ScalarOK, FlagsOK, RecordOK, RequestsOK, OwnerInv, InitInv, ProofMeansEmpty,
       DoneMeansProven, RunningIsQuarantined, NoneLive, live, FreshCgroup, StatusNotStolen,
       NoUnexpectedByte
  <1>2. SupInv'
    BY DEF SupInv, OwnerInv, InitInv, ScalarOK, RecordOK, Result, Group, RequestsOK, NoneLive,
       live, NoGroup, NoResult, Early, Before, Tree
  <1> QED
    BY <1>1, <1>2

LEMMA WaitHolds ==
  ASSUME IndInv, Wait
  PROVE  IndInv'
  <1> USE BoundsAssumption DEF IndInv, Wait, ended, readOwner, disk, wires
  <1>1. ScalarOK' /\ FlagsOK' /\ RecordOK' /\ RequestsOK' /\ SupInv' /\ InitInv' /\ FreshCgroup'
        /\ StatusNotStolen' /\ NoUnexpectedByte'
    BY DEF ScalarOK, FlagsOK, RecordOK, RequestsOK, SupInv, NoneLive, live, InitInv, FreshCgroup,
       StatusNotStolen, NoUnexpectedByte
  <1>2. OwnerInv'
    <2>1. state = 3 /\ toSup \in Seq({"sig"}) /\ toOwner \in {<<>>, <<"X">>}
      BY DEF OwnerInv
    <2>2. CASE toOwner = <<"X">>
      <3>1. toOwner' = <<>> /\ owner' = "done" /\ proof = "settled" /\ sup \in {"exited", "killed"}
        BY <2>2, Frames DEF OwnerInv
      <3> QED
        BY <2>1, <3>1, Frames DEF SupInv, OwnerInv, InitInv, ScalarOK, RecordOK, RequestsOK,
           NoResult, Early, Before
    <2>3. CASE toOwner = <<>>
      <3>1. owner' = "unproven" /\ toOwner' = <<>> /\ sup \in {"exited", "killed"}
        BY <2>3
      <3> QED
        BY <3>1, Frames DEF SupInv, OwnerInv, InitInv, ScalarOK, RecordOK, RequestsOK, NoResult,
           Early, Before
    <2> QED
      BY <2>1, <2>2, <2>3
  <1>3. ProofMeansEmpty' /\ DoneMeansProven' /\ RunningIsQuarantined'
    BY DEF SupInv, OwnerInv, ScalarOK, RecordOK, Result, Group, RequestsOK, ProofMeansEmpty,
       DoneMeansProven, RunningIsQuarantined, NoneLive, live, NoGroup, Early, Before, Tree
  <1> QED
    BY <1>1, <1>2, <1>3

LEMMA OwnerDiesHolds ==
  ASSUME IndInv, OwnerDies
  PROVE  IndInv'
  <1> USE BoundsAssumption DEF IndInv, OwnerDies, Fault, ended, disk, wires
  <1>1. ScalarOK' /\ FlagsOK' /\ RecordOK' /\ RequestsOK' /\ OwnerInv' /\ InitInv'
        /\ ProofMeansEmpty' /\ DoneMeansProven' /\ RunningIsQuarantined' /\ FreshCgroup'
        /\ StatusNotStolen' /\ NoUnexpectedByte'
    BY DEF ScalarOK, FlagsOK, RecordOK, RequestsOK, OwnerInv, InitInv, ProofMeansEmpty,
       DoneMeansProven, RunningIsQuarantined, NoneLive, live, FreshCgroup, StatusNotStolen,
       NoUnexpectedByte
  <1>2. SupInv'
    BY DEF SupInv, NoneLive, live, Early, Before
  <1> QED
    BY <1>1, <1>2

LEMMA LoadHolds ==
  ASSUME IndInv, Load
  PROVE  IndInv'
  <1> USE BoundsAssumption DEF IndInv, Load, Fault, Sup, disk, wires
  <1>1. ScalarOK' /\ FlagsOK' /\ RecordOK' /\ RequestsOK' /\ OwnerInv' /\ InitInv'
        /\ ProofMeansEmpty' /\ DoneMeansProven' /\ RunningIsQuarantined' /\ FreshCgroup'
        /\ StatusNotStolen' /\ NoUnexpectedByte'
    BY DEF ScalarOK, FlagsOK, RecordOK, RequestsOK, OwnerInv, InitInv, ProofMeansEmpty,
       DoneMeansProven, RunningIsQuarantined, NoneLive, live, FreshCgroup, StatusNotStolen,
       NoUnexpectedByte
  <1>2. SupInv'
    BY DEF SupInv, NoneLive, live, Early, Before
  <1> QED
    BY <1>1, <1>2

LEMMA ProtectHolds ==
  ASSUME IndInv, Protect
  PROVE  IndInv'
  <1> USE BoundsAssumption DEF IndInv, Protect, Fault, Sup, disk, wires
  <1>1. ScalarOK'
    BY DEF ScalarOK
  <1>2. FlagsOK'
    BY DEF FlagsOK
  <1>3. RecordOK'
    BY DEF RecordOK
  <1>4. RequestsOK'
    BY DEF RequestsOK
  <1>5. SupInv'
    BY DEF SupInv, NoneLive, live, Early, Before
  <1>6. OwnerInv'
    BY DEF OwnerInv
  <1>7. InitInv'
    BY DEF InitInv
  <1>8. ProofMeansEmpty' /\ DoneMeansProven' /\ RunningIsQuarantined'
    BY DEF ProofMeansEmpty, DoneMeansProven, RunningIsQuarantined, NoneLive, live
  <1>9. FreshCgroup' /\ StatusNotStolen' /\ NoUnexpectedByte'
    BY DEF FreshCgroup, StatusNotStolen, NoUnexpectedByte
  <1> QED
    BY <1>1, <1>2, <1>3, <1>4, <1>5, <1>6, <1>7, <1>8, <1>9

LEMMA WriteBindingHolds ==
  ASSUME IndInv, WriteBinding
  PROVE  IndInv'
  <1> USE BoundsAssumption DEF IndInv, WriteBinding, Fault, Sup, disk, wires
  <1>1. ScalarOK' /\ FlagsOK' /\ RecordOK' /\ RequestsOK' /\ OwnerInv' /\ InitInv'
        /\ FreshCgroup' /\ StatusNotStolen' /\ NoUnexpectedByte'
    BY DEF ScalarOK, FlagsOK, RecordOK, RequestsOK, OwnerInv, InitInv, FreshCgroup,
       StatusNotStolen, NoUnexpectedByte
  <1>2. SupInv'
    BY DEF SupInv, NoneLive, live, Early, Before
  <1>3. ProofMeansEmpty' /\ DoneMeansProven' /\ RunningIsQuarantined'
    BY DEF SupInv, ProofMeansEmpty, DoneMeansProven, RunningIsQuarantined, NoneLive, live, Before,
       Early, RecordOK
  <1> QED
    BY <1>1, <1>2, <1>3

LEMMA RevokeHolds ==
  ASSUME IndInv, Revoke
  PROVE  IndInv'
  <1> USE BoundsAssumption DEF IndInv, Revoke, Fault, Sup, disk, wires
  <1>1. ScalarOK' /\ FlagsOK' /\ RecordOK' /\ RequestsOK' /\ OwnerInv' /\ InitInv'
        /\ FreshCgroup' /\ StatusNotStolen' /\ NoUnexpectedByte'
    BY DEF ScalarOK, FlagsOK, RecordOK, RequestsOK, OwnerInv, InitInv, FreshCgroup,
       StatusNotStolen, NoUnexpectedByte
  <1>2. SupInv'
    BY DEF SupInv, NoneLive, live, Early, Before
  <1>3. ProofMeansEmpty' /\ DoneMeansProven' /\ RunningIsQuarantined'
    BY DEF SupInv, ProofMeansEmpty, DoneMeansProven, RunningIsQuarantined, NoneLive, live, Before,
       Early, RecordOK
  <1> QED
    BY <1>1, <1>2, <1>3

LEMMA RunRecipeHolds ==
  ASSUME IndInv, RunRecipe
  PROVE  IndInv'
  <1> USE BoundsAssumption DEF IndInv, RunRecipe, Fault, fail, Sup, Returns, disk, wires
  <1>1. ScalarOK' /\ FlagsOK' /\ RequestsOK' /\ OwnerInv' /\ InitInv' /\ FreshCgroup'
        /\ StatusNotStolen' /\ NoUnexpectedByte'
    BY DEF ScalarOK, FlagsOK, RequestsOK, OwnerInv, InitInv, FreshCgroup, StatusNotStolen,
       NoUnexpectedByte
  <1>2. RecordOK'
    BY DEF RecordOK, Result, Group
  <1>3. SupInv'
    BY DEF SupInv, OwnerInv, InitInv, ScalarOK, RecordOK, Result, Group, RequestsOK, NoneLive,
       live, NoGroup, NoResult, Early, Before, Tree
  <1>4. ProofMeansEmpty' /\ DoneMeansProven' /\ RunningIsQuarantined'
    BY DEF SupInv, ProofMeansEmpty, DoneMeansProven, RunningIsQuarantined, NoneLive, live, Before,
       Early, RecordOK
  <1> QED
    BY <1>1, <1>2, <1>3, <1>4

LEMMA PrepareBwrapHolds ==
  ASSUME IndInv, PrepareBwrap
  PROVE  IndInv'
  <1> USE BoundsAssumption DEF IndInv, PrepareBwrap, Fault, fail, Sup, Returns, disk, wires
  <1>1. ScalarOK' /\ FlagsOK' /\ RequestsOK' /\ OwnerInv' /\ InitInv' /\ ProofMeansEmpty'
        /\ DoneMeansProven' /\ RunningIsQuarantined' /\ FreshCgroup' /\ StatusNotStolen'
        /\ NoUnexpectedByte'
    BY DEF ScalarOK, FlagsOK, RequestsOK, OwnerInv, InitInv, ProofMeansEmpty, DoneMeansProven,
       RunningIsQuarantined, NoneLive, live, FreshCgroup, StatusNotStolen, NoUnexpectedByte
  <1>2. RecordOK'
    BY DEF RecordOK, Result, Group
  <1>3. SupInv'
    BY DEF SupInv, OwnerInv, InitInv, ScalarOK, RecordOK, Result, Group, RequestsOK, NoneLive,
       live, NoGroup, NoResult, Early, Before, Tree
  <1> QED
    BY <1>1, <1>2, <1>3

LEMMA AllocateProbeHolds ==
  ASSUME IndInv, AllocateProbe
  PROVE  IndInv'
  <1> USE BoundsAssumption DEF IndInv, AllocateProbe, Allocate, Fault, NoGroup, fail, Sup, Returns, disk, wires
  <1>1. ScalarOK' /\ FlagsOK' /\ RequestsOK' /\ OwnerInv' /\ InitInv' /\ FreshCgroup'
        /\ StatusNotStolen' /\ NoUnexpectedByte'
    BY DEF ScalarOK, FlagsOK, RequestsOK, OwnerInv, InitInv, FreshCgroup, StatusNotStolen,
       NoUnexpectedByte
  <1>2. RecordOK'
    BY Records DEF RecordOK
  <1>3. SupInv'
    <2>1. /\ state = 0 /\ init = "off" /\ image = "none" /\ toSup = <<>> /\ toOwner = <<>>
          /\ NoneLive /\ result = NoResult /\ protected /\ proof = "none"
             /\ life = [p \in Tree |-> "none"]
      BY DEF SupInv, Early, Before, NoneLive, live, Tree
    <2>2. \/ sup' = "preflight" /\ cg' = [st |-> "open", killed |-> FALSE] /\ result' = result
          \/ sup' = "finish" /\ cg' = NoGroup /\ ~result'.exited
          \/ sup' = "finish" /\ ~result'.settled /\ ~result'.exited
      BY <2>1, Records DEF NoResult, Result
    <2>3. UNCHANGED <<owner, state, toSup, toOwner, init, image, life, proof, protected>>
      OBVIOUS
    <2> HIDE DEF AllocateProbe, NoGroup
    <2> QED
      BY <2>1, <2>2, <2>3 DEF SupInv, NoneLive, live, Early, Before, NoResult
  <1>4. ProofMeansEmpty' /\ DoneMeansProven' /\ RunningIsQuarantined'
    BY DEF SupInv, ProofMeansEmpty, DoneMeansProven, RunningIsQuarantined, NoneLive, live, Before,
       Early, RecordOK
  <1> QED
    BY <1>1, <1>2, <1>3, <1>4

LEMMA KillPreflightHolds ==
  ASSUME IndInv, KillPreflight
  PROVE  IndInv'
  <1> USE BoundsAssumption DEF IndInv, KillPreflight, Fault, NoGroup, fail, Sup, Returns, disk, wires
  <1>1. ScalarOK' /\ FlagsOK' /\ RequestsOK' /\ OwnerInv' /\ InitInv' /\ FreshCgroup'
        /\ StatusNotStolen' /\ NoUnexpectedByte'
    BY DEF ScalarOK, FlagsOK, RequestsOK, OwnerInv, InitInv, FreshCgroup, StatusNotStolen,
       NoUnexpectedByte
  <1>2. RecordOK'
    BY Records DEF RecordOK
  <1>3. SupInv'
    <2>1. /\ state = 0 /\ init = "off" /\ image = "none" /\ toSup = <<>> /\ toOwner = <<>>
          /\ NoneLive /\ result = NoResult /\ protected /\ proof = "none"
             /\ life = [p \in Tree |-> "none"]
      BY DEF SupInv, Early, Before, NoneLive, live, Tree
    <2>2. \/ sup' = "group" /\ cg' = NoGroup /\ result' = result
          \/ sup' = "finish" /\ cg' = NoGroup /\ ~result'.exited
          \/ sup' = "finish" /\ ~result'.settled /\ ~result'.exited
      BY <2>1, Records DEF NoResult, Result
    <2>3. UNCHANGED <<owner, state, toSup, toOwner, init, image, life, proof, protected>>
      OBVIOUS
    <2> HIDE DEF KillPreflight, NoGroup
    <2> QED
      BY <2>1, <2>2, <2>3 DEF SupInv, NoneLive, live, Early, Before, NoResult
  <1>4. ProofMeansEmpty' /\ DoneMeansProven' /\ RunningIsQuarantined'
    BY DEF SupInv, ProofMeansEmpty, DoneMeansProven, RunningIsQuarantined, NoneLive, live, Before,
       Early, RecordOK
  <1> QED
    BY <1>1, <1>2, <1>3, <1>4

LEMMA AllocateSessionHolds ==
  ASSUME IndInv, AllocateSession
  PROVE  IndInv'
  <1> USE BoundsAssumption DEF IndInv, AllocateSession, Allocate, Fault, NoGroup, fail, Sup, Returns, disk, wires
  <1>1. ScalarOK' /\ FlagsOK' /\ RequestsOK' /\ OwnerInv' /\ InitInv' /\ FreshCgroup'
        /\ StatusNotStolen' /\ NoUnexpectedByte'
    BY DEF ScalarOK, FlagsOK, RequestsOK, OwnerInv, InitInv, FreshCgroup, StatusNotStolen,
       NoUnexpectedByte
  <1>2. RecordOK'
    BY Records DEF RecordOK
  <1>3. SupInv'
    <2>1. /\ state = 0 /\ init = "off" /\ image = "none" /\ toSup = <<>> /\ toOwner = <<>>
          /\ NoneLive /\ result = NoResult /\ protected /\ proof = "none"
             /\ life = [p \in Tree |-> "none"]
      BY DEF SupInv, Early, Before, NoneLive, live, Tree
    <2>2. \/ sup' = "bind" /\ cg' = [st |-> "open", killed |-> FALSE] /\ result' = result
          \/ sup' = "finish" /\ cg' = NoGroup /\ ~result'.exited
          \/ sup' = "finish" /\ ~result'.settled /\ ~result'.exited
      BY <2>1, Records DEF NoResult, Result
    <2>3. UNCHANGED <<owner, state, toSup, toOwner, init, image, life, proof, protected>>
      OBVIOUS
    <2> HIDE DEF AllocateSession, NoGroup
    <2> QED
      BY <2>1, <2>2, <2>3 DEF SupInv, NoneLive, live, Early, Before, NoResult
  <1>4. ProofMeansEmpty' /\ DoneMeansProven' /\ RunningIsQuarantined'
    BY DEF SupInv, ProofMeansEmpty, DoneMeansProven, RunningIsQuarantined, NoneLive, live, Before,
       Early, RecordOK
  <1> QED
    BY <1>1, <1>2, <1>3, <1>4

LEMMA BindCgroupHolds ==
  ASSUME IndInv, BindCgroup
  PROVE  IndInv'
  <1> USE BoundsAssumption DEF IndInv, BindCgroup, Fault, NoGroup, fail, Sup, Returns, disk, wires
  <1>1. ScalarOK' /\ FlagsOK' /\ RequestsOK' /\ OwnerInv' /\ InitInv' /\ ProofMeansEmpty'
        /\ DoneMeansProven' /\ RunningIsQuarantined' /\ FreshCgroup' /\ StatusNotStolen'
        /\ NoUnexpectedByte'
    BY DEF ScalarOK, FlagsOK, RequestsOK, OwnerInv, InitInv, ProofMeansEmpty, DoneMeansProven,
       RunningIsQuarantined, NoneLive, live, FreshCgroup, StatusNotStolen, NoUnexpectedByte
  <1>2. RecordOK'
    BY Records DEF RecordOK
  <1>3. SupInv'
    BY DEF SupInv, OwnerInv, InitInv, ScalarOK, RecordOK, Result, Group, RequestsOK, NoneLive,
       live, NoGroup, NoResult, Early, Before, Tree
  <1> QED
    BY <1>1, <1>2, <1>3

LEMMA SpawnHolds ==
  ASSUME IndInv, Spawn
  PROVE  IndInv'
  <1> USE BoundsAssumption DEF IndInv, Spawn, Fault, live, NoGroup, fail, Sup, Returns, disk, wires
  <1>1. ScalarOK' /\ FlagsOK' /\ RequestsOK' /\ OwnerInv'
    BY DEF ScalarOK, FlagsOK, RequestsOK, OwnerInv
  <1>2. RecordOK'
    BY Records DEF RecordOK
  <1>3. SupInv'
    <2>1. /\ state = 0 /\ image = "none" /\ toSup = <<>> /\ toOwner = <<>> /\ init = "off"
          /\ NoneLive /\ result = NoResult /\ protected /\ proof = "none" /\ binding = "cgroup"
          /\ cg = [st |-> "open", killed |-> FALSE]
      BY DEF SupInv, Early, Before, NoneLive, live, Tree
    <2>2. \/ sup' = "protocol" /\ cg' = cg /\ result' = result
          \/ sup' = "finish" /\ cg' = NoGroup /\ ~result'.exited /\ life' = life
          \/ sup' = "finish" /\ ~result'.settled /\ ~result'.exited
      BY <2>1, Records DEF NoResult, Result
    <2>3. UNCHANGED <<owner, state, toSup, toOwner, image, proof, protected, binding>>
      OBVIOUS
    <2> HIDE DEF Spawn, NoGroup
    <2> QED
      BY <2>1, <2>2, <2>3 DEF SupInv, NoneLive, live, Early, Before, NoResult
  <1>4. InitInv'
    BY DEF InitInv, SupInv, Early, Before
  <1>5. ProofMeansEmpty' /\ DoneMeansProven' /\ RunningIsQuarantined'
    BY DEF SupInv, ProofMeansEmpty, DoneMeansProven, RunningIsQuarantined, NoneLive, live, Before,
       Early, RecordOK
  <1>6. FreshCgroup' /\ StatusNotStolen' /\ NoUnexpectedByte'
    BY DEF SupInv, OwnerInv, InitInv, ScalarOK, RecordOK, Result, Group, RequestsOK, FreshCgroup,
       StatusNotStolen, NoUnexpectedByte, Early, Before, Tree, NoGroup
  <1> QED
    BY <1>1, <1>2, <1>3, <1>4, <1>5, <1>6

\* What a request of the owner may be and what it does to the pipes.
RequestTaken ==
  \/ /\ toSup = <<"S">> /\ toSup' = <<>> /\ owner = "awaitE" /\ state = 1 /\ toInit = <<>>
     /\ state' = 2 /\ toInit' \in {<<>>, <<"S">>} /\ toOwner = <<>> /\ sup' \in {sup, "kill"}
  \/ /\ toSup \in Seq({"sig"}) /\ toSup' \in Seq({"sig"}) /\ owner = "running" /\ state = 3
     /\ toInit' \in {toInit, Append(toInit, "sig")} /\ state' = state /\ sup' \in {sup, "kill"}
LEMMA RequestTakes ==
  ASSUME IndInv, Request
  PROVE  RequestTaken
  <1>1. sup = "protocol" /\ toSup # <<>> /\ toSup' = Tail(toSup)
    BY DEF Request
  <1>2. owner \in {"awaitE", "running"}
    BY <1>1 DEF IndInv, OwnerInv, ScalarOK
  <1>3. CASE owner = "awaitE"
    <2>1. state = 1 /\ toSup = <<"S">> /\ toInit = <<>> /\ toOwner = <<>>
      BY <1>1, <1>3 DEF IndInv, OwnerInv, InitInv
    <2>2. Head(toSup) = "S" /\ toSup' = <<>> /\ Append(toInit, "S") = <<"S">>
      BY <1>1, <2>1, Frames
    <2>3. state' = 2 /\ toInit' \in {<<>>, <<"S">>} /\ sup' \in {sup, "kill"}
      BY <2>1, <2>2 DEF Request
    <2> QED
      BY <1>3, <2>1, <2>2, <2>3 DEF RequestTaken
  <1>4. CASE owner = "running"
    <2>1. state = 3 /\ toSup \in Seq({"sig"})
      BY <1>4 DEF IndInv, OwnerInv
    <2>2. Head(toSup) = "sig" /\ Tail(toSup) \in Seq({"sig"})
      BY <1>1, <2>1
    <2>3. state' = state /\ toInit' \in {toInit, Append(toInit, "sig")} /\ sup' \in {sup, "kill"}
      BY <2>1, <2>2 DEF Request
    <2> QED
      BY <1>1, <1>4, <2>1, <2>2, <2>3 DEF RequestTaken
  <1> QED
    BY <1>2, <1>3, <1>4

LEMMA RequestHolds ==
  ASSUME IndInv, Request
  PROVE  IndInv'
  <1> USE BoundsAssumption DEF IndInv, Request, Fault, fail, disk, wires
  <1>1. ScalarOK'
    BY DEF ScalarOK
  <1>2. FlagsOK'
    BY DEF FlagsOK
  <1>3. RecordOK'
    BY DEF RecordOK, Result, Group
  <1>4. RequestsOK'
    <2>1. Head(toSup) \in {"S", "sig"} /\ toSup' \in Seq({"S", "sig"})
      BY DEF RequestsOK
    <2>2. toInit' = toInit \/ toInit' = Append(toInit, "S") \/ toInit' = Append(toInit, "sig")
      BY <2>1
    <2>3. Append(toInit, "S") \in Seq({"S", "sig"}) /\ Append(toInit, "sig") \in Seq({"S", "sig"})
      BY DEF RequestsOK
    <2> QED
      BY <2>1, <2>2, <2>3 DEF RequestsOK
  <1>5. SupInv'
    <2>1. /\ SupInv /\ result \in Result /\ sup = "protocol" /\ ~result.settled
          /\ UNCHANGED <<owner, toOwner, init, image, life, cg, disk>>
      BY DEF SupInv, RecordOK, Early, Before, NoResult
    <2>2. \/ sup' = sup /\ result' = result /\ state' = state
          \/ sup' = sup /\ result' = result /\ state' = 2 /\ state = 1
          \/ /\ sup' = "kill" /\ result' = [result EXCEPT !.err = TRUE]
             /\ state' = state \/ (state' = 2 /\ state = 1)
      <3>1. \/ sup' = sup /\ result' = result
            \/ sup' = "kill" /\ result' = [result EXCEPT !.err = TRUE]
        OBVIOUS
      <3>2. RequestTaken
        BY RequestTakes
      <3> HIDE DEF Request, IndInv
      <3> QED
        BY <3>1, <3>2 DEF RequestTaken
    <2>3. result'.settled = result.settled /\ result'.exited = result.exited
      BY <2>1, <2>2 DEF Result
    <2> QED
      BY <2>1, <2>2, <2>3 DEF SupInv, NoneLive, live, NoGroup, NoResult, Early, Before, Tree
  <1>6. OwnerInv'
    <2>1. RequestTaken
      BY RequestTakes
    <2>2. Len(toSup') + Len(toInit') <= signals + 1
      <3>1. Len(toSup') = Len(toSup) - 1 /\ Len(toInit') <= Len(toInit) + 1
         /\ Len(toInit) \in Nat /\ Len(toInit') \in Nat
        BY <2>1 DEF RequestTaken, RequestsOK
      <3> QED
        BY <3>1 DEF OwnerInv, ScalarOK, RequestsOK
    <2>3. UNCHANGED <<owner, toOwner, proof, signals>> /\ sup = "protocol"
      OBVIOUS
    <2> HIDE DEF Request
    <2> QED
      BY <2>1, <2>2, <2>3 DEF RequestTaken, OwnerInv, Early, Before
  <1>7. InitInv'
    <2>1. RequestTaken
      BY RequestTakes
    <2>2. UNCHANGED <<init, fromInit>>
      OBVIOUS
    <2> HIDE DEF Request
    <2>3. CASE state' = 2
      <3>1. init \in {"awaitS", "gone"} /\ state = 1 /\ toInit' \in {<<>>, <<"S">>}
        BY <2>1, <2>3 DEF RequestTaken, InitInv, ScalarOK
      <3>2. fromInit = <<>>
        <4>1. \/ fromInit = <<>> \/ (fromInit = <<"R">> /\ state = 0)
              \/ state = 2 \/ state = 3
          BY <3>1 DEF InitInv
        <4> QED
          BY <3>1, <4>1
      <3> QED
        BY <2>2, <3>1, <3>2, <2>3 DEF InitInv
    <2>4. CASE state' = 3 /\ state = 3
      <3>1. toInit \in Seq({"sig"}) => toInit' \in Seq({"sig"})
        <4> HIDE DEF IndInv
        <4>1. toInit' = toInit \/ toInit' = Append(toInit, "sig")
          BY <2>1, <2>4 DEF RequestTaken
        <4>2. toInit \in Seq({"sig"}) => Append(toInit, "sig") \in Seq({"sig"})
          OBVIOUS
        <4> QED
          BY <4>1, <4>2
      <3>2. init \in {"run", "gone"}
        BY <2>4 DEF InitInv, ScalarOK
      <3>3. fromInit = <<>> \/ (fromInit = <<"X">> /\ init = "gone")
        BY <2>4, <3>2 DEF InitInv
      <3>4. init = "run" => toInit' \in Seq({"sig"})
        BY <3>1 DEF InitInv
      <3> HIDE DEF IndInv
      <3> QED
        BY <2>2, <2>4, <3>2, <3>3, <3>4 DEF InitInv
    <2> QED
      BY <2>1, <2>3, <2>4 DEF RequestTaken
  <1>8. ProofMeansEmpty' /\ DoneMeansProven' /\ RunningIsQuarantined'
    BY DEF ProofMeansEmpty, DoneMeansProven, RunningIsQuarantined, NoneLive, live
  <1>9. FreshCgroup' /\ StatusNotStolen' /\ NoUnexpectedByte'
    BY DEF SupInv, OwnerInv, InitInv, ScalarOK, RecordOK, Result, Group, RequestsOK, FreshCgroup,
       StatusNotStolen, NoUnexpectedByte, Early, Before, Tree, NoGroup
  <1> QED
    BY <1>1, <1>2, <1>3, <1>4, <1>5, <1>6, <1>7, <1>8, <1>9

LEMMA ReportHolds ==
  ASSUME IndInv, Report
  PROVE  IndInv'
  <1> USE BoundsAssumption DEF IndInv, Report, live, fail, disk, wires
  <1>1. ScalarOK'
    BY DEF ScalarOK
  <1>2. FlagsOK'
    BY DEF FlagsOK
  <1>3. RecordOK'
    BY DEF RecordOK, Result, Group
  <1>4. RequestsOK'
    BY DEF RequestsOK
  <1>5. SupInv'
    <2>1. \/ /\ fromInit = <<"R">> /\ state = 0 /\ fromInit' = <<>>
             /\ \/ state' = 1 /\ toOwner' = Append(toOwner, "R") /\ sup' = sup /\ result' = result
                \/ state' = 0 /\ toOwner' = toOwner /\ sup' = "kill" /\ result' = fail
          \/ /\ fromInit \in {<<"E">>, <<"E", "X">>}
             /\ fromInit' = (IF fromInit = <<"E">> THEN <<>> ELSE <<"X">>)
             /\ state = 2 /\ state' = 3 /\ toOwner' = Append(toOwner, "E") /\ sup' = sup
                /\ result' = result
          \/ /\ fromInit = <<"X">> /\ fromInit' = <<>> /\ state = 3 /\ state' = 3
             /\ toOwner' = toOwner
             /\ sup' = "kill" /\ result' = [result EXCEPT !.exited = TRUE]
      <3>1. \/ fromInit = <<"R">> /\ state = 0
            \/ fromInit \in {<<"E">>, <<"E", "X">>} /\ state = 2
            \/ fromInit = <<"X">> /\ state = 3
        BY DEF InitInv, ScalarOK
      <3>2. CASE fromInit = <<"R">> /\ state = 0
        BY <3>2, Frames
      <3>3. CASE fromInit \in {<<"E">>, <<"E", "X">>} /\ state = 2
        BY <3>3, Frames
      <3>4. CASE fromInit = <<"X">> /\ state = 3
        BY <3>4, Frames
      <3> QED
        BY <3>1, <3>2, <3>3, <3>4
    <2>2. UNCHANGED <<owner, toSup, toInit, init, image, life, cg, proof, binding, protected,
       signals>> /\ sup = "protocol"
      OBVIOUS
    <2>3. /\ result = NoResult /\ fail = [result EXCEPT !.err = TRUE] /\ ~fail.settled
       /\ ~fail.exited
          /\ ~[result EXCEPT !.exited = TRUE].settled
      BY Records DEF SupInv, NoResult, RecordOK, Result
    <2> HIDE DEF Report, fail, NoGroup
    <2> QED
      BY <2>1, <2>2, <2>3 DEF SupInv, Early, Before, NoResult
  <1>6. OwnerInv'
    <2>1. \/ /\ fromInit = <<"R">> /\ state = 0 /\ fromInit' = <<>>
             /\ \/ state' = 1 /\ toOwner' = Append(toOwner, "R") /\ sup' = sup /\ result' = result
                \/ state' = 0 /\ toOwner' = toOwner /\ sup' = "kill" /\ result' = fail
          \/ /\ fromInit \in {<<"E">>, <<"E", "X">>}
             /\ fromInit' = (IF fromInit = <<"E">> THEN <<>> ELSE <<"X">>)
             /\ state = 2 /\ state' = 3 /\ toOwner' = Append(toOwner, "E") /\ sup' = sup
                /\ result' = result
          \/ /\ fromInit = <<"X">> /\ fromInit' = <<>> /\ state = 3 /\ state' = 3
             /\ toOwner' = toOwner
             /\ sup' = "kill" /\ result' = [result EXCEPT !.exited = TRUE]
      <3>1. \/ fromInit = <<"R">> /\ state = 0
            \/ fromInit \in {<<"E">>, <<"E", "X">>} /\ state = 2
            \/ fromInit = <<"X">> /\ state = 3
        BY DEF InitInv, ScalarOK
      <3>2. CASE fromInit = <<"R">> /\ state = 0
        BY <3>2, Frames
      <3>3. CASE fromInit \in {<<"E">>, <<"E", "X">>} /\ state = 2
        BY <3>3, Frames
      <3>4. CASE fromInit = <<"X">> /\ state = 3
        BY <3>4, Frames
      <3> QED
        BY <3>1, <3>2, <3>3, <3>4
    <2>2. UNCHANGED <<owner, toSup, toInit, init, image, life, cg, proof, binding, protected,
       signals>> /\ sup = "protocol"
      OBVIOUS
    <2> HIDE DEF Report, fail
    <2>3. owner \in {"awaitR", "awaitE", "running"}
      BY <2>2 DEF OwnerInv, ScalarOK
    <2>4. CASE state = 0 /\ state' = 1
      <3>1. owner = "awaitR" /\ toOwner = <<>> /\ toOwner' = <<"R">>
        BY <2>1, <2>3, <2>4, Frames DEF OwnerInv
      <3> QED
        BY <2>2, <2>4, <3>1, Frames DEF OwnerInv
    <2>5. CASE state = 2 /\ state' = 3
      <3>1. owner = "awaitE" /\ toOwner = <<>> /\ toOwner' = <<"E">> /\ toSup = <<>>
        BY <2>1, <2>3, <2>5, Frames DEF OwnerInv
      <3> QED
        BY <2>2, <2>5, <3>1, Frames DEF OwnerInv
    <2>6. CASE state' = state
      <3>1. toOwner' = toOwner /\ (toOwner \in {<<"E", "X">>, <<"X">>} => FALSE)
        BY <2>1, <2>2, <2>6 DEF OwnerInv
      <3> QED
        BY <2>2, <2>3, <2>6, <3>1 DEF OwnerInv
    <2> QED
      BY <2>1, <2>4, <2>5, <2>6
  <1>7. InitInv'
    <2>1. \/ /\ fromInit = <<"R">> /\ state = 0 /\ fromInit' = <<>>
             /\ \/ state' = 1 /\ toOwner' = Append(toOwner, "R") /\ sup' = sup /\ result' = result
                \/ state' = 0 /\ toOwner' = toOwner /\ sup' = "kill" /\ result' = fail
          \/ /\ fromInit \in {<<"E">>, <<"E", "X">>}
             /\ fromInit' = (IF fromInit = <<"E">> THEN <<>> ELSE <<"X">>)
             /\ state = 2 /\ state' = 3 /\ toOwner' = Append(toOwner, "E") /\ sup' = sup
                /\ result' = result
          \/ /\ fromInit = <<"X">> /\ fromInit' = <<>> /\ state = 3 /\ state' = 3
             /\ toOwner' = toOwner
             /\ sup' = "kill" /\ result' = [result EXCEPT !.exited = TRUE]
      <3>1. \/ fromInit = <<"R">> /\ state = 0
            \/ fromInit \in {<<"E">>, <<"E", "X">>} /\ state = 2
            \/ fromInit = <<"X">> /\ state = 3
        BY DEF InitInv, ScalarOK
      <3>2. CASE fromInit = <<"R">> /\ state = 0
        BY <3>2, Frames
      <3>3. CASE fromInit \in {<<"E">>, <<"E", "X">>} /\ state = 2
        BY <3>3, Frames
      <3>4. CASE fromInit = <<"X">> /\ state = 3
        BY <3>4, Frames
      <3> QED
        BY <3>1, <3>2, <3>3, <3>4
    <2>2. UNCHANGED <<owner, toSup, toInit, init, image, life, cg, proof, binding, protected,
       signals>> /\ sup = "protocol"
      OBVIOUS
    <2> HIDE DEF Report, fail
    <2>3. CASE fromInit = <<"R">> /\ state = 0
      <3>1. init \in {"awaitS", "gone"} /\ toInit = <<>> /\ fromInit' = <<>> /\ state' \in {0, 1}
        BY <2>1, <2>3, Frames DEF InitInv, ScalarOK
      <3> QED
        BY <2>2, <3>1 DEF InitInv
    <2>4. CASE fromInit \in {<<"E">>, <<"E", "X">>} /\ state = 2
      <3>1. init \in {"run", "gone"} /\ state' = 3 /\ (init = "run" => fromInit' = <<>>)
         /\ fromInit' \in {<<>>, <<"X">>}
        BY <2>1, <2>4, Frames DEF InitInv, ScalarOK
      <3> QED
        BY <2>2, <3>1 DEF InitInv
    <2>5. CASE fromInit = <<"X">> /\ state = 3
      <3>1. init = "gone" /\ state' = 3 /\ fromInit' = <<>>
        BY <2>1, <2>5, Frames DEF InitInv, ScalarOK
      <3> QED
        BY <2>2, <3>1 DEF InitInv
    <2> QED
      BY <2>1, <2>3, <2>4, <2>5
  <1>8. ProofMeansEmpty' /\ DoneMeansProven' /\ RunningIsQuarantined'
    BY DEF ProofMeansEmpty, DoneMeansProven, RunningIsQuarantined, NoneLive, live
  <1>9. FreshCgroup' /\ StatusNotStolen' /\ NoUnexpectedByte'
    BY DEF SupInv, OwnerInv, InitInv, ScalarOK, RecordOK, Result, Group, RequestsOK, FreshCgroup,
       StatusNotStolen, NoUnexpectedByte, Early, Before, Tree, NoGroup
  <1> QED
    BY <1>1, <1>2, <1>3, <1>4, <1>5, <1>6, <1>7, <1>8, <1>9

LEMMA ProtocolFailsHolds ==
  ASSUME IndInv, ProtocolFails
  PROVE  IndInv'
  <1> USE BoundsAssumption DEF IndInv, ProtocolFails, Fault, fail, disk, wires
  <1>1. ScalarOK' /\ FlagsOK' /\ RequestsOK' /\ OwnerInv' /\ InitInv' /\ ProofMeansEmpty'
        /\ DoneMeansProven' /\ RunningIsQuarantined' /\ FreshCgroup' /\ StatusNotStolen'
        /\ NoUnexpectedByte'
    BY DEF ScalarOK, FlagsOK, RequestsOK, OwnerInv, InitInv, ProofMeansEmpty, DoneMeansProven,
       RunningIsQuarantined, NoneLive, live, FreshCgroup, StatusNotStolen, NoUnexpectedByte
  <1>2. RecordOK'
    BY DEF RecordOK, Result, Group
  <1>3. SupInv'
    BY DEF SupInv, OwnerInv, InitInv, ScalarOK, RecordOK, Result, Group, RequestsOK, NoneLive,
       live, NoGroup, NoResult, Early, Before, Tree
  <1> QED
    BY <1>1, <1>2, <1>3

LEMMA KillHolds ==
  ASSUME IndInv, Kill
  PROVE  IndInv'
  <1> USE BoundsAssumption DEF IndInv, Kill, Fault, fail, Sup, Returns, disk, wires
  <1>1. ScalarOK' /\ FlagsOK' /\ RequestsOK' /\ OwnerInv' /\ InitInv' /\ FreshCgroup'
        /\ StatusNotStolen' /\ NoUnexpectedByte'
    BY DEF ScalarOK, FlagsOK, RequestsOK, OwnerInv, InitInv, FreshCgroup, StatusNotStolen,
       NoUnexpectedByte
  <1>2. RecordOK'
    BY DEF RecordOK, Result, Group
  <1>3. SupInv'
    BY DEF SupInv, OwnerInv, InitInv, ScalarOK, RecordOK, Result, Group, RequestsOK, NoneLive,
       live, NoGroup, NoResult, Early, Before, Tree
  <1>4. ProofMeansEmpty' /\ DoneMeansProven' /\ RunningIsQuarantined'
    BY DEF SupInv, ProofMeansEmpty, DoneMeansProven, RunningIsQuarantined, NoneLive, live, Before,
       Early, RecordOK
  <1> QED
    BY <1>1, <1>2, <1>3, <1>4

LEMMA CmdWaitHolds ==
  ASSUME IndInv, CmdWait
  PROVE  IndInv'
  <1> USE BoundsAssumption DEF IndInv, CmdWait, ended, disk, wires
  <1>1. ScalarOK'
    BY DEF ScalarOK
  <1>2. FlagsOK'
    BY DEF FlagsOK
  <1>3. RecordOK'
    BY DEF RecordOK
  <1>4. RequestsOK'
    BY DEF RequestsOK
  <1>5. SupInv'
    BY DEF SupInv, OwnerInv, InitInv, ScalarOK, RecordOK, Result, Group, RequestsOK, NoneLive,
       live, NoGroup, NoResult, Early, Before, Tree
  <1>6. OwnerInv'
    BY DEF OwnerInv
  <1>7. InitInv'
    BY DEF InitInv
  <1>8. ProofMeansEmpty' /\ DoneMeansProven' /\ RunningIsQuarantined'
    BY DEF ProofMeansEmpty, DoneMeansProven, RunningIsQuarantined, NoneLive, live
  <1>9. FreshCgroup' /\ StatusNotStolen' /\ NoUnexpectedByte'
    BY DEF FreshCgroup, StatusNotStolen, NoUnexpectedByte
  <1> QED
    BY <1>1, <1>2, <1>3, <1>4, <1>5, <1>6, <1>7, <1>8, <1>9

LEMMA ReapHolds ==
  ASSUME IndInv, Reap
  PROVE  IndInv'
  <1> USE BoundsAssumption DEF IndInv, Reap, disk, wires
  <1>1. ScalarOK' /\ FlagsOK' /\ RecordOK' /\ RequestsOK' /\ SupInv' /\ OwnerInv' /\ InitInv'
        /\ ProofMeansEmpty' /\ DoneMeansProven' /\ RunningIsQuarantined'
    BY DEF ScalarOK, FlagsOK, RecordOK, RequestsOK, SupInv, NoneLive, live, OwnerInv, InitInv,
       ProofMeansEmpty, DoneMeansProven, RunningIsQuarantined
  <1>2. FreshCgroup' /\ StatusNotStolen' /\ NoUnexpectedByte'
    BY DEF SupInv, OwnerInv, InitInv, ScalarOK, RecordOK, Result, Group, RequestsOK, FreshCgroup,
       StatusNotStolen, NoUnexpectedByte, Early, Before, Tree, NoGroup
  <1> QED
    BY <1>1, <1>2

LEMMA SettleHolds ==
  ASSUME IndInv, Settle
  PROVE  IndInv'
  <1> USE BoundsAssumption DEF IndInv, Settle, Fault, NoGroup, fail, Returns, proven, live, disk, wires
  <1>1. ScalarOK' /\ FlagsOK' /\ RequestsOK' /\ OwnerInv' /\ ProofMeansEmpty'
        /\ DoneMeansProven' /\ RunningIsQuarantined' /\ FreshCgroup' /\ StatusNotStolen'
        /\ NoUnexpectedByte'
    BY DEF ScalarOK, FlagsOK, RequestsOK, OwnerInv, ProofMeansEmpty, DoneMeansProven,
       RunningIsQuarantined, NoneLive, live, FreshCgroup, StatusNotStolen, NoUnexpectedByte
  <1>4. InitInv'
    <2>1. UNCHANGED <<init, fromInit, toInit, state>>
      OBVIOUS
    <2> QED
      BY <2>1 DEF InitInv
  <1>2. RecordOK'
    BY Records DEF RecordOK
  <1>3. SupInv'
    BY DEF SupInv, OwnerInv, InitInv, ScalarOK, RecordOK, Result, Group, RequestsOK, NoneLive,
       live, NoGroup, NoResult, Early, Before, Tree
  <1> QED
    BY <1>1, <1>2, <1>3, <1>4

LEMMA FinishHolds ==
  ASSUME IndInv, Finish
  PROVE  IndInv'
  <1> USE BoundsAssumption DEF IndInv, Finish, Fault, fail, restored, disk, wires
  <1>1. ScalarOK' /\ FlagsOK' /\ RequestsOK' /\ OwnerInv' /\ InitInv' /\ FreshCgroup'
        /\ StatusNotStolen' /\ NoUnexpectedByte'
    BY DEF ScalarOK, FlagsOK, RequestsOK, OwnerInv, InitInv, FreshCgroup, StatusNotStolen,
       NoUnexpectedByte
  <1>2. RecordOK'
    BY DEF RecordOK, Result, Group
  <1>3. SupInv'
    <2>1. /\ SupInv /\ result \in Result /\ sup = "finish" /\ sup' = "report"
          /\ UNCHANGED <<owner, toSup, toOwner, state, init, image, life, cg, binding, protected>>
      BY DEF RecordOK
    <2>2. \/ result.settled /\ result' = result /\ proof' = "settled"
          \/ ~result.settled /\ result' = [result EXCEPT !.err = TRUE] /\ proof' = proof
          \/ /\ result' = [[result EXCEPT !.err = TRUE] EXCEPT !.settled = FALSE]
             /\ proof' \in {proof, "settled"}
      OBVIOUS
    <2>3. /\ result'.exited = result.exited
          /\ result'.settled => result.settled /\ (proof' = "settled" \/ result'.err)
      <3>1. CASE result' = result
        BY <2>1, <2>2, <3>1 DEF Result
      <3>2. CASE result' = [result EXCEPT !.err = TRUE]
        BY <2>1, <2>2, <3>2 DEF Result
      <3>3. CASE result' = [[result EXCEPT !.err = TRUE] EXCEPT !.settled = FALSE]
        BY <2>1, <2>2, <3>3 DEF Result
      <3> QED
        BY <2>2, <3>1, <3>2, <3>3
    <2>4. proof' = "settled" \/ proof' = proof
      BY <2>2
    <2> QED
      BY <2>1, <2>3, <2>4 DEF SupInv, NoneLive, live, NoGroup, Early, Before
  <1>4. ProofMeansEmpty' /\ DoneMeansProven' /\ RunningIsQuarantined'
    BY DEF SupInv, ProofMeansEmpty, DoneMeansProven, RunningIsQuarantined, NoneLive, live, Before,
       Early, RecordOK
  <1> QED
    BY <1>1, <1>2, <1>3, <1>4

LEMMA FinishSessionHolds ==
  ASSUME IndInv, FinishSession
  PROVE  IndInv'
  <1> USE BoundsAssumption DEF IndInv, FinishSession, Sup, disk, wires
  <1>1. ScalarOK' /\ FlagsOK' /\ RecordOK' /\ RequestsOK' /\ InitInv' /\ ProofMeansEmpty'
        /\ DoneMeansProven' /\ RunningIsQuarantined' /\ FreshCgroup' /\ StatusNotStolen'
        /\ NoUnexpectedByte'
    BY DEF ScalarOK, FlagsOK, RecordOK, RequestsOK, InitInv, ProofMeansEmpty, DoneMeansProven,
       RunningIsQuarantined, NoneLive, live, FreshCgroup, StatusNotStolen, NoUnexpectedByte
  <1>2. SupInv'
    BY DEF SupInv, NoneLive, live, Early, Before
  <1>3. OwnerInv'
    <2>1. CASE toOwner' = toOwner
      BY <2>1 DEF OwnerInv
    <2>2. CASE toOwner' # toOwner
      <3>1. /\ ~result.err /\ result.exited /\ result.settled /\ toOwner' = Append(toOwner, "X")
            /\ state = 3 /\ proof = "settled"
        BY <2>2 DEF SupInv
      <3>2. owner \in {"awaitE", "running"}
        BY <3>1 DEF OwnerInv, ScalarOK
      <3>3. toOwner = (IF owner = "awaitE" THEN <<"E">> ELSE <<>>)
        BY <3>1, <3>2 DEF OwnerInv
      <3>4. toOwner' = (IF owner = "awaitE" THEN <<"E", "X">> ELSE <<"X">>)
        BY <3>1, <3>3, Frames
      <3> QED
        BY <3>1, <3>2, <3>4, Frames DEF OwnerInv
    <2> QED
      BY <2>1, <2>2
  <1> QED
    BY <1>1, <1>2, <1>3

LEMMA ReadTransportHolds ==
  ASSUME IndInv, ReadTransport
  PROVE  IndInv'
  <1> USE BoundsAssumption DEF IndInv, ReadTransport, Fault, live, InitReturns, Dies, dies, disk, wires
  <1>1. ScalarOK' /\ FlagsOK' /\ RecordOK' /\ RequestsOK' /\ SupInv' /\ OwnerInv' /\ InitInv'
        /\ ProofMeansEmpty' /\ DoneMeansProven' /\ RunningIsQuarantined'
    BY DEF ScalarOK, FlagsOK, RecordOK, RequestsOK, SupInv, NoneLive, live, OwnerInv, InitInv,
       ProofMeansEmpty, DoneMeansProven, RunningIsQuarantined
  <1>2. FreshCgroup' /\ StatusNotStolen' /\ NoUnexpectedByte'
    BY DEF SupInv, OwnerInv, InitInv, ScalarOK, RecordOK, Result, Group, RequestsOK, FreshCgroup,
       StatusNotStolen, NoUnexpectedByte, Early, Before, Tree, NoGroup
  <1> QED
    BY <1>1, <1>2

LEMMA StartRestrictedHolds ==
  ASSUME IndInv, StartRestricted
  PROVE  IndInv'
  <1> USE BoundsAssumption DEF IndInv, StartRestricted, Fault, live, InitReturns, Dies, dies, disk, wires
  <1>1. ScalarOK' /\ FlagsOK' /\ RecordOK' /\ RequestsOK' /\ OwnerInv' /\ InitInv'
    BY DEF ScalarOK, FlagsOK, RecordOK, RequestsOK, OwnerInv, InitInv
  <1>2. SupInv'
    BY DEF SupInv, OwnerInv, InitInv, ScalarOK, RecordOK, Result, Group, RequestsOK, NoneLive,
       live, NoGroup, NoResult, Early, Before, Tree
  <1>3. ProofMeansEmpty' /\ DoneMeansProven' /\ RunningIsQuarantined'
    BY DEF SupInv, OwnerInv, ScalarOK, RecordOK, Result, Group, RequestsOK, ProofMeansEmpty,
       DoneMeansProven, RunningIsQuarantined, NoneLive, live, NoGroup, Early, Before, Tree
  <1>4. FreshCgroup' /\ StatusNotStolen' /\ NoUnexpectedByte'
    BY DEF SupInv, OwnerInv, InitInv, ScalarOK, RecordOK, Result, Group, RequestsOK, FreshCgroup,
       StatusNotStolen, NoUnexpectedByte, Early, Before, Tree, NoGroup
  <1> QED
    BY <1>1, <1>2, <1>3, <1>4

LEMMA ReadyHolds ==
  ASSUME IndInv, Ready
  PROVE  IndInv'
  <1> USE BoundsAssumption DEF IndInv, Ready, Fault, live, InitReturns, Dies, dies, disk, wires
  <1>1. ScalarOK' /\ FlagsOK' /\ RecordOK' /\ RequestsOK' /\ SupInv' /\ OwnerInv' /\ InitInv'
        /\ ProofMeansEmpty' /\ DoneMeansProven' /\ RunningIsQuarantined'
    BY DEF ScalarOK, FlagsOK, RecordOK, RequestsOK, SupInv, NoneLive, live, OwnerInv, InitInv,
       ProofMeansEmpty, DoneMeansProven, RunningIsQuarantined
  <1>2. FreshCgroup' /\ StatusNotStolen' /\ NoUnexpectedByte'
    BY DEF SupInv, OwnerInv, InitInv, ScalarOK, RecordOK, Result, Group, RequestsOK, FreshCgroup,
       StatusNotStolen, NoUnexpectedByte, Early, Before, Tree, NoGroup
  <1> QED
    BY <1>1, <1>2

LEMMA AuthorizeHolds ==
  ASSUME IndInv, Authorize
  PROVE  IndInv'
  <1> USE BoundsAssumption DEF IndInv, Authorize, live, InitReturns, Dies, dies, disk, wires
  <1>1. ScalarOK'
    BY DEF ScalarOK
  <1>2. FlagsOK'
    BY DEF FlagsOK
  <1>3. RecordOK'
    BY DEF RecordOK
  <1>4. RequestsOK'
    BY DEF RequestsOK
  <1>5. SupInv'
    BY DEF SupInv, NoneLive, live
  <1>6. OwnerInv'
    BY Frames DEF SupInv, OwnerInv, InitInv, ScalarOK, RecordOK, Result, Group, RequestsOK,
       NoResult, Early, Before
  <1>7. InitInv'
    <2>1. /\ toInit = <<"S">> /\ toInit' = <<>> /\ init' = "exec"
          /\ state = 2 /\ fromInit = <<>> /\ state' = state /\ fromInit' = fromInit
      <3>1. toInit = <<"S">> /\ state = 2
        BY DEF InitInv
      <3>2. Head(toInit) = "S" /\ toInit' = <<>> /\ init' = "exec"
        BY <3>1, Frames
      <3>3. fromInit = <<>>
        BY <3>1 DEF InitInv
      <3> QED
        BY <3>1, <3>2, <3>3
    <2> QED
      BY <2>1 DEF InitInv
  <1>8. ProofMeansEmpty' /\ DoneMeansProven' /\ RunningIsQuarantined'
    BY DEF ProofMeansEmpty, DoneMeansProven, RunningIsQuarantined, NoneLive, live
  <1>9. FreshCgroup' /\ StatusNotStolen' /\ NoUnexpectedByte'
    BY Frames DEF FreshCgroup, StatusNotStolen, NoUnexpectedByte, SupInv, InitInv, RecordOK
  <1> QED
    BY <1>1, <1>2, <1>3, <1>4, <1>5, <1>6, <1>7, <1>8, <1>9

LEMMA ExecHolds ==
  ASSUME IndInv, Exec
  PROVE  IndInv'
  <1> USE BoundsAssumption DEF IndInv, Exec, Fault, live, InitReturns, Dies, dies, disk, wires
  <1>1. ScalarOK' /\ FlagsOK' /\ RecordOK' /\ RequestsOK' /\ OwnerInv' /\ InitInv'
        /\ ProofMeansEmpty' /\ DoneMeansProven' /\ RunningIsQuarantined'
    BY DEF ScalarOK, FlagsOK, RecordOK, RequestsOK, OwnerInv, InitInv, ProofMeansEmpty,
       DoneMeansProven, RunningIsQuarantined, NoneLive, live
  <1>2. SupInv'
    BY DEF SupInv, OwnerInv, InitInv, ScalarOK, RecordOK, Result, Group, RequestsOK, NoneLive,
       live, NoGroup, NoResult, Early, Before, Tree
  <1>3. FreshCgroup' /\ StatusNotStolen' /\ NoUnexpectedByte'
    BY DEF SupInv, OwnerInv, InitInv, ScalarOK, RecordOK, Result, Group, RequestsOK, FreshCgroup,
       StatusNotStolen, NoUnexpectedByte, Early, Before, Tree, NoGroup
  <1> QED
    BY <1>1, <1>2, <1>3

LEMMA ForwardHolds ==
  ASSUME IndInv, Forward
  PROVE  IndInv'
  <1> USE BoundsAssumption DEF IndInv, Forward, live, InitReturns, Dies, dies, disk, wires
  <1>1. ScalarOK' /\ FlagsOK' /\ RecordOK' /\ RequestsOK' /\ SupInv' /\ InitInv'
        /\ ProofMeansEmpty' /\ DoneMeansProven' /\ RunningIsQuarantined'
    BY DEF ScalarOK, FlagsOK, RecordOK, RequestsOK, SupInv, NoneLive, live, InitInv,
       ProofMeansEmpty, DoneMeansProven, RunningIsQuarantined
  <1>2. OwnerInv'
    BY Frames DEF SupInv, OwnerInv, InitInv, ScalarOK, RecordOK, Result, Group, RequestsOK,
       NoResult, Early, Before
  <1>3. FreshCgroup' /\ StatusNotStolen' /\ NoUnexpectedByte'
    BY DEF FreshCgroup, StatusNotStolen, NoUnexpectedByte, SupInv, InitInv, RecordOK
  <1> QED
    BY <1>1, <1>2, <1>3

LEMMA ExitedHolds ==
  ASSUME IndInv, Exited
  PROVE  IndInv'
  <1> USE BoundsAssumption DEF IndInv, Exited, Fault, live, InitReturns, Dies, dies, drains, disk, wires
  <1>1. ScalarOK' /\ FlagsOK' /\ RecordOK' /\ RequestsOK' /\ SupInv' /\ OwnerInv'
        /\ ProofMeansEmpty' /\ DoneMeansProven' /\ RunningIsQuarantined'
    BY DEF ScalarOK, FlagsOK, RecordOK, RequestsOK, SupInv, NoneLive, live, OwnerInv,
       ProofMeansEmpty, DoneMeansProven, RunningIsQuarantined
  <1>2. InitInv'
    BY Frames DEF InitInv
  <1>3. FreshCgroup' /\ StatusNotStolen' /\ NoUnexpectedByte'
    BY DEF SupInv, OwnerInv, InitInv, ScalarOK, RecordOK, Result, Group, RequestsOK, FreshCgroup,
       StatusNotStolen, NoUnexpectedByte, Early, Before, Tree, NoGroup
  <1> QED
    BY <1>1, <1>2, <1>3

LEMMA InitLostHolds ==
  ASSUME IndInv, InitLost
  PROVE  IndInv'
  <1> USE BoundsAssumption DEF IndInv, InitLost, Fault, live, InitReturns, Dies, dies, disk, wires
  <1>1. ScalarOK' /\ FlagsOK' /\ RecordOK' /\ RequestsOK' /\ SupInv' /\ OwnerInv' /\ InitInv'
        /\ ProofMeansEmpty' /\ DoneMeansProven' /\ RunningIsQuarantined'
    BY DEF ScalarOK, FlagsOK, RecordOK, RequestsOK, SupInv, NoneLive, live, OwnerInv, InitInv,
       ProofMeansEmpty, DoneMeansProven, RunningIsQuarantined
  <1>2. FreshCgroup' /\ StatusNotStolen' /\ NoUnexpectedByte'
    BY DEF SupInv, OwnerInv, InitInv, ScalarOK, RecordOK, Result, Group, RequestsOK, FreshCgroup,
       StatusNotStolen, NoUnexpectedByte, Early, Before, Tree, NoGroup
  <1> QED
    BY <1>1, <1>2

LEMMA ForksHolds ==
  ASSUME IndInv, Forks
  PROVE  IndInv'
  <1> USE BoundsAssumption DEF IndInv, Forks, live, disk, wires
  <1>1. ScalarOK'
    BY DEF ScalarOK
  <1>2. FlagsOK'
    BY DEF FlagsOK
  <1>3. RecordOK'
    BY DEF RecordOK
  <1>4. RequestsOK'
    BY DEF RequestsOK
  <1>5. SupInv'
    BY DEF SupInv, OwnerInv, InitInv, ScalarOK, RecordOK, Result, Group, RequestsOK, NoneLive,
       live, NoGroup, NoResult, Early, Before, Tree
  <1>6. OwnerInv'
    BY DEF OwnerInv
  <1>7. InitInv'
    BY DEF InitInv
  <1>8. ProofMeansEmpty' /\ DoneMeansProven' /\ RunningIsQuarantined'
    BY DEF SupInv, OwnerInv, ScalarOK, RecordOK, Result, Group, RequestsOK, ProofMeansEmpty,
       DoneMeansProven, RunningIsQuarantined, NoneLive, live, NoGroup, Early, Before, Tree
  <1>9. FreshCgroup' /\ StatusNotStolen' /\ NoUnexpectedByte'
    BY DEF FreshCgroup, StatusNotStolen, NoUnexpectedByte
  <1> QED
    BY <1>1, <1>2, <1>3, <1>4, <1>5, <1>6, <1>7, <1>8, <1>9

LEMMA TargetEndsHolds ==
  ASSUME IndInv, TargetEnds
  PROVE  IndInv'
  <1> USE BoundsAssumption DEF IndInv, TargetEnds, live, Dies, dies, disk, wires
  <1>1. ScalarOK' /\ FlagsOK' /\ RecordOK' /\ RequestsOK' /\ SupInv' /\ OwnerInv' /\ InitInv'
        /\ ProofMeansEmpty' /\ DoneMeansProven' /\ RunningIsQuarantined'
    BY DEF ScalarOK, FlagsOK, RecordOK, RequestsOK, SupInv, NoneLive, live, OwnerInv, InitInv,
       ProofMeansEmpty, DoneMeansProven, RunningIsQuarantined
  <1>2. FreshCgroup' /\ StatusNotStolen' /\ NoUnexpectedByte'
    BY DEF SupInv, OwnerInv, InitInv, ScalarOK, RecordOK, Result, Group, RequestsOK, FreshCgroup,
       StatusNotStolen, NoUnexpectedByte, Early, Before, Tree, NoGroup
  <1> QED
    BY <1>1, <1>2

LEMMA KernelKillsHolds ==
  ASSUME IndInv, NEW p \in Tree, KernelKills(p)
  PROVE  IndInv'
  <1> USE BoundsAssumption DEF IndInv, KernelKills, live, Dies, dies, disk, wires
  <1>1. ScalarOK' /\ FlagsOK' /\ RecordOK' /\ RequestsOK' /\ SupInv' /\ OwnerInv'
        /\ ProofMeansEmpty' /\ DoneMeansProven' /\ RunningIsQuarantined'
    BY DEF ScalarOK, FlagsOK, RecordOK, RequestsOK, SupInv, NoneLive, live, OwnerInv,
       ProofMeansEmpty, DoneMeansProven, RunningIsQuarantined
  <1>2. InitInv'
    BY Frames DEF SupInv, OwnerInv, InitInv, ScalarOK, RecordOK, Result, Group, RequestsOK, Early,
       Before
  <1>3. FreshCgroup' /\ StatusNotStolen' /\ NoUnexpectedByte'
    BY DEF SupInv, OwnerInv, InitInv, ScalarOK, RecordOK, Result, Group, RequestsOK, FreshCgroup,
       StatusNotStolen, NoUnexpectedByte, Early, Before, Tree, NoGroup
  <1> QED
    BY <1>1, <1>2, <1>3

LEMMA BwrapExitsHolds ==
  ASSUME IndInv, BwrapExits
  PROVE  IndInv'
  <1> USE BoundsAssumption DEF IndInv, BwrapExits, live, Dies, dies, disk, wires
  <1>1. ScalarOK' /\ FlagsOK' /\ RecordOK' /\ RequestsOK' /\ SupInv' /\ OwnerInv' /\ InitInv'
        /\ ProofMeansEmpty' /\ DoneMeansProven' /\ RunningIsQuarantined'
    BY DEF ScalarOK, FlagsOK, RecordOK, RequestsOK, SupInv, NoneLive, live, OwnerInv, InitInv,
       ProofMeansEmpty, DoneMeansProven, RunningIsQuarantined
  <1>2. FreshCgroup' /\ StatusNotStolen' /\ NoUnexpectedByte'
    BY DEF FreshCgroup, StatusNotStolen, NoUnexpectedByte, SupInv, InitInv, RecordOK
  <1> QED
    BY <1>1, <1>2

LEMMA NamespaceEndsHolds ==
  ASSUME IndInv, NEW p \in Tree, NamespaceEnds(p)
  PROVE  IndInv'
  <1> USE BoundsAssumption DEF IndInv, NamespaceEnds, live, Dies, dies, disk, wires
  <1>1. ScalarOK' /\ FlagsOK' /\ RecordOK' /\ RequestsOK' /\ SupInv' /\ OwnerInv'
        /\ ProofMeansEmpty' /\ DoneMeansProven' /\ RunningIsQuarantined'
    BY DEF ScalarOK, FlagsOK, RecordOK, RequestsOK, SupInv, NoneLive, live, OwnerInv,
       ProofMeansEmpty, DoneMeansProven, RunningIsQuarantined
  <1>2. InitInv'
    BY Frames DEF SupInv, OwnerInv, InitInv, ScalarOK, RecordOK, Result, Group, RequestsOK, Early,
       Before
  <1>3. FreshCgroup' /\ StatusNotStolen' /\ NoUnexpectedByte'
    BY DEF SupInv, OwnerInv, InitInv, ScalarOK, RecordOK, Result, Group, RequestsOK, FreshCgroup,
       StatusNotStolen, NoUnexpectedByte, Early, Before, Tree, NoGroup
  <1> QED
    BY <1>1, <1>2, <1>3

LEMMA DieWithParentHolds ==
  ASSUME IndInv, DieWithParent
  PROVE  IndInv'
  <1> USE BoundsAssumption DEF IndInv, DieWithParent, live, ended, Dies, dies, disk, wires
  <1>1. ScalarOK' /\ FlagsOK' /\ RecordOK' /\ RequestsOK' /\ SupInv' /\ OwnerInv' /\ InitInv'
        /\ ProofMeansEmpty' /\ DoneMeansProven' /\ RunningIsQuarantined'
    BY DEF ScalarOK, FlagsOK, RecordOK, RequestsOK, SupInv, NoneLive, live, OwnerInv, InitInv,
       ProofMeansEmpty, DoneMeansProven, RunningIsQuarantined
  <1>2. FreshCgroup' /\ StatusNotStolen' /\ NoUnexpectedByte'
    BY DEF FreshCgroup, StatusNotStolen, NoUnexpectedByte, SupInv, InitInv, RecordOK
  <1> QED
    BY <1>1, <1>2

\* Every step of the system preserves the invariant.
LEMMA NextHolds == IndInv /\ [Next]_vars => IndInv'
  <1> SUFFICES ASSUME IndInv, [Next]_vars
               PROVE  IndInv'
    OBVIOUS
  <1>1. CASE OwnerStep \/ Prepare \/ Start \/ Signal \/ OwnerDies
    BY <1>1, PrepareHolds, StartHolds, OwnerReadyHolds, OwnerExecHolds, StartFailsHolds, WaitHolds,
       SignalHolds, OwnerDiesHolds DEF OwnerStep
  <1>2. CASE SupStep \/ CmdWait
    BY <1>2, LoadHolds, ProtectHolds, WriteBindingHolds, RevokeHolds, RunRecipeHolds,
       PrepareBwrapHolds, AllocateProbeHolds, KillPreflightHolds, AllocateSessionHolds,
       BindCgroupHolds, SpawnHolds, RequestHolds, ReportHolds, ProtocolFailsHolds, KillHolds,
       ReapHolds, SettleHolds, FinishHolds, FinishSessionHolds, CmdWaitHolds DEF SupStep
  <1>3. CASE InitStep \/ Forks \/ TargetEnds
    BY <1>3, ReadTransportHolds, StartRestrictedHolds, ReadyHolds, AuthorizeHolds, ExecHolds,
       ForwardHolds, ExitedHolds, InitLostHolds, ForksHolds, TargetEndsHolds DEF InitStep
  <1>4. CASE KernelStep
    BY <1>4, BwrapExitsHolds, DieWithParentHolds, KernelKillsHolds, NamespaceEndsHolds DEF KernelStep
  <1>5. CASE UNCHANGED vars
    BY <1>5 DEF vars, wires, disk, IndInv, ScalarOK, FlagsOK, RecordOK, RequestsOK, SupInv, OwnerInv,
       InitInv, ProofMeansEmpty, DoneMeansProven, RunningIsQuarantined, FreshCgroup, StatusNotStolen,
       NoUnexpectedByte, NoneLive, live
  <1> QED
    BY <1>1, <1>2, <1>3, <1>4, <1>5 DEF Next

LEMMA InitHolds == Init => IndInv
  <1> SUFFICES ASSUME Init
               PROVE  IndInv
    OBVIOUS
  <1> USE BoundsAssumption DEF Init, NoGroup
  <1>1. ScalarOK /\ RequestsOK
    BY DEF ScalarOK, RequestsOK
  <1>6. FlagsOK
    BY DEF FlagsOK
  <1>2. RecordOK
    BY DEF RecordOK, Result, Group, Tree
  <1>3. SupInv /\ OwnerInv /\ InitInv
    BY DEF SupInv, OwnerInv, InitInv, NoResult, Early, Before, NoneLive, live
  <1>4. ProofMeansEmpty /\ DoneMeansProven /\ RunningIsQuarantined
    BY DEF ProofMeansEmpty, DoneMeansProven, RunningIsQuarantined, NoneLive, live
  <1>5. FreshCgroup /\ StatusNotStolen /\ NoUnexpectedByte
    BY DEF FreshCgroup, StatusNotStolen, NoUnexpectedByte, Tree
  <1> QED
    BY <1>1, <1>2, <1>3, <1>4, <1>5, <1>6 DEF IndInv

LEMMA Inductive == Spec => []IndInv
  BY InitHolds, NextHolds, PTL DEF Spec

\* The pipes never hold more than the protocol allows, and everything else has
\* its type.
LEMMA Typed == IndInv => TypeOK
  <1> SUFFICES ASSUME IndInv
               PROVE  TypeOK
    OBVIOUS
  <1> USE DEF IndInv
  <1>1. Len(toSup) <= MaxSignals + 1 /\ Len(toInit) <= MaxSignals + 1
    <2>1. Len(toSup) \in Nat /\ Len(toInit) \in Nat /\ signals \in 0..MaxSignals
      BY DEF RequestsOK, ScalarOK
    <2> QED
      BY <2>1, BoundsAssumption DEF OwnerInv
  <1>2. toOwner \in {<<>>, <<"R">>, <<"E">>, <<"E", "X">>, <<"X">>}
    BY DEF OwnerInv
  <1>3. fromInit \in {<<>>, <<"R">>, <<"E">>, <<"E", "X">>, <<"X">>}
    BY DEF InitInv, ScalarOK
  <1>4. ASSUME NEW w \in {<<>>, <<"R">>, <<"E">>, <<"E", "X">>, <<"X">>}
        PROVE  w \in Seq({"R", "E", "X"}) /\ Len(w) <= 2
    <2>1. CASE w = <<>>
      BY <2>1
    <2>2. ASSUME NEW a \in {"R", "E", "X"}, w = <<a>>
          PROVE  w \in Seq({"R", "E", "X"}) /\ Len(w) <= 2
      BY <2>2
    <2>3. CASE w = <<"E", "X">>
      BY <2>3
    <2> QED
      BY <2>1, <2>2, <2>3
  <1>5. \A w \in {toOwner, fromInit} : w \in Seq({"R", "E", "X"}) /\ Len(w) <= 2
    BY <1>2, <1>3, <1>4
  <1>6. \A w \in {toSup, toInit} : w \in Seq({"S", "sig"}) /\ Len(w) <= MaxSignals + 1
    BY <1>1 DEF RequestsOK
  <1> QED
    BY <1>5, <1>6 DEF TypeOK, ScalarOK, FlagsOK, RecordOK, Result, Group

\* At every step at which ACS or its supervisor may die: a proof on disk means an
\* empty Session, the owner is done only with one, and whatever still runs is
\* under quarantine (Finish, Revoke, FinishSession).
THEOREM ProofsAreHonest == Spec => []ProofIsHonest
  <1>1. IndInv => ProofIsHonest
    BY Typed DEF IndInv, ProofIsHonest
  <1> QED
    BY <1>1, Inductive, PTL

\* No interleaving of start-up, signals and exit makes owner, supervisor and init
\* disagree: the target runs only when authorised, in a group nobody has killed,
\* and its status is not reaped away (supervisor_linux_amd64.go).
THEOREM ProtocolAlwaysHolds == Spec => []ProtocolHolds
  <1>1. IndInv => TargetIsAuthorized
    BY DEF IndInv, SupInv, OwnerInv, TargetIsAuthorized, ScalarOK
  <1>2. IndInv => ProtocolHolds
    BY <1>1 DEF IndInv, ProtocolHolds
  <1> QED
    BY <1>2, Inductive, PTL

-----------------------------------------------------------------------------
(* Launch authority: paths                                                  *)

Path == Seq(Alphabet)

\* A path is within another when it is a prefix of it.
LEMMA PrefixMeans ==
  ASSUME NEW a \in Path, NEW p \in Path
  PROVE  withinOrEqual(a, p) <=> Len(a) <= Len(p) /\ \A i \in 1..Len(a) : a[i] = p[i]
<1>1. ASSUME Len(a) <= Len(p)
      PROVE  /\ SubSeq(p, 1, Len(a)) \in Path /\ Len(SubSeq(p, 1, Len(a))) = Len(a)
             /\ \A i \in 1..Len(a) : SubSeq(p, 1, Len(a))[i] = p[i]
  <2>1. \A i \in 1..Len(a) : p[i] \in Alphabet
    BY <1>1 DEF Path
  <2>2. Len(a) \in Nat /\ 1 \in Int /\ Len(a) \in Int
    BY DEF Path
  <2>3. /\ SubSeq(p, 1, Len(a)) \in Seq(Alphabet)
        /\ Len(SubSeq(p, 1, Len(a))) = IF 1 <= Len(a) THEN Len(a) - 1 + 1 ELSE 0
        /\ \A i \in 1 .. Len(a) - 1 + 1 : SubSeq(p, 1, Len(a))[i] = p[1 + i - 1]
    BY <2>1, <2>2, SubSeqProperties
  <2> QED
    BY <2>2, <2>3 DEF Path
<1>2. ASSUME Len(a) <= Len(p), \A i \in 1..Len(a) : a[i] = p[i]
      PROVE  SubSeq(p, 1, Len(a)) = a
  BY <1>1, <1>2, SeqEqual DEF Path
<1> QED
  BY <1>1, <1>2 DEF withinOrEqual

\* The prefixes of a path are a chain.
LEMMA PrefixSelf == ASSUME NEW p \in Path PROVE withinOrEqual(p, p) /\ pathsOverlap(p, p)
BY PrefixMeans DEF pathsOverlap, Path

LEMMA PrefixTrans ==
  ASSUME NEW a \in Path, NEW b \in Path, NEW c \in Path, withinOrEqual(a, b), withinOrEqual(b, c)
  PROVE  withinOrEqual(a, c)
<1>1. Len(a) \in Nat /\ Len(b) \in Nat /\ Len(c) \in Nat
  BY DEF Path
<1>2. /\ Len(a) <= Len(b) /\ \A i \in 1..Len(a) : a[i] = b[i]
      /\ Len(b) <= Len(c) /\ \A i \in 1..Len(b) : b[i] = c[i]
  BY PrefixMeans
<1>3. Len(a) <= Len(c) /\ \A i \in 1..Len(a) : a[i] = c[i]
  BY <1>1, <1>2
<1> QED
  BY <1>3, PrefixMeans

LEMMA PrefixChain ==
  ASSUME NEW a \in Path, NEW b \in Path, NEW p \in Path, withinOrEqual(a, p), withinOrEqual(b, p)
  PROVE  /\ Len(a) <= Len(b) => withinOrEqual(a, b)
         /\ pathsOverlap(a, b)
<1>1. Len(a) \in Nat /\ Len(b) \in Nat /\ Len(p) \in Nat
  BY DEF Path
<1>2. /\ Len(a) <= Len(p) /\ \A i \in 1..Len(a) : a[i] = p[i]
      /\ Len(b) <= Len(p) /\ \A i \in 1..Len(b) : b[i] = p[i]
  BY PrefixMeans
<1>3. ASSUME Len(a) <= Len(b) PROVE withinOrEqual(a, b)
  <2>1. \A i \in 1..Len(a) : a[i] = b[i]
    BY <1>1, <1>2, <1>3
  <2> QED
    BY <1>3, <2>1, PrefixMeans
<1>4. ASSUME Len(b) <= Len(a) PROVE withinOrEqual(b, a)
  <2>1. \A i \in 1..Len(b) : b[i] = a[i]
    BY <1>1, <1>2, <1>4
  <2> QED
    BY <1>4, <2>1, PrefixMeans
<1> QED
  BY <1>1, <1>3, <1>4 DEF pathsOverlap

\* A prefix is no longer, and equal when as long.
LEMMA PrefixLength ==
  ASSUME NEW a \in Path, NEW p \in Path, withinOrEqual(a, p)
  PROVE  /\ Len(a) \in Nat /\ Len(p) \in Nat /\ Len(a) <= Len(p)
         /\ Len(a) = Len(p) => a = p
         /\ withinOrEqual(p, a) => a = p
<1>1. Len(a) \in Nat /\ Len(p) \in Nat /\ Len(a) <= Len(p) /\ \A i \in 1..Len(a) : a[i] = p[i]
  BY PrefixMeans DEF Path
<1>2. Len(a) = Len(p) => a = p
  BY <1>1, SeqEqual DEF Path
<1>3. withinOrEqual(p, a) => Len(p) <= Len(a)
  BY PrefixMeans
<1> QED
  BY <1>1, <1>2, <1>3

\* The first n names of a path.
LEMMA Prefix ==
  ASSUME NEW p \in Path, NEW n \in 0..Len(p)
  PROVE  /\ SubSeq(p, 1, n) \in Path /\ Len(SubSeq(p, 1, n)) = n
         /\ withinOrEqual(SubSeq(p, 1, n), p)
         /\ \A i \in 1..n : SubSeq(p, 1, n)[i] = p[i]
<1>1. Len(p) \in Nat /\ n \in Nat /\ n <= Len(p)
  BY DEF Path
<1>2. \A i \in 1..n : p[i] \in Alphabet
  BY <1>1 DEF Path
<1>3. /\ SubSeq(p, 1, n) \in Seq(Alphabet)
      /\ Len(SubSeq(p, 1, n)) = IF 1 <= n THEN n - 1 + 1 ELSE 0
      /\ \A i \in 1 .. n - 1 + 1 : SubSeq(p, 1, n)[i] = p[1 + i - 1]
  BY <1>1, <1>2, SubSeqProperties
<1>4. SubSeq(p, 1, n) \in Path /\ Len(SubSeq(p, 1, n)) = n /\ \A i \in 1..n : SubSeq(p, 1, n)[i] = p[i]
  BY <1>1, <1>3 DEF Path
<1>5. withinOrEqual(SubSeq(p, 1, n), p)
  BY <1>1, <1>4, PrefixMeans
<1> QED
  BY <1>4, <1>5

\* The directory of a path.
LEMMA DirMeans ==
  ASSUME NEW p \in Path, p # <<>>
  PROVE  /\ Dir(p) \in Path /\ Len(Dir(p)) = Len(p) - 1 /\ Len(p) \in Nat \ {0}
         /\ withinOrEqual(Dir(p), p) /\ Dir(p) # p
         /\ Base(p) = p[Len(p)] /\ Base(p) \in Alphabet
         /\ \A a \in Path : withinOrEqual(a, p) /\ a # p => withinOrEqual(a, Dir(p))
<1>1. Len(p) \in Nat \ {0} /\ Len(p) - 1 \in Nat
  BY EmptySeq DEF Path
<1>2. Len(p) - 1 \in 0..Len(p)
  BY <1>1
<1>4. Dir(p) \in Path /\ Len(Dir(p)) = Len(p) - 1 /\ \A i \in 1 .. Len(p) - 1 : Dir(p)[i] = p[i]
  BY <1>1, <1>2, Prefix DEF Dir, Front
<1>5. withinOrEqual(Dir(p), p) /\ Dir(p) # p
  BY <1>1, <1>4, PrefixMeans
<1>6. Base(p) = p[Len(p)] /\ Base(p) \in Alphabet
  BY <1>1 DEF Base, Last, Path
<1>7. ASSUME NEW a \in Path, withinOrEqual(a, p), a # p PROVE withinOrEqual(a, Dir(p))
  <2>1. Len(a) \in Nat /\ Len(a) <= Len(p) /\ Len(a) # Len(p)
    BY <1>7, PrefixLength
  <2>2. Len(a) <= Len(Dir(p))
    BY <2>1, <1>1, <1>4
  <2> QED
    BY <2>2, <1>4, <1>5, <1>7, PrefixChain
<1> QED
  BY <1>1, <1>4, <1>5, <1>6, <1>7

LEMMA PrefixIs ==
  ASSUME NEW a \in Path, NEW p \in Path, withinOrEqual(a, p)
  PROVE  Len(a) \in 0..Len(p) /\ a = SubSeq(p, 1, Len(a))
<1>1. Len(a) \in 0..Len(p)
  BY PrefixLength
<1> QED
  BY <1>1 DEF withinOrEqual

\* The ancestors of a path are its proper prefixes.
LEMMA AncestorsMeans ==
  ASSUME NEW p \in Path, NEW a
  PROVE  a \in Ancestors(p) <=> a \in Path /\ withinOrEqual(a, p) /\ a # p
<1>1. Len(p) \in Nat
  BY DEF Path
<1>2. ASSUME a \in Ancestors(p) PROVE a \in Path /\ withinOrEqual(a, p) /\ a # p
  <2>1. PICK n \in 0 .. Len(p) - 1 : a = SubSeq(p, 1, n)
    BY <1>2 DEF Ancestors
  <2>2. n \in 0..Len(p) /\ n # Len(p)
    BY <1>1, <2>1
  <2> QED
    BY <2>1, <2>2, Prefix
<1>3. ASSUME a \in Path, withinOrEqual(a, p), a # p PROVE a \in Ancestors(p)
  <2>1. Len(a) \in 0 .. Len(p) - 1
    BY <1>1, <1>3, PrefixLength
  <2> QED
    BY <2>1, <1>3, PrefixIs DEF Ancestors
<1> QED
  BY <1>2, <1>3

\* The next component on the way from a to p.
LEMMA ChildToward ==
  ASSUME NEW a \in Path, NEW p \in Path, withinOrEqual(a, p), a # p
  PROVE  \E c \in Path : /\ c # <<>> /\ Dir(c) = a /\ withinOrEqual(a, c) /\ withinOrEqual(c, p)
                         /\ Len(c) = Len(a) + 1 /\ c # a
<1>1. Len(a) \in Nat /\ Len(p) \in Nat /\ Len(a) < Len(p)
  BY PrefixLength
<1> DEFINE c == SubSeq(p, 1, Len(a) + 1)
<1>2. c \in Path /\ Len(c) = Len(a) + 1 /\ withinOrEqual(c, p)
  BY <1>1, Prefix
<1> HIDE DEF c
<1>3. c # <<>>
  BY <1>1, <1>2
<1>4. withinOrEqual(a, c) /\ a # c
  BY <1>1, <1>2, PrefixChain
<1>5. Dir(c) \in Path /\ Len(Dir(c)) = Len(a) /\ withinOrEqual(a, Dir(c))
  BY <1>1, <1>2, <1>3, <1>4, DirMeans
<1>6. a = Dir(c)
  BY <1>5, PrefixLength
<1> QED
  BY <1>2, <1>3, <1>4, <1>6

\* Spelling keeps a path a path of its length, and prefixes prefixes.
Table == [Alphabet -> Alphabet]
LEMMA SpelledMeans ==
  ASSUME NEW table \in Table, NEW p \in Path
  PROVE  Spelled(table, p) \in Path /\ Len(Spelled(table, p)) = Len(p) /\ Len(p) \in Nat
<1>1. Len(p) \in Nat /\ \A i \in 1..Len(p) : table[p[i]] \in Alphabet
  BY DEF Path, Table
<1>2. Spelled(table, p) \in [1..Len(p) -> Alphabet]
  BY <1>1 DEF Spelled
<1>3. Spelled(table, p) \in Seq(Alphabet)
  BY <1>1, <1>2, SeqDef
<1> QED
  BY <1>1, <1>2, <1>3, LenProperties DEF Path

LEMMA SpelledPrefix ==
  ASSUME NEW table \in Table, NEW a \in Path, NEW p \in Path, withinOrEqual(a, p)
  PROVE  withinOrEqual(Spelled(table, a), Spelled(table, p))
<1>1. Len(a) \in Nat /\ Len(p) \in Nat /\ Len(a) <= Len(p) /\ \A i \in 1..Len(a) : a[i] = p[i]
  BY PrefixMeans DEF Path
<1>2. \A i \in 1..Len(a) : Spelled(table, a)[i] = Spelled(table, p)[i]
  BY <1>1 DEF Spelled
<1> QED
  BY <1>1, <1>2, SpelledMeans, PrefixMeans

\* The same of a pattern and what is compared with it.
LEMMA PatternMeans ==
  ASSUME NEW p \in Path, NEW form \in {NFC, NFD}
  PROVE  LET word == AsciiPath(Spelled(form, p))
         IN  /\ word \in Path /\ Len(word) = Len(p) /\ Len(p) \in Nat
             /\ AsciiPath(p) \in Path /\ Len(AsciiPath(p)) = Len(p)
             /\ \A a \in Path : withinOrEqual(a, p) => withinOrEqual(AsciiPath(Spelled(form, a)), word)
<1>1. form \in Table /\ AsciiFold \in Table
  BY PathsAssumption DEF Table
<1>2. Spelled(form, p) \in Path /\ Len(Spelled(form, p)) = Len(p) /\ Len(p) \in Nat
  BY <1>1, SpelledMeans
<1>3. /\ AsciiPath(Spelled(form, p)) \in Path
      /\ Len(AsciiPath(Spelled(form, p))) = Len(Spelled(form, p))
      /\ AsciiPath(p) \in Path /\ Len(AsciiPath(p)) = Len(p)
  BY <1>1, <1>2, SpelledMeans DEF AsciiPath
<1>4. ASSUME NEW a \in Path, withinOrEqual(a, p)
      PROVE  withinOrEqual(AsciiPath(Spelled(form, a)), AsciiPath(Spelled(form, p)))
  <2>1. Spelled(form, a) \in Path
    BY <1>1, SpelledMeans
  <2>2. withinOrEqual(Spelled(form, a), Spelled(form, p))
    BY <1>1, <1>4, SpelledPrefix
  <2>3. ASSUME NEW x \in Path, NEW y \in Path, withinOrEqual(x, y)
        PROVE  withinOrEqual(AsciiPath(x), AsciiPath(y))
    BY <1>1, <2>3, SpelledPrefix DEF AsciiPath
  <2> QED
    BY <1>2, <2>1, <2>2, <2>3
<1> QED
  BY <1>2, <1>3, <1>4

\* The paths of the instance.
LEMMA PathsAre ==
  /\ Paths \subseteq Path /\ <<>> \notin Paths /\ <<>> \in Path
  /\ NoPath \notin Path /\ NoPath \notin Paths /\ NoPath # <<>>
<1>1. NoPath \notin Seq(Alphabet)
  <2>1. Len(NoPath) = 1 /\ NoPath[1] = "?"
    BY DEF NoPath
  <2>2. "?" \notin Alphabet
    BY PathsAssumption
  <2> QED
    BY <2>1, <2>2, ElementOfSeq
<1> QED
  BY <1>1, PathsAssumption DEF Path, NoPath

\* What is above a path of the instance is the root or one of them.
LEMMA PrefixOfPaths ==
  ASSUME NEW p \in Paths, NEW a \in Path, withinOrEqual(a, p)
  PROVE  a = <<>> \/ a \in Paths
BY PathsAre, PathsAssumption, AncestorsMeans

-----------------------------------------------------------------------------
(* Launch authority: the disk                                               *)

\* A set of numbers has a least member.
LEMMA LeastOf ==
  ASSUME NEW T, T \subseteq Nat, T # {}
  PROVE  \E n \in T : \A m \in T : n <= m
<1>1. PICK n \in T : \A m \in T : ~ (<<m, n>> \in OpToRel(<, Nat))
  BY NatLessThanWellFounded, WFMin
<1>2. ASSUME NEW m \in T PROVE n <= m
  <2>1. ~ (m < n)
    BY <1>1, <1>2 DEF OpToRel
  <2> QED
    BY <2>1
<1> QED
  BY <1>1, <1>2

\* The recursion of Traversal defines what it says.
Walked(f, p, m) == \E h : h = [n \in 0..m |-> IF n = 0 THEN <<>> ELSE hop(f, h[n-1], p[n])]

LEMMA TraversalExists ==
  ASSUME NEW f, NEW p, Len(p) \in Nat, NEW m \in 0..Len(p)
  PROVE  Walked(f, p, m)
<1> DEFINE Good(k) == \E h : h = [n \in 0..k |-> IF n = 0 THEN <<>> ELSE hop(f, h[n-1], p[n])]
           T == {k \in 0..Len(p) : ~Good(k)}
<1>1. Len(p) \in Nat
  OBVIOUS
<1>2. Good(0)
  <2> DEFINE h == [n \in 0..0 |-> <<>>]
  <2>1. h = [n \in 0..0 |-> IF n = 0 THEN <<>> ELSE hop(f, h[n-1], p[n])]
    OBVIOUS
  <2> HIDE DEF h
  <2> QED
    BY <2>1
<1>3. ASSUME NEW k \in Nat, k # 0, Good(k-1) PROVE Good(k)
  <2>1. PICK g : g = [n \in 0..(k-1) |-> IF n = 0 THEN <<>> ELSE hop(f, g[n-1], p[n])]
    BY <1>3
  <2> DEFINE h == [n \in 0..k |-> IF n = k THEN hop(f, g[k-1], p[k]) ELSE g[n]]
  <2>2. \A n \in 0..(k-1) : h[n] = g[n]
    BY <1>3
  <2>3. ASSUME NEW n \in 0..k PROVE h[n] = IF n = 0 THEN <<>> ELSE hop(f, h[n-1], p[n])
    <3>1. CASE n = k
      <4>1. h[n] = hop(f, g[k-1], p[k]) /\ k-1 \in 0..(k-1)
        BY <3>1, <1>3
      <4> HIDE DEF h
      <4> QED
        BY <4>1, <3>1, <2>2, <1>3
    <3>2. CASE n # k
      <4>1. n \in 0..(k-1)
        BY <3>2, <1>3
      <4>2. g[n] = IF n = 0 THEN <<>> ELSE hop(f, g[n-1], p[n])
        BY <2>1, <4>1
      <4>3. n # 0 => n-1 \in 0..(k-1)
        BY <4>1
      <4> HIDE DEF h
      <4> QED
        BY <2>2, <4>1, <4>2, <4>3
    <3> QED
      BY <3>1, <3>2
  <2>4. h = [n \in 0..k |-> h[n]]
    OBVIOUS
  <2> HIDE DEF h
  <2>5. h = [n \in 0..k |-> IF n = 0 THEN <<>> ELSE hop(f, h[n-1], p[n])]
    BY <2>3, <2>4
  <2> QED
    BY <2>5
<1>4. ASSUME T # {} PROVE FALSE
  <2>1. T \subseteq Nat
    OBVIOUS
  <2>2. PICK k \in T : \A j \in T : k <= j
    BY <1>4, <2>1, LeastOf
  <2>3. k \in Nat /\ k <= Len(p) /\ ~Good(k)
    BY <1>1, <2>2
  <2>4. k # 0
    BY <2>3, <1>2
  <2>5. k-1 \in 0..Len(p) /\ ~(k <= k-1)
    BY <1>1, <2>3, <2>4
  <2>6. Good(k-1)
    BY <2>2, <2>5
  <2> QED
    BY <1>3, <2>3, <2>4, <2>6
<1>5. Good(m)
  BY <1>4
<1> QED
  BY <1>5 DEF Walked

LEMMA TraversalIs ==
  ASSUME NEW f, NEW p, Len(p) \in Nat
  PROVE  /\ Traversal(f, p)[0] = <<>>
         /\ \A n \in 1..Len(p) : Traversal(f, p)[n] = hop(f, Traversal(f, p)[n-1], p[n])
<1>1. Len(p) \in Nat /\ Len(p) \in 0..Len(p)
  OBVIOUS
<1>2. \E h : h = [n \in 0..Len(p) |-> IF n = 0 THEN <<>> ELSE hop(f, h[n-1], p[n])]
  <2>1. Walked(f, p, Len(p))
    BY <1>1, TraversalExists
  <2> QED
    BY <2>1 DEF Walked
<1>3. Traversal(f, p) = CHOOSE h : h = [n \in 0..Len(p) |-> IF n = 0 THEN <<>> ELSE hop(f, h[n-1], p[n])]
  BY DEF Traversal
<1> DEFINE t == Traversal(f, p)
<1>4. t = [n \in 0..Len(p) |-> IF n = 0 THEN <<>> ELSE hop(f, t[n-1], p[n])]
  BY <1>2, <1>3
<1> HIDE DEF t
<1>5. t[0] = <<>> /\ \A n \in 1..Len(p) : t[n] = hop(f, t[n-1], p[n])
  BY <1>1, <1>4
<1> QED
  BY <1>5 DEF t

\* What exists is a path, below directories.
LEMMA NodesAre ==
  ASSUME NEW f, WellFormed(f), NEW p
  PROVE  /\ Exists(f, p) => p \in Path /\ (p = <<>> \/ p \in Paths)
         /\ p \in Paths => Node(f, p) = f[p] /\ f[p] \in Nodes
         /\ IsDir(f, <<>>) /\ Exists(f, <<>>)
         /\ IsDir(f, p) => Exists(f, p)
         /\ Node(f, p).kind = "file" => Exists(f, p) /\ p \in Paths
         /\ p \in Paths /\ Exists(f, p) => f[p].ino # <<>> /\ IsDir(f, Dir(p))
BY PathsAre DEF WellFormed, Exists, IsDir, Node, Absent

\* Above what exists everything is a directory.
LEMMA AncestorsAreDirs ==
  ASSUME NEW f, WellFormed(f), NEW p, Exists(f, p), NEW a \in Path, withinOrEqual(a, p), a # p
  PROVE  IsDir(f, a)
<1>1. p \in Path
  BY NodesAre
<1>2. Len(p) \in Nat /\ Len(a) \in Nat /\ Len(a) < Len(p) /\ a = SubSeq(p, 1, Len(a))
  BY <1>1, PrefixLength, PrefixIs
<1> DEFINE up(k) == SubSeq(p, 1, Len(p) - k)
           T == {k \in 1..Len(p) : ~IsDir(f, up(k))}
<1>3. ASSUME T # {} PROVE FALSE
  <2>1. T \subseteq Nat
    OBVIOUS
  <2>2. PICK k \in T : \A j \in T : k <= j
    BY <1>3, <2>1, LeastOf
  <2>3. k \in 1..Len(p) /\ ~IsDir(f, up(k)) /\ k-1 \in 0..Len(p) /\ k-1 \notin T
    <3>1. k \in Nat /\ ~(k <= k-1)
      BY <2>2
    <3> QED
      BY <1>2, <2>2, <3>1
  <2>4. Exists(f, up(k-1))
    <3>1. CASE k = 1
      <4>1. up(k-1) = p
        BY <1>1, <1>2, <3>1, PrefixSelf, PrefixIs
      <4> QED
        BY <4>1
    <3>2. CASE k # 1
      <4>1. k-1 \in 1..Len(p)
        BY <2>3, <3>2
      <4>2. IsDir(f, up(k-1))
        BY <4>1, <2>3
      <4> HIDE DEF up
      <4> QED
        BY <4>2, NodesAre
    <3> QED
      BY <3>1, <3>2
  <2>5. Len(p) - (k-1) \in 0..Len(p) /\ Len(p) - k \in 0..Len(p) /\ Len(p) - (k-1) # 0
    BY <1>2, <2>3
  <2>6. /\ up(k-1) \in Path /\ Len(up(k-1)) = Len(p) - (k-1) /\ withinOrEqual(up(k-1), p)
        /\ up(k) \in Path /\ Len(up(k)) = Len(p) - k /\ withinOrEqual(up(k), p)
    BY <1>1, <2>5, Prefix
  <2> HIDE DEF up
  <2>7. up(k-1) # <<>>
    BY <2>5, <2>6
  <2>8. IsDir(f, Dir(up(k-1)))
    BY <2>4, <2>7, NodesAre
  <2>9. up(k) = Dir(up(k-1))
    <3>0. (Len(p) - (k-1)) - 1 = Len(p) - k
      BY <1>2, <2>3
    <3>1. Dir(up(k-1)) \in Path /\ Len(Dir(up(k-1))) = Len(p) - k /\ withinOrEqual(Dir(up(k-1)), up(k-1))
      <4>1. Len(Dir(up(k-1))) = Len(up(k-1)) - 1
        BY <2>6, <2>7, DirMeans
      <4>2. Len(Dir(up(k-1))) = Len(p) - k
        BY <4>1, <3>0, <2>6
      <4> QED
        BY <4>2, <2>6, <2>7, DirMeans
    <3>2. withinOrEqual(Dir(up(k-1)), p)
      BY <3>1, <2>6, <1>1, PrefixTrans
    <3>3. withinOrEqual(up(k), Dir(up(k-1)))
      BY <3>1, <3>2, <2>6, <1>1, <1>2, <2>3, PrefixChain
    <3> QED
      BY <3>1, <3>3, <2>6, PrefixLength
  <2> QED
    BY <2>3, <2>8, <2>9
<1>4. Len(p) - Len(a) \in 1..Len(p) /\ Len(p) - (Len(p) - Len(a)) = Len(a)
  BY <1>2
<1>5. IsDir(f, up(Len(p) - Len(a)))
  BY <1>3, <1>4
<1> QED
  BY <1>2, <1>4, <1>5

\* What EvalSymlinks returns.
LEMMA HopIs ==
  ASSUME NEW f, WellFormed(f), NEW r, NEW n
  PROVE  hop(f, r, n) = NoPath \/ Exists(f, hop(f, r, n))
BY DEF hop

\* EvalSymlinks finds something that exists, or nothing.
LEMMA EvalIs ==
  ASSUME NEW f, WellFormed(f), NEW p \in Path
  PROVE  \/ EvalSymlinks(f, p) = NoPath
         \/ /\ Exists(f, EvalSymlinks(f, p)) /\ EvalSymlinks(f, p) \in Path
            /\ EvalSymlinks(f, p) # NoPath
<1>1. Len(p) \in Nat
  BY DEF Path
<1>2. CASE Len(p) = 0
  <2>1. EvalSymlinks(f, p) = <<>>
    BY <1>1, <1>2, TraversalIs DEF EvalSymlinks
  <2> QED
    BY <2>1, NodesAre, PathsAre
<1>3. CASE Len(p) # 0
  <2>1. Len(p) \in 1..Len(p)
    BY <1>1, <1>3
  <2>2. EvalSymlinks(f, p) = hop(f, Traversal(f, p)[Len(p) - 1], p[Len(p)])
    BY <2>1, TraversalIs DEF EvalSymlinks
  <2> QED
    BY <2>2, HopIs, NodesAre, PathsAre
<1> QED
  BY <1>2, <1>3

\* EvalSymlinks walks one component at a time.
LEMMA TraversalPrefix ==
  ASSUME NEW f, NEW p \in Path, NEW k \in 0..Len(p)
  PROVE  Traversal(f, SubSeq(p, 1, k))[k] = Traversal(f, p)[k]
<1> DEFINE a == SubSeq(p, 1, k)
           T == {n \in 0..k : Traversal(f, a)[n] # Traversal(f, p)[n]}
<1>1. /\ Len(p) \in Nat /\ k \in Nat /\ k <= Len(p)
      /\ a \in Path /\ Len(a) = k /\ \A i \in 1..k : a[i] = p[i]
  BY Prefix DEF Path
<1>2. ASSUME T # {} PROVE FALSE
  <2>1. T \subseteq Nat
    OBVIOUS
  <2>2. PICK n \in T : \A m \in T : n <= m
    BY <1>2, <2>1, LeastOf
  <2>3. n \in 0..k /\ Traversal(f, a)[n] # Traversal(f, p)[n]
    BY <2>2
  <2> HIDE DEF a
  <2>4. n # 0
    BY <2>3, <1>1, TraversalIs
  <2>5. n \in 1..Len(a) /\ n \in 1..Len(p) /\ n-1 \in 0..k /\ ~(n <= n-1)
    BY <1>1, <2>3, <2>4
  <2>6. Traversal(f, a)[n-1] = Traversal(f, p)[n-1]
    BY <2>2, <2>5
  <2>7. a[n] = p[n]
    BY <1>1, <2>5
  <2>8. /\ Traversal(f, a)[n] = hop(f, Traversal(f, a)[n-1], a[n])
        /\ Traversal(f, p)[n] = hop(f, Traversal(f, p)[n-1], p[n])
    BY <1>1, <2>5, TraversalIs
  <2> QED
    BY <2>3, <2>6, <2>7, <2>8
<1> QED
  BY <1>1, <1>2

LEMMA EvalStep ==
  ASSUME NEW f, NEW p \in Path, p # <<>>
  PROVE  EvalSymlinks(f, p) = hop(f, EvalSymlinks(f, Dir(p)), Base(p))
<1>1. /\ Dir(p) \in Path /\ Len(Dir(p)) = Len(p) - 1 /\ Len(p) \in Nat \ {0} /\ Base(p) = p[Len(p)]
      /\ withinOrEqual(Dir(p), p)
  BY DirMeans
<1>2. Len(p) - 1 \in 0..Len(p) /\ Len(p) \in 1..Len(p) /\ Dir(p) = SubSeq(p, 1, Len(p) - 1)
  BY <1>1, PrefixIs
<1>3. Traversal(f, Dir(p))[Len(p) - 1] = Traversal(f, p)[Len(p) - 1]
  BY <1>2, TraversalPrefix
<1>4. Traversal(f, p)[Len(p)] = hop(f, Traversal(f, p)[Len(p) - 1], p[Len(p)])
  BY <1>2, TraversalIs
<1> QED
  BY <1>1, <1>3, <1>4 DEF EvalSymlinks

\* A path without links is its own canonical path.
LEMMA EvalCanonical ==
  ASSUME NEW f, WellFormed(f), NEW p, Exists(f, p), Node(f, p).kind # "link"
  PROVE  p \in Path /\ EvalSymlinks(f, p) = p
<1>1. p \in Path /\ Len(p) \in Nat
  BY NodesAre DEF Path
<1> DEFINE T == {n \in 0..Len(p) : EvalSymlinks(f, SubSeq(p, 1, n)) # SubSeq(p, 1, n)}
<1>2. ASSUME T # {} PROVE FALSE
  <2>1. T \subseteq Nat
    OBVIOUS
  <2>2. PICK n \in T : \A m \in T : n <= m
    BY <1>2, <2>1, LeastOf
  <2> DEFINE q == SubSeq(p, 1, n)
  <2>3. n \in 0..Len(p) /\ EvalSymlinks(f, q) # q /\ n \in Nat
    BY <2>2
  <2>4. q \in Path /\ Len(q) = n /\ withinOrEqual(q, p)
    BY <1>1, <2>3, Prefix
  <2> HIDE DEF q
  <2>5. q # <<>>
    <3>1. ASSUME q = <<>> PROVE FALSE
      <4>1. EvalSymlinks(f, q) = <<>>
        BY <3>1, <2>4, TraversalIs DEF EvalSymlinks
      <4> QED
        BY <4>1, <3>1, <2>3
    <3> QED
      BY <3>1
  <2>6. /\ Dir(q) \in Path /\ Len(Dir(q)) = n-1 /\ n # 0 /\ withinOrEqual(Dir(q), q) /\ Dir(q) # q
        /\ Base(q) = q[n] /\ Base(q) \in Alphabet
    BY <2>4, <2>5, DirMeans
  <2>7. withinOrEqual(Dir(q), p)
    BY <2>4, <2>6, <1>1, PrefixTrans
  <2>8. n-1 \in 0..Len(p) /\ ~(n <= n-1) /\ Dir(q) = SubSeq(p, 1, n-1)
    BY <2>3, <2>6, <2>7, <1>1, PrefixIs
  <2>9. EvalSymlinks(f, Dir(q)) = Dir(q)
    BY <2>2, <2>8
  <2>10. Exists(f, q) /\ Node(f, q).kind # "link"
    <3>1. CASE q = p
      BY <3>1
    <3>2. CASE q # p
      <4>1. IsDir(f, q)
        BY <3>2, <2>4, AncestorsAreDirs
      <4> QED
        BY <4>1 DEF IsDir, Exists
    <3> QED
      BY <3>1, <3>2
  <2>11. IsDir(f, Dir(q))
    BY <2>4, <2>6, <2>10, AncestorsAreDirs
  <2>12. Append(Dir(q), Base(q)) = q
    <3>1. /\ Append(Dir(q), Base(q)) \in Path /\ Len(Append(Dir(q), Base(q))) = n-1+1
          /\ \A i \in 1..(n-1) : Append(Dir(q), Base(q))[i] = Dir(q)[i]
          /\ Append(Dir(q), Base(q))[n-1+1] = Base(q)
      BY <2>6, AppendProperties DEF Path
    <3>2. \A i \in 1..(n-1) : Dir(q)[i] = q[i]
      BY <2>4, <2>6, PrefixMeans
    <3>3. \A i \in 1..n : Append(Dir(q), Base(q))[i] = q[i]
      BY <3>1, <3>2, <2>3, <2>6
    <3> QED
      BY <3>1, <3>3, <2>3, <2>4, SeqEqual DEF Path
  <2>13. Dir(q) # NoPath
    BY <2>6, PathsAre
  <2>14. EvalSymlinks(f, q) = hop(f, Dir(q), Base(q))
    BY <2>4, <2>5, <2>9, EvalStep
  <2>15. hop(f, Dir(q), Base(q)) = q
    BY <2>10, <2>11, <2>12, <2>13 DEF hop
  <2> QED
    BY <2>3, <2>14, <2>15
<1>3. p = SubSeq(p, 1, Len(p)) /\ Len(p) \in 0..Len(p)
  BY <1>1, PrefixSelf, PrefixIs
<1> QED
  BY <1>1, <1>2, <1>3

\* Below a name that leads nowhere nothing is found.
LEMMA EvalAbsent ==
  ASSUME NEW f, NEW a \in Path, NEW p \in Path, withinOrEqual(a, p), EvalSymlinks(f, a) = NoPath
  PROVE  EvalSymlinks(f, p) = NoPath
<1>1. Len(a) \in Nat /\ Len(p) \in Nat /\ Len(a) <= Len(p) /\ a = SubSeq(p, 1, Len(a)) /\ Len(a) \in 0..Len(p)
  BY PrefixLength, PrefixIs
<1> DEFINE T == {n \in Len(a)..Len(p) : Traversal(f, p)[n] # NoPath}
<1>2. Traversal(f, p)[Len(a)] = NoPath
  BY <1>1, TraversalPrefix DEF EvalSymlinks
<1>3. ASSUME T # {} PROVE FALSE
  <2>1. T \subseteq Nat
    BY <1>1
  <2>2. PICK n \in T : \A m \in T : n <= m
    BY <1>3, <2>1, LeastOf
  <2>3. n \in Len(a)..Len(p) /\ Traversal(f, p)[n] # NoPath /\ n \in Nat
    BY <1>1, <2>2
  <2>4. n # Len(a)
    BY <1>2, <2>3
  <2>5. n-1 \in Len(a)..Len(p) /\ ~(n <= n-1) /\ n \in 1..Len(p)
    <3>1. Len(a) \in Int /\ Len(p) \in Int /\ n \in Int /\ Len(a) <= n /\ n <= Len(p) /\ 0 <= Len(a)
      BY <1>1, <2>3
    <3> QED
      BY <3>1, <2>4
  <2>6. Traversal(f, p)[n-1] = NoPath
    BY <2>2, <2>5
  <2>7. Traversal(f, p)[n] = hop(f, NoPath, p[n])
    BY <2>5, <2>6, TraversalIs
  <2> QED
    BY <2>3, <2>7 DEF hop
<1>4. Len(p) \in Len(a)..Len(p)
  BY <1>1
<1> QED
  BY <1>3, <1>4 DEF EvalSymlinks

-----------------------------------------------------------------------------
(* Launch authority: what the Linux mounts mean                             *)

\* What compileLinuxFilesystemPlan checks of the authorities.
AuthoritiesSound(f, all, denied) ==
  /\ denied \subseteq Path
  /\ \A a \in all : /\ a.path \in Paths /\ Exists(f, a.path) /\ a.access \in {"ro", "rw"}
                    /\ \A d \in denied : /\ ~withinOrEqual(d, a.path)
                                         /\ a.access = "rw" => ~pathsOverlap(d, a.path)

\* The members of the mount lists.
LEMMA MountsAre ==
  ASSUME NEW f, NEW all, NEW denied, NEW q, q = LinuxMounts(f, all, denied), NEW m
  PROVE  /\ q.os = "linux"
         /\ m \in q.readonly \cup q.writable <=> \E a \in all : m \in Bound(f, denied, a)
         /\ m \in q.writable <=> \E a \in all : m \in Bound(f, denied, a) /\ UnionAccess(all, a, m) = "rw"
         /\ m \in q.rebuilt <=> \E a \in all : m \in Rebuilt(f, denied, a)
<1> DEFINE binds == UNION {{[path |-> p, access |-> UnionAccess(all, a, p)] :
                              p \in Bound(f, denied, a)} : a \in all}
           writable == {b.path : b \in {c \in binds : c.access = "rw"}}
<1>1. /\ q.os = "linux" /\ q.writable = writable /\ q.readonly = {b.path : b \in binds} \ writable
      /\ q.rebuilt = UNION {Rebuilt(f, denied, a) : a \in all}
  BY DEF LinuxMounts
<1>2. ASSUME NEW b, b \in binds
      PROVE  \E a \in all : /\ b.path \in Bound(f, denied, a)
                            /\ b = [path |-> b.path, access |-> UnionAccess(all, a, b.path)]
  BY <1>2
<1>3. ASSUME NEW a \in all, m \in Bound(f, denied, a)
      PROVE  [path |-> m, access |-> UnionAccess(all, a, m)] \in binds
  BY <1>3
<1> HIDE DEF binds
<1>4. m \in writable <=> \E a \in all : m \in Bound(f, denied, a) /\ UnionAccess(all, a, m) = "rw"
  <2>1. ASSUME m \in writable PROVE \E a \in all : m \in Bound(f, denied, a) /\ UnionAccess(all, a, m) = "rw"
    <3>1. PICK b \in binds : b.access = "rw" /\ m = b.path
      BY <2>1
    <3>2. PICK a \in all : /\ b.path \in Bound(f, denied, a)
                           /\ b = [path |-> b.path, access |-> UnionAccess(all, a, b.path)]
      BY <1>2, <3>1
    <3> QED
      BY <3>1, <3>2
  <2>2. ASSUME NEW a \in all, m \in Bound(f, denied, a), UnionAccess(all, a, m) = "rw" PROVE m \in writable
    <3>1. [path |-> m, access |-> UnionAccess(all, a, m)] \in binds
      BY <1>3, <2>2
    <3> QED
      BY <2>2, <3>1
  <2> QED
    BY <2>1, <2>2
<1>5. m \in {b.path : b \in binds} <=> \E a \in all : m \in Bound(f, denied, a)
  <2>1. ASSUME m \in {b.path : b \in binds} PROVE \E a \in all : m \in Bound(f, denied, a)
    BY <1>2, <2>1
  <2>2. ASSUME NEW a \in all, m \in Bound(f, denied, a) PROVE m \in {b.path : b \in binds}
    <3>1. [path |-> m, access |-> UnionAccess(all, a, m)] \in binds
      BY <1>3, <2>2
    <3> QED
      BY <3>1
  <2> QED
    BY <2>1, <2>2
<1> HIDE DEF writable
<1> QED
  BY <1>1, <1>4, <1>5

\* A mount exists, hangs below an authority and is nothing denied; a rebuilt
\* directory leads to a denial, a bound one does not.
LEMMA MountsStand ==
  ASSUME NEW f, WellFormed(f), NEW all, NEW denied, AuthoritiesSound(f, all, denied),
         NEW a \in all, NEW m
  PROVE  /\ m \in Rebuilt(f, denied, a) =>
              /\ m \in Paths /\ IsDir(f, m) /\ withinOrEqual(a.path, m) /\ ~Under(denied, m)
              /\ \E d \in denied : pathWithin(m, d)
         /\ m \in Bound(f, denied, a) =>
              /\ m \in Paths /\ Exists(f, m) /\ withinOrEqual(a.path, m) /\ ~Under(denied, m)
              /\ ~(IsDir(f, m) /\ \E d \in denied : pathWithin(m, d))
<1>1. a.path \in Paths /\ a.path \in Path
  BY PathsAre DEF AuthoritiesSound
<1>2. ASSUME m \in Bound(f, denied, a)
      PROVE  m \in Paths /\ Exists(f, m) /\ withinOrEqual(a.path, m) /\ ~Under(denied, m)
             /\ m \notin Rebuilt(f, denied, a)
  <2>1. /\ m = a.path \/ (m \in Paths /\ Dir(m) \in Rebuilt(f, denied, a))
        /\ m \notin Rebuilt(f, denied, a) /\ Exists(f, m) /\ ~Under(denied, m)
    BY <1>2 DEF Bound
  <2>2. CASE m = a.path
    BY <1>1, <2>1, <2>2, PrefixSelf
  <2>3. CASE m \in Paths /\ Dir(m) \in Rebuilt(f, denied, a)
    <3>1. withinOrEqual(a.path, Dir(m))
      BY <2>3 DEF Rebuilt
    <3>2. m \in Path /\ m # <<>>
      BY <2>3, PathsAre
    <3>3. Dir(m) \in Path /\ withinOrEqual(Dir(m), m)
      BY <3>2, DirMeans
    <3>4. withinOrEqual(a.path, m)
      BY <1>1, <3>1, <3>2, <3>3, PrefixTrans
    <3> QED
      BY <2>1, <2>3, <3>4
  <2> QED
    BY <2>1, <2>2, <2>3
<1>3. m \in Bound(f, denied, a) => ~(IsDir(f, m) /\ \E d \in denied : pathWithin(m, d))
  BY <1>2 DEF Rebuilt
<1> QED
  BY <1>2, <1>3 DEF Rebuilt

\* An existing path below an authority is covered by a mount.
LEMMA MountAbove ==
  ASSUME NEW f, WellFormed(f), NEW all, NEW denied, AuthoritiesSound(f, all, denied),
         NEW a \in all, NEW q, q = LinuxMounts(f, all, denied)
  PROVE  /\ a.path \in q.readonly \cup q.writable \cup q.rebuilt
         /\ \A c \in Paths : Exists(f, c) /\ Dir(c) \in Rebuilt(f, denied, a) /\ ~Under(denied, c)
                             => c \in q.readonly \cup q.writable \cup q.rebuilt
<1>1. a.path \in Paths /\ Exists(f, a.path) /\ ~Under(denied, a.path)
  BY DEF AuthoritiesSound, Under
<1>2. a.path \in Bound(f, denied, a) \/ a.path \in Rebuilt(f, denied, a)
  BY <1>1 DEF Bound
<1>3. ASSUME NEW c \in Paths, Exists(f, c), Dir(c) \in Rebuilt(f, denied, a), ~Under(denied, c)
      PROVE  c \in Bound(f, denied, a) \/ c \in Rebuilt(f, denied, a)
  BY <1>3 DEF Bound
<1> QED
  BY <1>2, <1>3, MountsAre

\* Where a mount covers a path, a deepest one does.
LEMMA DeepestMount ==
  ASSUME NEW q, NEW p \in Path, NEW m0 \in Path, withinOrEqual(m0, p),
         m0 \in q.readonly \cup q.writable \cup q.rebuilt,
         \A n \in q.readonly \cup q.writable \cup q.rebuilt : n \in Path
  PROVE  \E m \in Covering(q, p) : /\ m \in Path /\ withinOrEqual(m, p) /\ withinOrEqual(m0, m)
                                   /\ m \in q.readonly \cup q.writable \cup q.rebuilt
<1> DEFINE M == q.readonly \cup q.writable \cup q.rebuilt
           above == {m \in M : withinOrEqual(m, p)}
           T == {Len(p) - Len(m) : m \in above}
<1>1. \A m \in above : m \in Path /\ Len(m) \in Nat /\ Len(p) \in Nat /\ Len(m) <= Len(p)
  BY PrefixLength
<1>2. m0 \in above
  OBVIOUS
<1>3. T \subseteq Nat /\ T # {}
  <2> HIDE DEF above
  <2> QED
    BY <1>1, <1>2
<1>4. PICK t \in T : \A s \in T : t <= s
  BY <1>3, LeastOf
<1>5. PICK m \in above : t = Len(p) - Len(m)
  BY <1>4
<1> HIDE DEF above
<1>6. ASSUME NEW n \in above PROVE Len(n) <= Len(m)
  <2>1. t <= Len(p) - Len(n)
    BY <1>4, <1>6
  <2> QED
    BY <2>1, <1>1, <1>5, <1>6
<1>7. m \in Covering(q, p)
  BY <1>5, <1>6 DEF Covering, above
<1>8. m \in Path /\ withinOrEqual(m, p) /\ m \in M
  BY <1>5 DEF above
<1>9. withinOrEqual(m0, m)
  BY <1>2, <1>6, <1>8, PrefixChain
<1> QED
  BY <1>7, <1>8, <1>9

\* The Linux mounts give exactly what the authorities say: existing paths
\* below an authority and outside the denials can be read, and those below a
\* writable authority can be written.
LEMMA LinuxReadIs ==
  ASSUME NEW f, WellFormed(f), NEW all, NEW denied, AuthoritiesSound(f, all, denied),
         NEW q, q = LinuxMounts(f, all, denied), NEW p \in Path
  PROVE  /\ LinuxRead(q, f, p) => /\ Exists(f, p) /\ ~Under(denied, p)
                                  /\ \E a \in all : withinOrEqual(a.path, p)
         /\ /\ p \in Paths /\ Exists(f, p) /\ ~Under(denied, p)
            /\ \E a \in all : withinOrEqual(a.path, p)
            => LinuxRead(q, f, p)
<1> DEFINE M == q.readonly \cup q.writable \cup q.rebuilt
<1>1. ASSUME NEW n \in M PROVE n \in Paths /\ n \in Path
  BY <1>1, MountsAre, MountsStand, PathsAre
<1>2. denied \subseteq Path /\ \A a \in all : a.path \in Paths /\ a.path \in Path
  BY PathsAre DEF AuthoritiesSound
<1>3. ASSUME LinuxRead(q, f, p)
      PROVE  Exists(f, p) /\ ~Under(denied, p) /\ \E a \in all : withinOrEqual(a.path, p)
  <2>1. PICK m \in Covering(q, p) : IF m \in q.rebuilt THEN m = p ELSE Exists(f, p)
    BY <1>3 DEF LinuxRead
  <2>2. m \in M /\ withinOrEqual(m, p)
    BY <2>1 DEF Covering
  <2>3. m \in Path
    BY <1>1, <2>2
  <2>4. CASE m \in q.rebuilt
    <3>1. m = p
      BY <2>1, <2>4
    <3>2. PICK a \in all : m \in Rebuilt(f, denied, a)
      BY <2>4, MountsAre
    <3>3. IsDir(f, m) /\ withinOrEqual(a.path, m) /\ ~Under(denied, m)
      BY <3>2, MountsStand
    <3> QED
      BY <3>1, <3>3, NodesAre
  <2>5. CASE m \notin q.rebuilt
    <3>1. Exists(f, p)
      BY <2>1, <2>5
    <3>2. PICK a \in all : m \in Bound(f, denied, a)
      BY <2>2, <2>5, MountsAre
    <3>3. /\ m \in Paths /\ withinOrEqual(a.path, m) /\ ~Under(denied, m)
          /\ ~(IsDir(f, m) /\ \E d \in denied : pathWithin(m, d))
      BY <3>2, MountsStand
    <3>4. withinOrEqual(a.path, p)
      BY <1>2, <2>2, <2>3, <3>3, PrefixTrans
    <3>5. ASSUME NEW d \in denied, withinOrEqual(d, p) PROVE FALSE
      <4>1. d \in Path /\ ~withinOrEqual(d, m)
        BY <1>2, <3>3 DEF Under
      <4>2. withinOrEqual(m, d) /\ m # d
        BY <4>1, <3>5, <2>2, <2>3, PrefixChain, PrefixSelf DEF pathsOverlap
      <4>3. m # p
        BY <4>1, <3>5
      <4>4. IsDir(f, m)
        BY <2>2, <2>3, <3>1, <4>3, AncestorsAreDirs
      <4> QED
        BY <3>3, <4>2, <4>4 DEF pathWithin
    <3> QED
      BY <3>1, <3>4, <3>5 DEF Under
  <2> QED
    BY <2>4, <2>5
<1>4. ASSUME p \in Paths, Exists(f, p), ~Under(denied, p), NEW a \in all, withinOrEqual(a.path, p)
      PROVE  LinuxRead(q, f, p)
  <2>1. a.path \in M /\ a.path \in Path
    BY <1>2, MountAbove
  <2>2. PICK m \in Covering(q, p) : m \in Path /\ withinOrEqual(m, p) /\ m \in M
    BY <2>1, <1>1, <1>4, DeepestMount
  <2>3. ASSUME m \in q.rebuilt, m # p PROVE FALSE
    <3>1. PICK b \in all : m \in Rebuilt(f, denied, b)
      BY <2>3, MountsAre
    <3>2. PICK c \in Path : c # <<>> /\ Dir(c) = m /\ withinOrEqual(c, p) /\ Len(c) = Len(m) + 1 /\ c # m
      BY <2>2, <2>3, ChildToward
    <3>3. c \in Paths
      BY <3>2, <1>4, PrefixOfPaths
    <3>4. Exists(f, c)
      BY <3>2, <1>4, AncestorsAreDirs, NodesAre
    <3>5. ASSUME NEW d \in denied, withinOrEqual(d, c) PROVE FALSE
      <4>1. withinOrEqual(d, p)
        BY <1>2, <3>2, <3>5, PrefixTrans
      <4> QED
        BY <4>1, <1>4 DEF Under
    <3>6. c \in M
      BY <3>1, <3>2, <3>3, <3>4, <3>5, MountAbove DEF Under
    <3>7. Len(c) <= Len(m)
      BY <2>2, <3>2, <3>6 DEF Covering
    <3>8. Len(m) \in Nat
      BY <2>2 DEF Path
    <3> QED
      BY <3>2, <3>7, <3>8
  <2> QED
    BY <2>2, <2>3, <1>4 DEF LinuxRead
<1> QED
  BY <1>3, <1>4

LEMMA LinuxWriteIs ==
  ASSUME NEW f, WellFormed(f), NEW all, NEW denied, AuthoritiesSound(f, all, denied),
         NEW q, q = LinuxMounts(f, all, denied), NEW p \in Path
  PROVE  /\ LinuxWrite(q, f, p) => /\ Exists(f, p) \/ IsDir(f, Dir(p))
                                   /\ \E o \in all : o.access = "rw" /\ withinOrEqual(o.path, p)
         /\ /\ p \in Paths
            /\ Exists(f, p) \/ IsDir(f, Dir(p))
            /\ \E o \in all : o.access = "rw" /\ withinOrEqual(o.path, p)
            => LinuxWrite(q, f, p)
<1> DEFINE M == q.readonly \cup q.writable \cup q.rebuilt
<1>1. ASSUME NEW n \in M PROVE n \in Paths /\ n \in Path
  BY <1>1, MountsAre, MountsStand, PathsAre
<1>2. denied \subseteq Path /\ \A a \in all : a.path \in Paths /\ a.path \in Path
  BY PathsAre DEF AuthoritiesSound
<1>3. ASSUME LinuxWrite(q, f, p)
      PROVE  /\ Exists(f, p) \/ IsDir(f, Dir(p))
             /\ \E o \in all : o.access = "rw" /\ withinOrEqual(o.path, p)
  <2>1. PICK m \in Covering(q, p) : m \in q.writable /\ (m = p \/ IsDir(f, Dir(p)))
    BY <1>3 DEF LinuxWrite
  <2>2. m \in M /\ withinOrEqual(m, p) /\ m \in Path
    BY <1>1, <2>1 DEF Covering
  <2>3. PICK a \in all : m \in Bound(f, denied, a) /\ UnionAccess(all, a, m) = "rw"
    BY <2>1, MountsAre
  <2>4. withinOrEqual(a.path, m) /\ Exists(f, m)
    BY <2>3, MountsStand
  <2>5. PICK o \in all : o.access = "rw" /\ withinOrEqual(o.path, m)
    BY <2>3, <2>4 DEF UnionAccess
  <2>6. withinOrEqual(o.path, p)
    BY <1>2, <2>2, <2>5, PrefixTrans
  <2> QED
    BY <2>1, <2>4, <2>5, <2>6
<1>4. ASSUME p \in Paths, Exists(f, p) \/ IsDir(f, Dir(p)),
             NEW o \in all, o.access = "rw", withinOrEqual(o.path, p)
      PROVE  LinuxWrite(q, f, p)
  <2>1. o.path \in M /\ o.path \in Path
    BY <1>2, MountAbove
  <2>2. PICK m \in Covering(q, p) : m \in Path /\ withinOrEqual(m, p) /\ withinOrEqual(o.path, m) /\ m \in M
    BY <2>1, <1>1, <1>4, DeepestMount
  <2>3. m \notin q.rebuilt
    <3>1. ASSUME m \in q.rebuilt PROVE FALSE
      <4>1. PICK b \in all : m \in Rebuilt(f, denied, b)
        BY <3>1, MountsAre
      <4>2. PICK d \in denied : pathWithin(m, d)
        BY <4>1, MountsStand
      <4>3. withinOrEqual(o.path, d)
        BY <4>2, <2>1, <2>2, <1>2, PrefixTrans DEF pathWithin
      <4> QED
        BY <4>3, <1>4 DEF AuthoritiesSound, pathsOverlap
    <3> QED
      BY <3>1
  <2>4. PICK a \in all : m \in Bound(f, denied, a)
    BY <2>2, <2>3, MountsAre
  <2>5. UnionAccess(all, a, m) = "rw"
    BY <1>4, <2>2 DEF UnionAccess
  <2>6. m \in q.writable
    BY <2>4, <2>5, MountsAre
  <2>7. m = p \/ IsDir(f, Dir(p))
    BY <1>4, NodesAre
  <2> QED
    BY <2>2, <2>6, <2>7 DEF LinuxWrite
<1>5. ASSUME p \in Paths, Exists(f, p) \/ IsDir(f, Dir(p)),
             \E o \in all : o.access = "rw" /\ withinOrEqual(o.path, p)
      PROVE  LinuxWrite(q, f, p)
  <2>1. PICK o \in all : o.access = "rw" /\ withinOrEqual(o.path, p)
    BY <1>5
  <2> QED
    BY <2>1, <1>4, <1>5
<1> QED
  BY <1>3, <1>5

-----------------------------------------------------------------------------
(* Launch authority: what the steps keep                                    *)

IsGrant(g) ==
  /\ g \in [logical : Path, relative : BOOLEAN, type : {"dir", "file"}, access : {"ro", "rw"},
            effective : BOOLEAN, workspace : {g.workspace}, path : Paths,
            witness : {g.witness}, identity : {g.identity}]
  /\ \A d \in Private \cup {Sessions} : ~pathsOverlap(g.path, d)

\* The workspace gives what a grant asks for.
WorkspaceGives(g, access) ==
  withinOrEqual(Workspace, g.path) /\ (g.access = "ro" \/ access = "rw")

\* The captured grants: one type for each path, and each is in effect or has
\* another that gives strictly more.
GrantsSound(gs, access) ==
  /\ \A g \in gs : IsGrant(g)
  /\ \A g, h \in gs : withinOrEqual(h.path, g.path) =>
                         h.type = "dir" \/ (h.path = g.path /\ h.type = g.type)
  /\ \A g \in gs : \/ g.effective \/ WorkspaceGives(g, access)
                   \/ \E h \in gs : dominates(h, g) /\ ~dominates(g, h)

IsExclusion(x) ==
  /\ x \in [logical : Path, path : Path, exists : BOOLEAN, firstMissing : Path \cup {NoPath},
            witness : {x.witness}]
  /\ x.witness \in [logical : Path, relative : BOOLEAN, type : {"dir", "file"}, access : {"ro"},
                    path : Path, witness : {x.witness.witness}, identity : {x.witness.identity},
                    workspace : {x.witness.workspace}]
  /\ x.exists => x.witness.logical = x.logical /\ x.witness.path = x.path
  /\ ~x.exists => /\ x.firstMissing \in Path /\ x.firstMissing # <<>>
                  /\ withinOrEqual(x.firstMissing, x.logical)
                  /\ Len(x.logical) - Len(x.firstMissing) < Len(x.path)

IsExecutable(e) ==
  /\ e \in [name : Alphabet, logical : Path, path : Paths, witness : {e.witness},
            identity : {e.identity}, digest : Nat, ctime : Nat, reusable : BOOLEAN]
  /\ \A d \in Private \cup {Sessions} : ~pathsOverlap(e.path, d)
  /\ \E s \in ToSet(SearchPath) : withinOrEqual(s, e.logical)
\* A digest that is reused was taken before the last tick, of the bytes still there.
HashSound(e, x, now) ==
  IF e.path = Tool THEN e.reusable => e.ctime < now /\ (x.ctime = e.ctime => x.content = e.digest)
  ELSE e.identity.kind = "file" /\ e.digest = e.identity.ver

\* No private file has become the file of a grant: that one has an inode of the
\* disk the launch began with.
FilesApart(f, gs) ==
  \A g \in gs : g.type = "file" =>
    /\ Len(g.identity.ino) <= 1
    /\ \A d \in Private : f[d].kind = "absent" \/ f[d].ino # g.identity.ino
\* The next copy gets an inode no node has.
Fresh(f, changes) == \A p \in Paths : \A i \in 2 .. Len(f[p].ino) : f[p].ino[i] <= changes

DiskInv ==
  /\ WellFormed(fs) /\ IsDir(fs, Workspace) /\ Fresh(fs, host)
  /\ exe \in [content : Nat, ctime : Nat] /\ exe.ctime <= clock
  /\ host \in 0 .. MaxHost /\ clock \in 0 .. MaxClock
  /\ phase \in {"plan", "captured", "checked", "prepared", "starting", "started", "refused"}
  /\ req \in Requests
  /\ phase = "plan" => \A p \in Paths : Len(fs[p].ino) <= 1

CaptureInv ==
  /\ GrantsSound(grants, req.workspace)
  /\ \A x \in exclusions : IsExclusion(x)
  /\ \A e \in executables : IsExecutable(e) /\ HashSound(e, exe, clock)
  /\ FilesApart(fs, grants)
  /\ phase \notin {"plan", "refused"} =>
        \A d \in Private \cup {Sessions} : ~pathsOverlap(Workspace, d)
  /\ phase \in {"checked", "prepared", "starting", "started"} =>
        /\ ~pathsOverlap(Workspace, Operations)
        /\ \A g \in grants : ~pathsOverlap(g.path, Operations)
        /\ \A e \in executables : ~pathsOverlap(e.path, Operations)

\* What the Linux supervisor compiles, from the captured paths alone.
Denied(xs) == {x.path : x \in xs}
CompiledFor(r, f, gs, xs, es, q) ==
  LET all == LinuxAuthorities(r, f, gs, es, Workspace)
  IN  /\ q = LinuxMounts(f, all, Denied(xs))
      /\ \A x \in xs : LinuxExclusionSound(f, x)
      /\ \A a \in all : LinuxAuthoritySound(f, a, all, Denied(xs), {}) /\ validateTree(f, a.path, Denied(xs))

Selected0(ps) == {q \in ps : pathWithin(SessionHome, q.path)}
PolicyInv ==
  /\ phase \in {"plan", "captured", "checked"} => policy = NoPolicy
  /\ phase \in {"prepared", "starting", "started"} => policy.os = req.os
  /\ phase \in {"prepared", "starting", "started"} /\ req.os = "darwin" =>
        policy = buildSeatbeltPolicy(req, grants, exclusions, executables, Selected0(protections), Workspace)
  /\ phase \in {"prepared", "starting", "started"} /\ req.os = "linux" => req.protections = {}
  /\ phase \in {"prepared", "starting", "started"} => \A q \in protections :
        q.path \in Path /\ (q.path \in {Session, SessionHome} \/ pathWithin(SessionHome, q.path))

StartInv ==
  Started /\ req.os = "linux" => CompiledFor(req, fs, grants, exclusions, executables, policy)

LaunchInv == DiskInv /\ CaptureInv /\ PolicyInv /\ StartInv

-----------------------------------------------------------------------------
(* Launch authority: what other programs do to the disk                     *)

\* The directory of a path of the instance.
LEMMA DirOfPath ==
  ASSUME NEW p \in Paths
  PROVE  /\ p \in Path /\ p # <<>> /\ Dir(p) \in Path /\ withinOrEqual(Dir(p), p) /\ Dir(p) # p
         /\ Dir(p) = <<>> \/ Dir(p) \in Paths
<1>1. p \in Path /\ p # <<>>
  BY PathsAre
<1>2. Dir(p) \in Path /\ withinOrEqual(Dir(p), p) /\ Dir(p) # p
  BY <1>1, DirMeans
<1> QED
  BY <1>1, <1>2, PrefixOfPaths

LEMMA AbsentNode == Absent \in Nodes /\ Absent.kind = "absent" /\ Absent.ino = <<>>
<1>1. <<>> \in Seq(Nat)
  BY EmptySeq
<1> QED
  BY <1>1 DEF Absent, Nodes

LEMMA PlacesAre ==
  /\ {Home, Workspace, Sessions, Operations, Session, SessionHome, Temporary, Executable} \subseteq Paths
  /\ RuntimeInputs \subseteq Paths /\ Private \subseteq Paths /\ HostPaths \subseteq Paths
  /\ LinkTargets \subseteq Paths
BY PlacesAssumption

\* An inode a step may give a node: a new one, or one of the disk.
InodeOk(ino, n) == ino # <<>> /\ \A i \in 2 .. Len(ino) : ino[i] <= n + 1
LEMMA NewInode ==
  ASSUME NEW n \in Nat
  PROVE  <<0, n + 1>> \in Seq(Nat) /\ InodeOk(<<0, n + 1>>, n)
<1>1. Len(<<0, n + 1>>) = 2 /\ <<0, n + 1>>[2] = n + 1 /\ Len(<<>>) = 0
  BY EmptySeq
<1> QED
  BY <1>1 DEF InodeOk

LEMMA OldInode ==
  ASSUME NEW f, WellFormed(f), NEW n \in Nat, Fresh(f, n), NEW q \in Paths, f[q].kind # "absent"
  PROVE  InodeOk(f[q].ino, n)
<1>1. f[q].ino \in Seq(Nat) /\ f[q].ino # <<>>
  <2>1. f[q] \in Nodes
    BY DEF WellFormed
  <2>2. Exists(f, q)
    BY PathsAre DEF Exists, Node
  <2> QED
    BY <2>1, <2>2 DEF WellFormed, Nodes
<1>2. ASSUME NEW i \in 2 .. Len(f[q].ino) PROVE f[q].ino[i] <= n + 1
  <2>1. i \in 1 .. Len(f[q].ino) /\ f[q].ino[i] <= n
    BY <1>1, LenProperties DEF Fresh
  <2>2. f[q].ino[i] \in Nat
    BY <1>1, <2>1, ElementOfSeq
  <2> QED
    BY <2>1, <2>2
<1> QED
  BY <1>1, <1>2 DEF InodeOk

\* A step that gives one path another node and removes what is below it.
LEMMA DiskCut ==
  ASSUME NEW f, WellFormed(f), NEW n \in Nat, Fresh(f, n), NEW p \in Paths, p \notin Private, NEW node \in Nodes,
         \/ node = Absent
         \/ node.kind # "absent" /\ InodeOk(node.ino, n) /\ IsDir(f, Dir(p))
            /\ (node.kind = "link" => node.to \in Paths),
         NEW f2, f2 \in [Paths -> Nodes], f2[p] = node,
         \A q \in Paths : q # p => IF q \in Below(p) THEN f2[q].kind = "absent" /\ (f2[q] = f[q] \/ f2[q] = Absent)
                                   ELSE f2[q] = f[q]
  PROVE  /\ WellFormed(f2) /\ Fresh(f2, n + 1)
         /\ \A d \in Paths : IsDir(f, d) /\ ~withinOrEqual(p, d) => IsDir(f2, d)
         /\ \A gs : FilesApart(f, gs) => FilesApart(f2, gs)
<1>1. ASSUME NEW d \in Path, IsDir(f, d), ~withinOrEqual(p, d) PROVE IsDir(f2, d)
  <2>1. CASE d = <<>>
    BY <2>1 DEF IsDir, Node
  <2>2. CASE d # <<>>
    <3>1. d \in Paths
      BY <1>1, <2>2, NodesAre
    <3>2. d # p
      BY <1>1, <3>1, DirOfPath, PrefixSelf
    <3>3. f2[d] = f[d]
      BY <1>1, <3>1, <3>2 DEF Below
    <3> QED
      BY <1>1, <2>2, <3>1, <3>3 DEF IsDir, Node
  <2> QED
    BY <2>1, <2>2
<1>2. WellFormed(f2)
  <2>1. ASSUME NEW q \in Paths, Exists(f2, q) PROVE f2[q].ino # <<>> /\ IsDir(f2, Dir(q))
    <3>1. q \in Path /\ q # <<>> /\ Dir(q) \in Path /\ withinOrEqual(Dir(q), q) /\ Dir(q) # q
      BY DirOfPath
    <3>2. f2[q].kind # "absent"
      BY <2>1, <3>1 DEF Exists, Node
    <3>3. p \in Path
      BY PathsAre
    <3>4. CASE q = p
      <4>1. node.kind # "absent" /\ node.ino # <<>> /\ IsDir(f, Dir(p))
        BY <3>2, <3>4, AbsentNode DEF InodeOk
      <4>2. ~withinOrEqual(p, Dir(p))
        BY <3>1, <3>4, PrefixLength
      <4>3. IsDir(f2, Dir(p))
        BY <4>1, <4>2, <3>1, <3>4, <1>1
      <4> QED
        BY <4>1, <4>3, <3>4
    <3>5. CASE q # p
      <4>1. q \notin Below(p) /\ f2[q] = f[q]
        BY <3>2, <3>5
      <4>2. Exists(f, q)
        BY <3>1, <3>2, <4>1 DEF Exists, Node
      <4>3. f[q].ino # <<>> /\ IsDir(f, Dir(q))
        BY <4>2 DEF WellFormed
      <4>4. ~withinOrEqual(p, Dir(q))
        BY <3>1, <3>3, <4>1, PrefixTrans DEF Below
      <4> QED
        BY <4>1, <4>3, <4>4, <3>1, <1>1
    <3> QED
      BY <3>4, <3>5
  <2>2. ASSUME NEW q \in Paths, f2[q].kind = "link" PROVE f2[q].to \in Paths
    BY <2>2, AbsentNode DEF WellFormed
  <2> QED
    BY <2>1, <2>2 DEF WellFormed
<1>3. Fresh(f2, n + 1)
  <2>1. ASSUME NEW q \in Paths, NEW i \in 2 .. Len(f2[q].ino) PROVE f2[q].ino[i] <= n + 1
    <3>1. CASE f2[q] = f[q]
      <4>1. f[q].ino \in Seq(Nat)
        BY DEF WellFormed, Nodes
      <4>2. f[q].ino[i] \in Nat /\ f[q].ino[i] <= n
        BY <3>1, <4>1, ElementOfSeq DEF Fresh
      <4> QED
        BY <3>1, <4>2
    <3>2. CASE InodeOk(f2[q].ino, n)
      BY <3>2 DEF InodeOk
    <3>3. CASE f2[q] = Absent
      <4>1. Len(<<>>) = 0
        BY EmptySeq
      <4> QED
        BY <3>3, <4>1, AbsentNode
    <3> QED
      BY <3>1, <3>2, <3>3
  <2> QED
    BY <2>1 DEF Fresh
<1>4. ASSUME NEW gs, FilesApart(f, gs) PROVE FilesApart(f2, gs)
  <2>1. ASSUME NEW d \in Private PROVE f2[d].kind = "absent" \/ f2[d] = f[d]
    BY PlacesAre
  <2> QED
    BY <1>4, <2>1 DEF FilesApart
<1>5. \A d \in Paths : IsDir(f, d) /\ ~withinOrEqual(p, d) => IsDir(f2, d)
  BY <1>1, PathsAre
<1> QED
  BY <1>2, <1>3, <1>4, <1>5

\* A step that gives copies of existing nodes new inodes, or writes files.
NodesCopied(f, f2, copied, n) ==
  /\ f2 \in [Paths -> Nodes]
  /\ \A q \in Paths : /\ f2[q].kind = f[q].kind /\ f2[q].to = f[q].to
                       /\ f2[q].ino = IF q \in copied /\ f[q].kind # "absent"
                                      THEN Append(f[q].ino, n + 1) ELSE f[q].ino

\* A copy in place of a directory or file keeps the disk sound.
LEMMA DiskCopied ==
  ASSUME NEW f, WellFormed(f), NEW n \in Nat, Fresh(f, n), NEW copied,
         NEW f2, NodesCopied(f, f2, copied, n)
  PROVE  /\ WellFormed(f2) /\ Fresh(f2, n + 1)
         /\ \A d \in Paths : IsDir(f, d) => IsDir(f2, d)
         /\ \A gs : FilesApart(f, gs) => FilesApart(f2, gs)
<1>0. /\ f2 \in [Paths -> Nodes]
      /\ \A q \in Paths : /\ f2[q].kind = f[q].kind /\ f2[q].to = f[q].to
                           /\ f2[q].ino = IF q \in copied /\ f[q].kind # "absent"
                                          THEN Append(f[q].ino, n + 1) ELSE f[q].ino
  BY DEF NodesCopied
<1>1. ASSUME NEW d PROVE /\ IsDir(f2, d) <=> IsDir(f, d)
                         /\ Exists(f2, d) <=> Exists(f, d)
  BY <1>0 DEF IsDir, Exists, Node
<1>2. ASSUME NEW q \in Paths
      PROVE  /\ f[q].ino \in Seq(Nat) /\ Len(f[q].ino) \in Nat
             /\ Append(f[q].ino, n + 1) \in Seq(Nat)
             /\ Len(Append(f[q].ino, n + 1)) = Len(f[q].ino) + 1
             /\ Append(f[q].ino, n + 1)[Len(f[q].ino) + 1] = n + 1
             /\ \A i \in 1 .. Len(f[q].ino) : Append(f[q].ino, n + 1)[i] = f[q].ino[i]
  <2>1. f[q].ino \in Seq(Nat) /\ n + 1 \in Nat
    BY DEF WellFormed, Nodes
  <2> QED
    BY <2>1, AppendProperties, LenProperties
<1>3. WellFormed(f2)
  <2>1. ASSUME NEW q \in Paths, Exists(f2, q) PROVE f2[q].ino # <<>> /\ IsDir(f2, Dir(q))
    <3>1. Exists(f, q) /\ f[q].ino # <<>> /\ IsDir(f, Dir(q))
      BY <2>1, <1>1 DEF WellFormed
    <3>2. Append(f[q].ino, n + 1) # <<>>
      <4>1. Len(Append(f[q].ino, n + 1)) # 0 /\ Len(<<>>) = 0
        BY <1>2, EmptySeq
      <4> QED
        BY <4>1
    <3> QED
      BY <3>1, <3>2, <1>1, <1>0
  <2> QED
    BY <2>1, <1>0 DEF WellFormed
<1>4. Fresh(f2, n + 1)
  <2>1. ASSUME NEW q \in Paths, NEW i \in 2 .. Len(f2[q].ino) PROVE f2[q].ino[i] <= n + 1
    <3>1. \A j \in 2 .. Len(f[q].ino) : f[q].ino[j] \in Nat /\ f[q].ino[j] <= n
      <4>1. \A j \in 2 .. Len(f[q].ino) : j \in 1 .. Len(f[q].ino)
        BY <1>2
      <4> QED
        BY <4>1, <1>2, ElementOfSeq DEF Fresh
    <3>2. CASE f2[q].ino = f[q].ino
      BY <3>1, <3>2
    <3>3. CASE f2[q].ino = Append(f[q].ino, n + 1)
      <4>1. i \in 2 .. Len(f[q].ino) + 1
        BY <1>2, <3>3
      <4>2. CASE i = Len(f[q].ino) + 1
        BY <4>2, <3>3, <1>2
      <4>3. CASE i # Len(f[q].ino) + 1
        <5>1. i \in 2 .. Len(f[q].ino) /\ i \in 1 .. Len(f[q].ino)
          BY <4>1, <4>3, <1>2
        <5>2. f2[q].ino[i] = f[q].ino[i]
          BY <5>1, <3>3, <1>2
        <5> QED
          BY <5>1, <5>2, <3>1
      <4> QED
        BY <4>2, <4>3
    <3> QED
      BY <3>2, <3>3, <1>0
  <2> QED
    BY <2>1 DEF Fresh
<1>5. ASSUME NEW gs, FilesApart(f, gs) PROVE FilesApart(f2, gs)
  <2>1. ASSUME NEW g \in gs, g.type = "file", NEW d \in Private, f2[d].kind # "absent"
        PROVE  f2[d].ino # g.identity.ino
    <3>1. d \in Paths /\ f[d].kind # "absent"
      BY <2>1, <1>0, PlacesAre
    <3>2. Len(g.identity.ino) <= 1 /\ f[d].ino # g.identity.ino
      BY <1>5, <2>1, <3>1 DEF FilesApart
    <3>3. f[d].ino # <<>>
      BY <3>1, PathsAre DEF WellFormed, Exists, Node
    <3>4. Len(f[d].ino) # 0
      BY <3>1, <3>3, <1>2, EmptySeq
    <3>5. Len(Append(f[d].ino, n + 1)) >= 2
      BY <3>1, <3>4, <1>2
    <3>6. Append(f[d].ino, n + 1) # g.identity.ino
      BY <3>2, <3>5
    <3> QED
      BY <3>1, <3>2, <3>6, <1>0
  <2> QED
    BY <1>5, <2>1 DEF FilesApart
<1> QED
  BY <1>1, <1>3, <1>4, <1>5

-----------------------------------------------------------------------------
(* Launch authority: what is captured                                       *)

\* What inspectGrantPath captures exists and has the type it was asked for.
LEMMA InspectIs ==
  ASSUME NEW f, WellFormed(f), NEW p \in Path, NEW type, NEW access,
         NEW i \in inspectGrantPath(f, p, type, access)
  PROVE  /\ i.path = EvalSymlinks(f, p) /\ i.path # NoPath /\ i.path \in Path /\ Exists(f, i.path)
         /\ Node(f, i.path).kind = type /\ i.identity = identityFromFileInfo(f, i.path)
<1>1. /\ EvalSymlinks(f, p) # NoPath /\ Node(f, EvalSymlinks(f, p)).kind = type
      /\ i.path = EvalSymlinks(f, p) /\ i.identity = identityFromFileInfo(f, EvalSymlinks(f, p))
  BY DEF inspectGrantPath
<1>2. Exists(f, EvalSymlinks(f, p)) /\ EvalSymlinks(f, p) \in Path
  BY <1>1, EvalIs
<1> QED
  BY <1>1, <1>2

\* The workspace is a directory without links above it.
LEMMA WorkspaceIs ==
  ASSUME NEW f, WellFormed(f), IsDir(f, Workspace)
  PROVE  EvalSymlinks(f, Workspace) = Workspace /\ Workspace \in Path /\ Workspace # NoPath
<1>1. Exists(f, Workspace) /\ Node(f, Workspace).kind # "link"
  BY NodesAre DEF IsDir
<1> QED
  BY <1>1, EvalCanonical, PathsAre

LEMMA CandidateIs ==
  ASSUME NEW f, WellFormed(f), IsDir(f, Workspace), NEW intent, intent.path \in Path
  PROVE  Candidate(f, intent) \in Path
<1>1. Workspace \o intent.path \in Path
  BY WorkspaceIs, ConcatProperties DEF Path
<1> QED
  BY <1>1, WorkspaceIs DEF Candidate

LEMMA AnchoredIs ==
  ASSUME NEW f, WellFormed(f), IsDir(f, Workspace), NEW intent, NEW p, Exists(f, p), Anchored(f, intent, p)
  PROVE  p \in Paths
<1>1. ASSUME p = <<>> PROVE FALSE
  <2>1. withinOrEqual(Workspace, <<>>) \/ withinOrEqual(Home, <<>>)
    BY <1>1, WorkspaceIs DEF Anchored, pathWithin
  <2>2. Workspace \in Path /\ Home \in Path /\ Workspace # <<>> /\ Home # <<>>
    BY PlacesAre, PathsAre
  <2>3. Len(Workspace) \in Nat \ {0} /\ Len(Home) \in Nat \ {0} /\ Len(<<>>) = 0
    BY <2>2, DirMeans, EmptySeq
  <2> QED
    BY <2>1, <2>3 DEF withinOrEqual
<1> QED
  BY <1>1, NodesAre

\* What GrantFor captures, before grants are compared.
IsCaptured(f, g) ==
  /\ IsGrant(g) /\ Node(f, g.path).kind = g.type /\ g.identity = identityFromFileInfo(f, g.path)
  /\ g.type = "file" => \A d \in Private : ~SameFile(f, g.path, d)

\* A grant that is not refused is sound.
LEMMA GrantForIs ==
  ASSUME NEW f, WellFormed(f), IsDir(f, Workspace), NEW intent \in GrantIntents, NEW g \in GrantFor(f, intent)
  PROVE  IsCaptured(f, g)
<1>1. /\ intent.path \in Path /\ intent.relative \in BOOLEAN /\ intent.type \in {"dir", "file"}
      /\ intent.access \in {"ro", "rw"}
  BY DEF GrantIntents, Path
<1>2. PICK i \in inspectGrantPath(f, Candidate(f, intent), intent.type, intent.access) :
         g = [logical |-> Candidate(f, intent), relative |-> intent.relative,
              type |-> intent.type, access |-> intent.access, effective |-> FALSE,
              workspace |-> inspectGrantPath(f, Workspace, "dir", "ro"),
              path |-> i.path, witness |-> i.witness, identity |-> i.identity]
  BY DEF GrantFor, Captured
<1>3. GrantAllowed(f, intent, g)
  BY DEF GrantFor
<1>4. Candidate(f, intent) \in Path
  BY <1>1, CandidateIs
<1>5. /\ Exists(f, i.path) /\ Node(f, i.path).kind = intent.type
      /\ i.identity = identityFromFileInfo(f, i.path)
  BY <1>2, <1>4, InspectIs
<1>6. /\ g.logical = Candidate(f, intent) /\ g.relative = intent.relative /\ g.type = intent.type
      /\ g.access = intent.access /\ g.effective = FALSE /\ g.path = i.path /\ g.identity = i.identity
  BY <1>2
<1>7. g.path \in Paths
  BY <1>3, <1>5, <1>6, AnchoredIs DEF GrantAllowed
<1>8. g \in [logical : Path, relative : BOOLEAN, type : {"dir", "file"}, access : {"ro", "rw"},
             effective : BOOLEAN, workspace : {g.workspace}, path : Paths,
             witness : {g.witness}, identity : {g.identity}]
  BY <1>1, <1>2, <1>4, <1>7, <1>6
<1>9. \A d \in Private \cup {Sessions} :
         ~pathsOverlap(g.path, d) /\ ~(intent.type = "file" /\ SameFile(f, g.path, d))
  BY <1>3 DEF GrantAllowed
<1> QED
  BY <1>5, <1>6, <1>8, <1>9 DEF IsCaptured, IsGrant

\* Marking the grants another covers keeps the grants.
LEMMA ReduceIs ==
  ASSUME NEW f, WellFormed(f), \A p \in Paths : Len(f[p].ino) <= 1,
         NEW gs, \A g \in gs : IsCaptured(f, g), NEW access
  PROVE  /\ GrantsSound(reduceFilesystemGrants(gs, Workspace, access), access)
         /\ FilesApart(f, reduceFilesystemGrants(gs, Workspace, access))
<1> DEFINE keeps(g) == /\ ~(withinOrEqual(Workspace, g.path) /\ (g.access = "ro" \/ access = "rw"))
                       /\ \A h \in gs : dominates(h, g) => dominates(g, h)
           mark(g) == [g EXCEPT !.effective = keeps(g)]
           reduced == {mark(g) : g \in gs}
<1>1. reduceFilesystemGrants(gs, Workspace, access) = reduced
  BY DEF reduceFilesystemGrants
<1>2. ASSUME NEW g \in gs
      PROVE  /\ mark(g).path = g.path /\ mark(g).access = g.access /\ mark(g).type = g.type
             /\ mark(g).effective = keeps(g) /\ IsGrant(mark(g)) /\ mark(g) \in reduced
             /\ g.path \in Paths /\ mark(g).identity = g.identity
  <2>1. /\ g \in [logical : Path, relative : BOOLEAN, type : {"dir", "file"}, access : {"ro", "rw"},
                  effective : BOOLEAN, workspace : {g.workspace}, path : Paths,
                  witness : {g.witness}, identity : {g.identity}]
        /\ \A d \in Private \cup {Sessions} : ~pathsOverlap(g.path, d)
    BY DEF IsCaptured, IsGrant
  <2>2. keeps(g) \in BOOLEAN
    OBVIOUS
  <2> HIDE DEF keeps
  <2>3. /\ mark(g).path = g.path /\ mark(g).access = g.access /\ mark(g).type = g.type
        /\ mark(g).effective = keeps(g) /\ mark(g).workspace = g.workspace
        /\ mark(g).witness = g.witness /\ mark(g).identity = g.identity
    BY <2>1
  <2>4. mark(g) \in [logical : Path, relative : BOOLEAN, type : {"dir", "file"}, access : {"ro", "rw"},
                  effective : BOOLEAN, workspace : {g.workspace}, path : Paths,
                  witness : {g.witness}, identity : {g.identity}]
    BY <2>1, <2>2
  <2>5. IsGrant(mark(g))
    BY <2>1, <2>3, <2>4 DEF IsGrant
  <2> QED
    BY <2>1, <2>3, <2>5
<1> HIDE DEF mark, keeps
<1>3. ASSUME NEW a \in reduced PROVE IsGrant(a)
  BY <1>2
<1>4. ASSUME NEW a \in reduced, NEW b \in reduced, withinOrEqual(b.path, a.path)
      PROVE  b.type = "dir" \/ (b.path = a.path /\ b.type = a.type)
  <2>1. PICK g \in gs, h \in gs : a = mark(g) /\ b = mark(h)
    BY <1>4
  <2>2. /\ Node(f, g.path).kind = g.type /\ Node(f, h.path).kind = h.type
        /\ g.type \in {"dir", "file"}
    BY DEF IsCaptured, IsGrant
  <2>3. a.path = g.path /\ b.path = h.path /\ a.type = g.type /\ b.type = h.type
        /\ g.path \in Path /\ h.path \in Path
    BY <2>1, <1>2, PathsAre
  <2>4. CASE h.path = g.path
    BY <2>2, <2>3, <2>4
  <2>5. CASE h.path # g.path
    <3>1. Exists(f, g.path)
      BY <2>2 DEF Exists
    <3>2. IsDir(f, h.path)
      BY <3>1, <2>3, <2>5, <1>4, AncestorsAreDirs
    <3> QED
      BY <3>2, <2>2, <2>3 DEF IsDir
  <2> QED
    BY <2>4, <2>5
<1>5. ASSUME NEW a \in reduced
      PROVE  \/ a.effective \/ WorkspaceGives(a, access)
             \/ \E b \in reduced : dominates(b, a) /\ ~dominates(a, b)
  <2>1. PICK g \in gs : a = mark(g)
    BY <1>5
  <2>2. a.path = g.path /\ a.access = g.access /\ a.effective = keeps(g)
    BY <2>1, <1>2
  <2>3. ASSUME ~keeps(g), ~WorkspaceGives(a, access)
        PROVE  \E b \in reduced : dominates(b, a) /\ ~dominates(a, b)
    <3>1. PICK h \in gs : dominates(h, g) /\ ~dominates(g, h)
      BY <2>2, <2>3 DEF keeps, WorkspaceGives
    <3>2. mark(h) \in reduced /\ mark(h).path = h.path /\ mark(h).access = h.access
      BY <1>2
    <3>3. dominates(mark(h), a) /\ ~dominates(a, mark(h))
      BY <3>1, <3>2, <2>2 DEF dominates
    <3> QED
      BY <3>2, <3>3
  <2> QED
    BY <2>2, <2>3
<1>6. ASSUME NEW a \in reduced, a.type = "file"
      PROVE  /\ Len(a.identity.ino) <= 1
             /\ \A d \in Private : f[d].kind = "absent" \/ f[d].ino # a.identity.ino
  <2>1. PICK g \in gs : a = mark(g)
    BY <1>6
  <2>2. g.path \in Paths /\ a.identity = identityFromFileInfo(f, g.path) /\ a.type = g.type
    BY <2>1, <1>2 DEF IsCaptured
  <2>3. a.identity.ino = f[g.path].ino /\ Node(f, g.path) = f[g.path]
    BY <2>2, PathsAre DEF identityFromFileInfo, Node
  <2>4. ASSUME NEW d \in Private PROVE f[d].kind = "absent" \/ f[d].ino # a.identity.ino
    <3>1. Node(f, d) = f[d]
      BY PlacesAre, PathsAre DEF Node
    <3>2. ~SameFile(f, g.path, d)
      BY <1>6, <2>2 DEF IsCaptured
    <3> QED
      BY <2>3, <3>1, <3>2 DEF SameFile, Exists
  <2> QED
    BY <2>2, <2>3, <2>4
<1> HIDE DEF reduced
<1> QED
  BY <1>1, <1>3, <1>4, <1>5, <1>6 DEF GrantsSound, FilesApart

\* What ResolveFilesystemGrants returns.
LEMMA ResolveGrants ==
  ASSUME NEW f, WellFormed(f), IsDir(f, Workspace), \A p \in Paths : Len(f[p].ino) <= 1,
         NEW intents, intents \subseteq GrantIntents, NEW access,
         NEW s \in ResolveFilesystemGrants(f, intents, access)
  PROVE  /\ GrantsSound(s, access) /\ FilesApart(f, s)
         /\ \A d \in Private \cup {Sessions} : ~pathsOverlap(Workspace, d)
<1> DEFINE gs == UNION {GrantFor(f, intent) : intent \in intents}
<1>1. /\ \A d \in Private \cup {Sessions} : ~pathsOverlap(Workspace, d)
      /\ s = reduceFilesystemGrants(gs, Workspace, access)
  BY WorkspaceIs DEF ResolveFilesystemGrants
<1>2. \A g \in gs : IsCaptured(f, g)
  BY GrantForIs
<1> HIDE DEF gs
<1> QED
  BY <1>1, <1>2, ReduceIs

\* Looking up a name that is in no directory finds nothing.
LEMMA NothingAtNoPath ==
  ASSUME NEW f, WellFormed(f), NEW type, NEW access
  PROVE  inspectGrantPath(f, NoPath, type, access) = {}
<1>1. Len(NoPath) = 1 /\ NoPath[1] = "?"
  BY DEF NoPath
<1>2. Traversal(f, NoPath)[1] = hop(f, <<>>, "?")
  BY <1>1, TraversalIs
<1>3. Append(<<>>, "?") = NoPath
  BY DEF NoPath
<1>4. ~Exists(f, NoPath)
  BY PathsAre, NodesAre
<1>5. hop(f, <<>>, "?") = NoPath
  BY <1>3, <1>4 DEF hop
<1>6. EvalSymlinks(f, NoPath) = NoPath
  BY <1>1, <1>2, <1>5 DEF EvalSymlinks
<1> QED
  BY <1>6 DEF inspectGrantPath

\* The tool that is found hangs below a directory of the search path.
LEMMA SearchIs ==
  ASSUME NEW f, NEW name \in Alphabet
  PROVE  LET p == fixedSearchExecutable(f, name)
         IN  p = NoPath \/ (p \in Path /\ \E s \in ToSet(SearchPath) : withinOrEqual(s, p))
<1> DEFINE held == {i \in 1 .. Len(SearchPath) :
                       LET p == EvalSymlinks(f, Append(SearchPath[i], name))
                       IN  p # NoPath /\ Node(f, p).kind = "file"}
           least == CHOOSE i \in held : \A j \in held : i <= j
<1>1. CASE held = {}
  BY <1>1 DEF fixedSearchExecutable
<1>2. CASE held # {}
  <2>1. fixedSearchExecutable(f, name) = Append(SearchPath[least], name)
    BY <1>2 DEF fixedSearchExecutable
  <2>2. held \subseteq Nat /\ held \subseteq 1 .. Len(SearchPath)
    OBVIOUS
  <2> HIDE DEF held
  <2>3. \E i \in held : \A j \in held : i <= j
    BY <1>2, <2>2, LeastOf
  <2>4. least \in held
    BY <2>3
  <2> HIDE DEF least
  <2>5. least \in 1 .. Len(SearchPath) /\ SearchPath \in Seq(Paths)
    BY <2>2, <2>4, PlacesAssumption
  <2>6. SearchPath[least] \in Paths /\ SearchPath[least] \in ToSet(SearchPath)
    BY <2>5, ElementOfSeq DEF ToSet
  <2>7. PICK s : s = SearchPath[least]
    OBVIOUS
  <2>8. s \in Path /\ s \in ToSet(SearchPath)
    BY <2>6, <2>7, PathsAre
  <2>9. /\ Append(s, name) \in Path /\ Len(Append(s, name)) = Len(s) + 1 /\ Len(s) \in Nat
        /\ \A i \in 1 .. Len(s) : Append(s, name)[i] = s[i]
    BY <2>8, AppendProperties, LenProperties DEF Path
  <2>10. withinOrEqual(s, Append(s, name))
    <3>1. PICK a : a = Append(s, name)
      OBVIOUS
    <3>2. a \in Path /\ Len(s) <= Len(a) /\ \A i \in 1 .. Len(s) : s[i] = a[i]
      BY <2>9, <3>1
    <3> QED
      BY <2>8, <3>1, <3>2, PrefixMeans
  <2> QED
    BY <2>1, <2>7, <2>8, <2>9, <2>10
<1> QED
  BY <1>1, <1>2

LEMMA ExecutableForIs ==
  ASSUME NEW f, WellFormed(f), NEW x \in [content : Nat, ctime : Nat], NEW now \in Nat,
         NEW name \in Alphabet, NEW e \in ExecutableFor(f, x, now, name)
  PROVE  IsExecutable(e) /\ HashSound(e, x, now)
<1> DEFINE logical == fixedSearchExecutable(f, name)
<1>1. PICK i \in inspectGrantPath(f, logical, "file", "ro") :
         /\ e = [name |-> name, logical |-> logical, path |-> i.path, witness |-> i.witness,
                 identity |-> i.identity, digest |-> Content(f, i.path, x),
                 ctime |-> Changed(f, i.path, x),
                 reusable |-> digestReusable(Changed(f, i.path, x), now)]
         /\ \A d \in Private \cup {Sessions} : ~pathsOverlap(i.path, d)
  BY DEF ExecutableFor
<1>2. logical \in Path /\ \E s \in ToSet(SearchPath) : withinOrEqual(s, logical)
  BY <1>1, SearchIs, NothingAtNoPath
<1> HIDE DEF logical
<1>3. /\ Exists(f, i.path) /\ Node(f, i.path).kind = "file" /\ i.identity = identityFromFileInfo(f, i.path)
  BY <1>1, <1>2, InspectIs
<1>4. i.path \in Paths /\ f[i.path] \in Nodes /\ Node(f, i.path) = f[i.path]
  BY <1>3, NodesAre
<1>5. Content(f, i.path, x) \in Nat /\ Changed(f, i.path, x) \in Nat
      /\ digestReusable(Changed(f, i.path, x), now) \in BOOLEAN
  BY <1>4 DEF Content, Changed, digestReusable, Nodes
<1>6. /\ e.name = name /\ e.logical = logical /\ e.path = i.path /\ e.identity = i.identity
      /\ e.digest = Content(f, i.path, x) /\ e.ctime = Changed(f, i.path, x)
      /\ e.reusable = digestReusable(Changed(f, i.path, x), now)
  BY <1>1
<1>7. e \in [name : Alphabet, logical : Path, path : Paths, witness : {e.witness},
             identity : {e.identity}, digest : Nat, ctime : Nat, reusable : BOOLEAN]
  BY <1>1, <1>2, <1>4, <1>5
<1>8. IsExecutable(e)
  BY <1>1, <1>2, <1>6, <1>7 DEF IsExecutable
<1>9. CASE e.path = Tool
  <2>1. e.digest = x.content /\ e.ctime = x.ctime /\ (e.reusable => x.ctime + Margin < now)
    BY <1>6, <1>9 DEF Content, Changed, digestReusable
  <2>2. e.reusable => e.ctime < now
    BY <2>1, HostAssumption
  <2> QED
    BY <1>8, <1>9, <2>1, <2>2 DEF HashSound
<1>10. CASE e.path # Tool
  BY <1>3, <1>6, <1>8, <1>10 DEF HashSound, Content, identityFromFileInfo
<1> QED
  BY <1>9, <1>10

\* What ResolveExecutableGrants returns.
LEMMA ResolveExecutables ==
  ASSUME NEW f, WellFormed(f), NEW x \in [content : Nat, ctime : Nat], NEW now \in Nat,
         NEW names, names \subseteq Alphabet, NEW s \in ResolveExecutableGrants(f, x, now, names)
  PROVE  \A e \in s : IsExecutable(e) /\ HashSound(e, x, now)
<1>1. s = UNION {ExecutableFor(f, x, now, name) : name \in names}
  BY DEF ResolveExecutableGrants
<1> QED
  BY <1>1, ExecutableForIs

\* The root exists, so that every path has a nearest existing ancestor.
LEMMA NearestIs ==
  ASSUME NEW f, WellFormed(f), NEW p \in Path
  PROVE  \E n \in 0 .. Len(p) : nearestExistingAncestor(f, p) = SubSeq(p, 1, n)
<1> DEFINE at(n) == Lstat(f, SubSeq(p, 1, n)).kind # "absent"
           last(n) == at(n) /\ \A m \in n + 1 .. Len(p) : ~at(m)
           T == {k \in 0 .. Len(p) : at(Len(p) - k)}
<1>1. Len(p) \in Nat /\ Len(p) \in 0 .. Len(p) /\ Len(p) - Len(p) = 0
  BY DEF Path
<1>2. at(0)
  <2>1. SubSeq(p, 1, 0) = <<>>
    BY SubSeqEmpty
  <2> QED
    BY <2>1 DEF Lstat, Node
<1>3. Len(p) \in T
  BY <1>1, <1>2
<1>4. T \subseteq Nat
  OBVIOUS
<1>5. PICK k \in T : \A j \in T : k <= j
  BY <1>3, <1>4, LeastOf
<1>6. k \in Nat /\ k <= Len(p) /\ at(Len(p) - k) /\ Len(p) - k \in 0 .. Len(p)
  BY <1>1, <1>5
<1>7. ASSUME NEW m \in Len(p) - k + 1 .. Len(p), at(m) PROVE FALSE
  <2>1. Len(p) - m \in 0 .. Len(p) /\ Len(p) - (Len(p) - m) = m /\ ~(k <= Len(p) - m)
    BY <1>1, <1>6
  <2>2. Len(p) - m \in T
    BY <2>1, <1>7
  <2> QED
    BY <2>1, <2>2, <1>5
<1>8. last(Len(p) - k)
  BY <1>6, <1>7
<1>9. nearestExistingAncestor(f, p) = SubSeq(p, 1, CHOOSE n \in 0 .. Len(p) : last(n))
  BY DEF nearestExistingAncestor
<1> HIDE DEF last
<1>10. (CHOOSE n \in 0 .. Len(p) : last(n)) \in 0 .. Len(p)
  BY <1>6, <1>8
<1> QED
  BY <1>9, <1>10

LEMMA RestIs ==
  ASSUME NEW p \in Path, NEW n \in 0 .. Len(p)
  PROVE  /\ SubSeq(p, n + 1, Len(p)) \in Path /\ Len(SubSeq(p, n + 1, Len(p))) = Len(p) - n
         /\ n = Len(p) => SubSeq(p, n + 1, Len(p)) = <<>>
<1>1. Len(p) \in Nat /\ n \in Nat /\ n <= Len(p) /\ n + 1 \in Int /\ Len(p) \in Int
  BY DEF Path
<1>2. \A i \in n + 1 .. Len(p) : p[i] \in Alphabet
  BY <1>1, ElementOfSeq DEF Path
<1>3. /\ SubSeq(p, n + 1, Len(p)) \in Seq(Alphabet)
      /\ Len(SubSeq(p, n + 1, Len(p))) = IF n + 1 <= Len(p) THEN Len(p) - (n + 1) + 1 ELSE 0
  BY <1>1, <1>2, SubSeqProperties
<1>4. n = Len(p) => SubSeq(p, n + 1, Len(p)) = <<>>
  BY <1>1, SubSeqEmpty
<1>5. Len(SubSeq(p, n + 1, Len(p))) = Len(p) - n
  BY <1>1, <1>3
<1> QED
  BY <1>3, <1>4, <1>5 DEF Path

\* An exclusion that is not refused is sound.
LEMMA ExclusionForIs ==
  ASSUME NEW f, WellFormed(f), IsDir(f, Workspace), NEW intent \in Intents, NEW x \in ExclusionFor(f, intent)
  PROVE  IsExclusion(x)
<1> DEFINE logical == Candidate(f, intent)
           near == nearestExistingAncestor(f, logical)
           exists == near = logical
           type == IF exists THEN intent.type ELSE "dir"
           rest == SubSeq(logical, Len(near) + 1, Len(logical))
<1>1. intent.path \in Path /\ intent.relative \in BOOLEAN /\ intent.type \in {"dir", "file"}
  BY DEF Intents, Path
<1>2. PICK i \in inspectGrantPath(f, near, type, "ro") :
         x = [logical |-> logical, path |-> i.path \o rest, exists |-> exists,
              firstMissing |-> IF exists THEN NoPath ELSE SubSeq(logical, 1, Len(near) + 1),
              witness |-> [logical |-> near, relative |-> intent.relative, type |-> type,
                           access |-> "ro", path |-> i.path, witness |-> i.witness,
                           identity |-> i.identity,
                           workspace |-> inspectGrantPath(f, Workspace, "dir", "ro")]]
  BY DEF ExclusionFor
<1>3. logical \in Path /\ Len(logical) \in Nat
  BY <1>1, CandidateIs DEF Path
<1>4. PICK n \in 0 .. Len(logical) : near = SubSeq(logical, 1, n)
  BY <1>3, NearestIs
<1> HIDE DEF logical, near
<1>5. near \in Path /\ Len(near) = n /\ n \in Nat /\ n <= Len(logical) /\ withinOrEqual(near, logical)
  BY <1>3, <1>4, Prefix
<1>6. exists <=> n = Len(logical)
  BY <1>3, <1>5, PrefixLength
<1>7. type \in {"dir", "file"} /\ exists \in BOOLEAN
  BY <1>1
<1> HIDE DEF type
<1>8. i.path \in Path
  BY <1>2, <1>5, InspectIs
<1>9. rest \in Path /\ Len(rest) = Len(logical) - n /\ (exists => rest = <<>>)
  BY <1>3, <1>5, <1>6, RestIs
<1> HIDE DEF rest, exists
<1>10. i.path \o rest \in Path /\ Len(i.path \o rest) = Len(i.path) + Len(rest)
       /\ (rest = <<>> => i.path \o rest = i.path) /\ Len(i.path) \in Nat
  <2>1. PICK u : u = i.path
    OBVIOUS
  <2>2. PICK v : v = rest
    OBVIOUS
  <2>3. u \in Seq(Alphabet) /\ v \in Seq(Alphabet)
    BY <1>8, <1>9, <2>1, <2>2 DEF Path
  <2>4. u \o v \in Seq(Alphabet) /\ Len(u \o v) = Len(u) + Len(v) /\ Len(u) \in Nat
    BY <2>3, ConcatProperties, LenProperties
  <2>5. v = <<>> => u \o v = u
    BY <2>3, ConcatEmptySeq
  <2> QED
    BY <2>1, <2>2, <2>4, <2>5 DEF Path
<1>11. ASSUME ~exists
       PROVE  /\ SubSeq(logical, 1, n + 1) \in Path /\ Len(SubSeq(logical, 1, n + 1)) = n + 1
              /\ withinOrEqual(SubSeq(logical, 1, n + 1), logical)
              /\ SubSeq(logical, 1, n + 1) # <<>>
  <2>1. n + 1 \in 0 .. Len(logical) /\ n + 1 # 0
    BY <1>3, <1>5, <1>6, <1>11
  <2> QED
    BY <2>1, <1>3, Prefix, EmptySeq
<1>12. /\ x.logical = logical /\ x.path = i.path \o rest /\ x.exists = exists
       /\ x.firstMissing = IF exists THEN NoPath ELSE SubSeq(logical, 1, n + 1)
       /\ x.witness.logical = near /\ x.witness.path = i.path
  BY <1>2, <1>5
<1>13. x.witness \in [logical : Path, relative : BOOLEAN, type : {"dir", "file"}, access : {"ro"},
                    path : Path, witness : {x.witness.witness}, identity : {x.witness.identity},
                    workspace : {x.witness.workspace}]
  BY <1>1, <1>2, <1>5, <1>7, <1>8
<1>14. x \in [logical : Path, path : Path, exists : BOOLEAN, firstMissing : Path \cup {NoPath},
              witness : {x.witness}]
  <2>1. x.firstMissing \in Path \cup {NoPath}
    BY <1>11, <1>12
  <2> QED
    BY <2>1, <1>2, <1>3, <1>7, <1>10, <1>12
<1>15. x.exists => x.witness.logical = x.logical /\ x.witness.path = x.path
  BY <1>9, <1>10, <1>12 DEF exists
<1>16. ~x.exists => /\ x.firstMissing \in Path /\ x.firstMissing # <<>>
                    /\ withinOrEqual(x.firstMissing, x.logical)
                    /\ Len(x.logical) - Len(x.firstMissing) < Len(x.path)
  <2>1. ASSUME ~exists PROVE Len(logical) - (n + 1) < Len(i.path \o rest)
    BY <1>3, <1>5, <1>9, <1>10
  <2> QED
    BY <2>1, <1>11, <1>12
<1> QED
  BY <1>13, <1>14, <1>15, <1>16 DEF IsExclusion

\* What ResolveFilesystemExclusions returns.
LEMMA ResolveExclusions ==
  ASSUME NEW f, WellFormed(f), IsDir(f, Workspace), NEW intents, intents \subseteq Intents,
         NEW s \in ResolveFilesystemExclusions(f, intents)
  PROVE  \A x \in s : IsExclusion(x)
<1>1. s = UNION {ExclusionFor(f, intent) : intent \in intents}
  BY DEF ResolveFilesystemExclusions
<1> QED
  BY <1>1, ExclusionForIs

-----------------------------------------------------------------------------
(* Launch authority: the steps                                              *)

\* What a request may select.
LEMMA RequestIs ==
  ASSUME NEW r \in Requests
  PROVE  /\ r.os \in {"darwin", "linux"} /\ r.workspace \in {"ro", "rw"} /\ r.grants \subseteq GrantIntents
         /\ r.exclusions \subseteq Intents /\ r.executables \subseteq Alphabet
         /\ r.protections \subseteq Paths /\ IsFiniteSet(r.protections)
         /\ r.mcp \in {"none", "reserved", "selected"}
BY RequestsAssumption DEF Selections

\* The invariant holds at first, and each step keeps it.
LEMMA LaunchBegins == LaunchInit => LaunchInv
<1> SUFFICES ASSUME LaunchInit PROVE LaunchInv
  OBVIOUS
<1>1. Fresh(fs, host)
  <2>1. \A p \in Paths : 2 .. Len(fs[p].ino) = {}
    <3>1. ASSUME NEW p \in Paths PROVE 2 .. Len(fs[p].ino) = {}
      <4>1. Len(fs[p].ino) <= 1 /\ fs[p].ino \in Seq(Nat)
        BY TreesAssumption DEF LaunchInit, WellFormed, Nodes
      <4>2. Len(fs[p].ino) \in Nat
        BY <4>1, LenProperties
      <4> QED
        BY <4>1, <4>2
    <3> QED
      BY <3>1
  <2> QED
    BY <2>1 DEF Fresh
<1>2. DiskInv
  <2>1. clock \in 0 .. MaxClock
    BY HostAssumption DEF LaunchInit
  <2>2. host \in 0 .. MaxHost
    BY HostAssumption DEF LaunchInit
  <2> QED
    BY <1>1, <2>1, <2>2, TreesAssumption DEF LaunchInit, DiskInv
<1>3. CaptureInv
  BY DEF LaunchInit, CaptureInv, GrantsSound, FilesApart
<1>4. PolicyInv /\ StartInv
  BY DEF LaunchInit, PolicyInv, StartInv, Started
<1> QED
  BY <1>2, <1>3, <1>4 DEF LaunchInv

\* Other programs.
DiskKept(f, n, f2, n2, gs) ==
  /\ WellFormed(f2) /\ IsDir(f2, Workspace) /\ Fresh(f2, n2)
  /\ FilesApart(f, gs) => FilesApart(f2, gs)

LEMMA HostDisk ==
  ASSUME DiskInv, NEW p \in HostPaths,
         \/ HostReplace(p) \/ HostRemove(p) \/ HostWrite(p)
         \/ \E to \in LinkTargets : HostLink(p, to) \/ HostHardlink(p, to)
         \/ \E kind \in {"dir", "file"} : HostCreate(p, kind)
  PROVE  DiskKept(fs, host, fs', host + 1, grants)
<1>1. /\ WellFormed(fs) /\ IsDir(fs, Workspace) /\ Fresh(fs, host) /\ host \in Nat
      /\ fs \in [Paths -> Nodes]
  BY HostAssumption DEF DiskInv, WellFormed
<1>2. p \in Paths /\ p \in Path /\ p # <<>> /\ ~withinOrEqual(p, Workspace) /\ Workspace \in Paths
      /\ withinOrEqual(p, p) /\ p \notin Private
  BY PlacesAssumption, PathsAre, PrefixSelf
<1>3. <<0, host + 1>> \in Seq(Nat) /\ host + 1 \in Nat /\ InodeOk(<<0, host + 1>>, host)
  BY <1>1, NewInode
<1>4. CASE HostReplace(p)
  <2>1. fs' = [q \in Paths |-> IF q \in Below(p) /\ fs[q].kind # "absent"
                               THEN [fs[q] EXCEPT !.ino = Append(@, host + 1)] ELSE fs[q]]
    BY <1>4 DEF HostReplace, HostStep
  <2>2. ASSUME NEW q \in Paths
        PROVE  /\ fs'[q] \in Nodes /\ fs'[q].kind = fs[q].kind /\ fs'[q].to = fs[q].to
               /\ fs'[q].ino = IF q \in Below(p) /\ fs[q].kind # "absent"
                               THEN Append(fs[q].ino, host + 1) ELSE fs[q].ino
    <3>1. fs[q] \in Nodes
      BY <1>1
    <3>2. Append(fs[q].ino, host + 1) \in Seq(Nat)
      BY <3>1, <1>3, AppendProperties DEF Nodes
    <3>3. fs'[q] = IF q \in Below(p) /\ fs[q].kind # "absent"
                   THEN [fs[q] EXCEPT !.ino = Append(@, host + 1)] ELSE fs[q]
      BY <2>1
    <3> QED
      BY <3>1, <3>2, <3>3 DEF Nodes
  <2>3. fs' \in [Paths -> Nodes]
    BY <2>1, <2>2
  <2> QED
    <3>1. NodesCopied(fs, fs', Below(p), host)
      BY <2>2, <2>3 DEF NodesCopied
    <3> QED
      BY <1>1, <1>2, <3>1, DiskCopied DEF DiskKept
<1>5. CASE HostWrite(p)
  <2>1. fs' = [q \in Paths |-> IF fs[q].ino = fs[p].ino THEN [fs[q] EXCEPT !.ver = @ + 1] ELSE fs[q]]
    BY <1>5 DEF HostWrite, HostStep
  <2>2. ASSUME NEW q \in Paths
        PROVE  /\ fs'[q] \in Nodes /\ fs'[q].kind = fs[q].kind /\ fs'[q].to = fs[q].to
               /\ fs'[q].ino = IF q \in {} /\ fs[q].kind # "absent"
                               THEN Append(fs[q].ino, host + 1) ELSE fs[q].ino
    <3>1. fs[q] \in Nodes
      BY <1>1
    <3>2. fs'[q] = IF fs[q].ino = fs[p].ino THEN [fs[q] EXCEPT !.ver = @ + 1] ELSE fs[q]
      BY <2>1, <1>1
    <3> QED
      BY <3>1, <3>2 DEF Nodes
  <2>3. fs' \in [Paths -> Nodes]
    <3>1. fs' = [q \in Paths |-> fs'[q]]
      BY <2>1, <1>1
    <3> QED
      BY <2>2, <3>1
  <2> QED
    <3>1. NodesCopied(fs, fs', {}, host)
      BY <2>2, <2>3 DEF NodesCopied
    <3> QED
      BY <1>1, <1>2, <3>1, DiskCopied DEF DiskKept
<1>6. CASE HostRemove(p)
  <2>1. fs' = [q \in Paths |-> IF q \in Below(p) THEN Absent ELSE fs[q]]
    BY <1>6 DEF HostRemove, HostStep
  <2>2. fs' \in [Paths -> Nodes]
    BY <2>1, <1>1, AbsentNode
  <2>3. fs'[p] = Absent
    BY <2>1, <1>2 DEF Below
  <2>4. \A q \in Paths : q # p =>
           IF q \in Below(p) THEN fs'[q].kind = "absent" /\ (fs'[q] = fs[q] \/ fs'[q] = Absent)
           ELSE fs'[q] = fs[q]
    BY <2>1, AbsentNode
  <2>5. /\ WellFormed(fs') /\ Fresh(fs', host + 1)
        /\ \A d \in Paths : IsDir(fs, d) /\ ~withinOrEqual(p, d) => IsDir(fs', d)
        /\ \A gs : FilesApart(fs, gs) => FilesApart(fs', gs)
    BY <1>1, <1>2, <2>2, <2>3, <2>4, AbsentNode, DiskCut
  <2> QED
    BY <1>1, <1>2, <2>5 DEF DiskKept
<1>7. ASSUME NEW to \in LinkTargets, HostLink(p, to) PROVE DiskKept(fs, host, fs', host + 1, grants)
  <2> DEFINE node == [kind |-> "link", ino |-> <<0, host + 1>>, ver |-> 0, to |-> to]
  <2>1. fs' = [q \in Paths |-> IF q = p THEN node ELSE IF q \in Below(p) THEN Absent ELSE fs[q]]
        /\ IsDir(fs, Dir(p))
    BY <1>7 DEF HostLink, HostStep
  <2>2. node \in Nodes /\ node.kind = "link" /\ InodeOk(node.ino, host) /\ node.to \in Paths
    BY <1>3, PlacesAre DEF Nodes
  <2> HIDE DEF node
  <2>3. fs' \in [Paths -> Nodes]
    BY <2>1, <2>2, <1>1, AbsentNode
  <2>4. fs'[p] = node
    BY <2>1, <1>2
  <2>5. \A q \in Paths : q # p =>
           IF q \in Below(p) THEN fs'[q].kind = "absent" /\ (fs'[q] = fs[q] \/ fs'[q] = Absent)
           ELSE fs'[q] = fs[q]
    BY <2>1, AbsentNode
  <2>6. /\ WellFormed(fs') /\ Fresh(fs', host + 1)
        /\ \A d \in Paths : IsDir(fs, d) /\ ~withinOrEqual(p, d) => IsDir(fs', d)
        /\ \A gs : FilesApart(fs, gs) => FilesApart(fs', gs)
    BY <1>1, <1>2, <2>1, <2>2, <2>3, <2>4, <2>5, DiskCut
  <2> QED
    BY <1>1, <1>2, <2>6 DEF DiskKept
\* a new file or directory, or another name of a file, where there is none below
<1>8. ASSUME NEW node \in Nodes, fs' = [fs EXCEPT ![p] = node], IsDir(fs, Dir(p)), ~IsDir(fs, p),
             node.kind \notin {"absent", "link"}, InodeOk(node.ino, host)
      PROVE  DiskKept(fs, host, fs', host + 1, grants)
  <2>3. fs' \in [Paths -> Nodes] /\ fs'[p] = node /\ \A q \in Paths : q # p => fs'[q] = fs[q]
    BY <1>8, <1>1, <1>2
  <2>4. ASSUME NEW q \in Paths, q # p, q \in Below(p) PROVE fs[q].kind = "absent"
    <3>1. q \in Path /\ q # <<>> /\ withinOrEqual(p, q)
      BY <2>4, PathsAre DEF Below
    <3>2. Exists(fs, q) <=> fs[q].kind # "absent"
      BY <1>2, <3>1 DEF Exists, Node
    <3> QED
      BY <3>1, <3>2, <2>4, <1>1, <1>2, <1>8, AncestorsAreDirs
  <2>5. \A q \in Paths : q # p =>
           IF q \in Below(p) THEN fs'[q].kind = "absent" /\ (fs'[q] = fs[q] \/ fs'[q] = Absent)
           ELSE fs'[q] = fs[q]
    BY <2>3, <2>4
  <2>6. /\ WellFormed(fs') /\ Fresh(fs', host + 1)
        /\ \A d \in Paths : IsDir(fs, d) /\ ~withinOrEqual(p, d) => IsDir(fs', d)
        /\ \A gs : FilesApart(fs, gs) => FilesApart(fs', gs)
    <3>1. fs' \in [Paths -> Nodes] /\ fs'[p] = node
      BY <2>3
    <3> QED
      BY ONLY <1>1, <1>2, <1>8, <3>1, <2>5, DiskCut
  <2> QED
    BY <1>1, <1>2, <2>6 DEF DiskKept
<1>9. ASSUME NEW kind \in {"dir", "file"}, HostCreate(p, kind)
      PROVE  DiskKept(fs, host, fs', host + 1, grants)
  <2> DEFINE node == [kind |-> kind, ino |-> <<0, host + 1>>, ver |-> 0, to |-> NoPath]
  <2>1. fs' = [fs EXCEPT ![p] = node] /\ IsDir(fs, Dir(p)) /\ fs[p].kind = "absent"
    BY <1>9 DEF HostCreate, HostStep
  <2>2. node \in Nodes /\ node.kind \notin {"absent", "link"} /\ InodeOk(node.ino, host)
    BY <1>3 DEF Nodes
  <2>3. ~IsDir(fs, p)
    BY <2>1, <1>2 DEF IsDir, Node
  <2> HIDE DEF node
  <2> QED
    BY <2>1, <2>2, <2>3, <1>8
<1>10. ASSUME NEW to \in LinkTargets, HostHardlink(p, to) PROVE DiskKept(fs, host, fs', host + 1, grants)
  <2>1. fs' = [fs EXCEPT ![p] = fs[to]] /\ IsDir(fs, Dir(p)) /\ ~IsDir(fs, p) /\ fs[to].kind = "file"
    BY <1>10 DEF HostHardlink, HostStep
  <2>2. fs[to] \in Nodes /\ InodeOk(fs[to].ino, host)
    BY <1>1, <2>1, PlacesAre, OldInode
  <2> QED
    BY <2>1, <2>2, <1>8
<1> QED
  BY <1>4, <1>5, <1>6, <1>7, <1>9, <1>10

\* What does not look at the disk is kept by every step of other programs.
LEMMA HostKeeps ==
  ASSUME LaunchInv, HostNext
  PROVE  LaunchInv'
<1>1. DiskInv /\ CaptureInv /\ PolicyInv /\ StartInv
  BY DEF LaunchInv
<1>2. /\ DiskKept(fs, host, fs', host', grants)
      /\ exe' \in [content : Nat, ctime : Nat] /\ exe'.ctime <= clock' /\ clock <= clock'
      /\ host' \in 0 .. MaxHost /\ clock' \in 0 .. MaxClock
      /\ UNCHANGED <<phase, launchVars>> /\ phase \in {"captured", "checked", "prepared", "starting"}
      /\ \/ exe' = exe
         \/ exe'.ctime = clock
  <2>1. /\ host \in Nat /\ host <= MaxHost /\ MaxHost \in Nat /\ MaxClock \in Nat /\ clock \in Nat
        /\ clock <= MaxClock /\ exe \in [content : Nat, ctime : Nat] /\ exe.ctime <= clock
    BY <1>1, HostAssumption DEF DiskInv
  <2>2. CASE \E p \in HostPaths : \/ HostReplace(p) \/ HostRemove(p) \/ HostWrite(p)
                                  \/ \E to \in LinkTargets : HostLink(p, to) \/ HostHardlink(p, to)
                                  \/ \E kind \in {"dir", "file"} : HostCreate(p, kind)
    <3>1. PICK p \in HostPaths : \/ HostReplace(p) \/ HostRemove(p) \/ HostWrite(p)
                                 \/ \E to \in LinkTargets : HostLink(p, to) \/ HostHardlink(p, to)
                                 \/ \E kind \in {"dir", "file"} : HostCreate(p, kind)
      BY <2>2
    <3>2. DiskKept(fs, host, fs', host + 1, grants)
      BY <1>1, <3>1, HostDisk
    <3>3. HostMay /\ host' = host + 1 /\ UNCHANGED <<exe, clock, phase, launchVars>>
      BY <3>1 DEF HostReplace, HostRemove, HostWrite, HostLink, HostHardlink, HostCreate, HostStep
    <3> QED
      BY <2>1, <3>2, <3>3 DEF HostMay
  <2>3. ASSUME HostPatch \/ Tick PROVE DiskKept(fs, host, fs', host', grants)
    <3>1. fs' = fs /\ (host' = host \/ host' = host + 1)
      BY <2>3 DEF HostPatch, Tick
    <3>2. Fresh(fs, host')
      <4>1. ASSUME NEW p \in Paths, NEW i \in 2 .. Len(fs[p].ino) PROVE fs[p].ino[i] <= host'
        <5>1. fs[p].ino \in Seq(Nat) /\ fs[p].ino[i] <= host
          BY <1>1 DEF DiskInv, WellFormed, Fresh, Nodes
        <5>2. i \in 1 .. Len(fs[p].ino)
          BY <5>1, LenProperties
        <5>3. fs[p].ino[i] \in Nat
          BY <5>1, <5>2, ElementOfSeq
        <5>4. host <= host' /\ host' \in Nat /\ host \in Nat
          BY <3>1, <2>1
        <5> DEFINE n == fs[p].ino[i]
        <5>5. n \in Nat /\ n <= host
          BY <5>1, <5>3
        <5> HIDE DEF n
        <5>6. n <= host'
          BY ONLY <5>4, <5>5
        <5> QED
          BY <5>6 DEF n
      <4> QED
        BY <4>1 DEF Fresh
    <3> QED
      BY <1>1, <3>1, <3>2 DEF DiskKept, DiskInv
  <2>4. CASE HostPatch
    BY <2>1, <2>3, <2>4 DEF HostPatch, HostMay
  <2>5. CASE Tick
    BY <2>1, <2>3, <2>5 DEF Tick
  <2> QED
    BY <2>2, <2>4, <2>5 DEF HostNext
<1>3. /\ req' = req /\ grants' = grants /\ exclusions' = exclusions /\ executables' = executables
      /\ protections' = protections /\ policy' = policy /\ phase' = phase
  BY <1>2 DEF launchVars
<1>4. DiskInv'
  BY <1>1, <1>2, <1>3 DEF DiskInv, DiskKept
<1>5. CaptureInv'
  <2>1. ASSUME NEW e \in executables PROVE HashSound(e, exe', clock')
    <3>1. IsExecutable(e) /\ HashSound(e, exe, clock)
      BY <1>1 DEF CaptureInv
    <3>2. e.ctime \in Nat /\ clock \in Nat /\ clock' \in Nat /\ clock <= clock'
      BY <3>1, <1>1, <1>2, HostAssumption DEF IsExecutable, DiskInv
    <3> QED
      BY <3>1, <3>2, <1>2 DEF HashSound
  <2>2. FilesApart(fs', grants)
    BY <1>1, <1>2 DEF DiskKept, CaptureInv
  <2> QED
    BY <1>1, <1>3, <2>1, <2>2 DEF CaptureInv
<1>6. PolicyInv'
  BY <1>1, <1>3 DEF PolicyInv
<1>7. StartInv'
  BY <1>2, <1>3 DEF StartInv, Started
<1> QED
  BY <1>4, <1>5, <1>6, <1>7 DEF LaunchInv

LEMMA RefuseKeeps ==
  ASSUME LaunchInv, Refuse
  PROVE  LaunchInv'
<1>1. /\ fs' = fs /\ exe' = exe /\ clock' = clock /\ host' = host /\ req' = req /\ grants' = grants
      /\ exclusions' = exclusions /\ executables' = executables /\ protections' = protections
      /\ policy' = policy /\ phase' = "refused"
  BY DEF Refuse, hostVars, launchVars
<1>2. DiskInv /\ CaptureInv /\ PolicyInv /\ StartInv
  BY DEF LaunchInv
<1>3. DiskInv'
  BY <1>1, <1>2 DEF DiskInv
<1>4. CaptureInv'
  BY <1>1, <1>2 DEF CaptureInv
<1>5. PolicyInv' /\ StartInv'
  BY <1>1, <1>2 DEF PolicyInv, StartInv, Started
<1> QED
  BY <1>3, <1>4, <1>5 DEF LaunchInv

LEMMA ResolveKeeps ==
  ASSUME LaunchInv, Resolve
  PROVE  LaunchInv'
<1> DEFINE gs == ResolveFilesystemGrants(fs, req.grants, req.workspace)
           xs == ResolveFilesystemExclusions(fs, req.exclusions)
           es == ResolveExecutableGrants(fs, exe, clock, req.executables)
<1>1. CASE {} \in {gs, xs, es}
  BY <1>1, RefuseKeeps DEF Resolve
<1>2. CASE {} \notin {gs, xs, es}
  <2>1. /\ phase = "plan" /\ phase' = "captured"
        /\ grants' = CHOOSE s \in gs : TRUE
        /\ exclusions' = CHOOSE s \in xs : TRUE
        /\ executables' = CHOOSE s \in es : TRUE
        /\ UNCHANGED <<hostVars, req, protections, policy>>
    BY <1>2 DEF Resolve
  <2>2. gs # {} /\ xs # {} /\ es # {}
    BY <1>2
  <2> HIDE DEF gs, xs, es
  <2>3. grants' \in gs /\ exclusions' \in xs /\ executables' \in es
    BY <2>1, <2>2
  <2>4. /\ fs' = fs /\ exe' = exe /\ clock' = clock /\ host' = host /\ req' = req
        /\ protections' = protections /\ policy' = policy
    BY <2>1 DEF hostVars
  <2>5. DiskInv /\ PolicyInv
    BY DEF LaunchInv
  <2>6. /\ WellFormed(fs) /\ IsDir(fs, Workspace) /\ exe \in [content : Nat, ctime : Nat] /\ clock \in Nat
        /\ req.grants \subseteq GrantIntents /\ req.exclusions \subseteq Intents /\ req.executables \subseteq Alphabet
        /\ \A p \in Paths : Len(fs[p].ino) <= 1
    BY <2>1, <2>5, HostAssumption, RequestIs DEF DiskInv
  <2>7. /\ GrantsSound(grants', req.workspace) /\ FilesApart(fs, grants')
        /\ \A d \in Private \cup {Sessions} : ~pathsOverlap(Workspace, d)
    BY <2>3, <2>6, ResolveGrants DEF gs
  <2>8. \A x \in exclusions' : IsExclusion(x)
    BY <2>3, <2>6, ResolveExclusions DEF xs
  <2>9. \A e \in executables' : IsExecutable(e) /\ HashSound(e, exe, clock)
    BY <2>3, <2>6, ResolveExecutables DEF es
  <2>10. CaptureInv'
    BY <2>1, <2>4, <2>7, <2>8, <2>9 DEF CaptureInv
  <2>11. DiskInv'
    BY <2>1, <2>4, <2>5 DEF DiskInv
  <2>12. PolicyInv' /\ StartInv'
    BY <2>1, <2>4, <2>5 DEF PolicyInv, StartInv, Started
  <2> QED
    BY <2>10, <2>11, <2>12 DEF LaunchInv
<1> QED
  BY <1>1, <1>2

LEMMA CheckKeeps ==
  ASSUME LaunchInv, Check
  PROVE  LaunchInv'
<1>1. CASE ~validateSandboxCheck(fs, exe, grants, exclusions, executables)
  BY <1>1, RefuseKeeps DEF Check
<1>2. CASE validateSandboxCheck(fs, exe, grants, exclusions, executables)
  <2>1. /\ phase = "captured" /\ phase' = "checked"
        /\ fs' = fs /\ exe' = exe /\ clock' = clock /\ host' = host /\ req' = req /\ grants' = grants
        /\ exclusions' = exclusions /\ executables' = executables /\ protections' = protections
        /\ policy' = policy
    BY <1>2 DEF Check, hostVars, launchVars
  <2>2. DiskInv /\ CaptureInv /\ PolicyInv /\ StartInv
    BY DEF LaunchInv
  <2>3. EvalSymlinks(fs, Workspace) = Workspace
    BY <2>2, WorkspaceIs DEF DiskInv
  <2>4. /\ ~pathsOverlap(Workspace, Operations)
        /\ \A g \in grants : ~pathsOverlap(g.path, Operations)
        /\ \A e \in executables : ~pathsOverlap(e.path, Operations)
    BY <1>2, <2>3 DEF validateSandboxCheck, revalidateFilesystemGrants, revalidateExecutableGrants
  <2>5. CaptureInv'
    BY <2>1, <2>2, <2>4 DEF CaptureInv
  <2>6. DiskInv'
    BY <2>1, <2>2 DEF DiskInv
  <2>7. PolicyInv' /\ StartInv'
    BY <2>1, <2>2 DEF PolicyInv, StartInv, Started
  <2> QED
    BY <2>5, <2>6, <2>7 DEF LaunchInv
<1> QED
  BY <1>1, <1>2

\* How the places of a Session hang below each other.
LEMMA PlaceOrder ==
  /\ {Workspace, Sessions, Operations, Session, SessionHome, Temporary, Executable, Home} \subseteq Path
  /\ withinOrEqual(Sessions, Session) /\ withinOrEqual(Session, SessionHome) /\ Session # SessionHome
  /\ withinOrEqual(Sessions, SessionHome) /\ withinOrEqual(Sessions, Temporary)
  /\ withinOrEqual(Session, Temporary)
  /\ ~pathWithin(SessionHome, SessionHome) /\ ~pathWithin(SessionHome, Session)
<1>1. {Workspace, Sessions, Operations, Session, SessionHome, Temporary, Executable, Home} \subseteq Path
  BY PlacesAre, PathsAre
<1>2. /\ withinOrEqual(Sessions, Session) /\ withinOrEqual(Session, Temporary) /\ Dir(SessionHome) = Session
      /\ SessionHome \in Paths
  BY PlacesAssumption DEF pathWithin
<1>3. withinOrEqual(Session, SessionHome) /\ Session # SessionHome
  BY <1>2, DirOfPath
<1>4. withinOrEqual(Sessions, SessionHome) /\ withinOrEqual(Sessions, Temporary)
  BY <1>1, <1>2, <1>3, PrefixTrans
<1>5. ~pathWithin(SessionHome, SessionHome) /\ ~pathWithin(SessionHome, Session)
  BY <1>1, <1>3, PrefixLength DEF pathWithin
<1> QED
  BY <1>1, <1>2, <1>3, <1>4, <1>5

\* What compileLinuxFilesystemPlan accepts.
LEMMA CompiledIs ==
  ASSUME NEW r, NEW f, NEW gs, NEW xs, NEW es, NEW ps,
         NEW q \in compileLinuxFilesystemPlan(r, f, gs, xs, es, ps, Workspace)
  PROVE  /\ CompiledFor(r, f, gs, xs, es, q) /\ q.os = "linux" /\ r.mcp = "none"
         /\ \A g \in gs : g.logical = g.path
         /\ \A e \in es : e.logical = e.path
         /\ \A x \in xs : x.logical = x.path
         /\ \A p \in ps : ~pathsOverlap(p.path, SessionHome)
<1> DEFINE all == LinuxAuthorities(r, f, gs, es, Workspace)
           denied == {x.path : x \in xs}
           fixed == {p.path : p \in ps}
<1>1. /\ r.mcp = "none"
      /\ \A g \in gs : g.logical = g.path
      /\ \A e \in es : e.logical = e.path
      /\ \A x \in xs : LinuxExclusionSound(f, x)
      /\ \A a \in all : LinuxAuthoritySound(f, a, all, denied, fixed)
      /\ \A a \in all : validateTree(f, a.path, denied)
      /\ q = LinuxMounts(f, all, denied)
  BY DEF compileLinuxFilesystemPlan
<1>2. ASSUME NEW a \in all PROVE LinuxAuthoritySound(f, a, all, denied, {})
  BY <1>1 DEF LinuxAuthoritySound
<1>3. q.os = "linux"
  BY <1>1 DEF LinuxMounts
<1>4. ASSUME NEW p \in ps PROVE ~pathsOverlap(p.path, SessionHome)
  <2> DEFINE home == Authority(SessionHome, "rw", "dir", FALSE, TRUE)
  <2>1. home \in all
    BY DEF LinuxAuthorities
  <2>2. home.path = SessionHome /\ home.access = "rw"
    BY DEF Authority
  <2>3. LinuxAuthoritySound(f, home, all, denied, fixed)
    BY <1>1, <2>1
  <2> HIDE DEF home
  <2>4. p.path \in denied \cup fixed
    OBVIOUS
  <2> QED
    BY <2>2, <2>3, <2>4 DEF LinuxAuthoritySound
<1>5. CompiledFor(r, f, gs, xs, es, q)
  BY <1>1, <1>2 DEF CompiledFor, Denied
<1> QED
  BY <1>1, <1>3, <1>4, <1>5 DEF LinuxExclusionSound

\* The captured Session protections.
LEMMA ProtectionsAre ==
  ASSUME NEW f, NEW r \in Requests
  PROVE  LET ps == UNION {ProtectionFor(f, p) : p \in r.protections}
         IN  /\ \A q \in ps : q.path \in r.protections /\ q.path \in Path /\ pathWithin(SessionHome, q.path)
             /\ \A q \in SessionRoots(f) : q.path \in {Session, SessionHome}
             /\ Selected0(ps \cup SessionRoots(f)) = ps
<1> DEFINE ps == UNION {ProtectionFor(f, p) : p \in r.protections}
<1>1. ASSUME NEW q \in ps
      PROVE  q.path \in r.protections /\ q.path \in Path /\ pathWithin(SessionHome, q.path)
  <2>1. PICK p \in r.protections : q \in ProtectionFor(f, p)
    OBVIOUS
  <2>2. q.path = p /\ pathWithin(SessionHome, p)
    BY <2>1 DEF ProtectionFor
  <2> QED
    BY <2>1, <2>2, RequestIs, PathsAre
<1>2. ASSUME NEW q \in SessionRoots(f) PROVE q.path \in {Session, SessionHome}
  BY DEF SessionRoots
<1>3. Selected0(ps \cup SessionRoots(f)) = ps
  <2> HIDE DEF ps
  <2> QED
    BY <1>1, <1>2, PlaceOrder DEF Selected0
<1> QED
  BY <1>1, <1>2, <1>3

LEMMA PrepareKeeps ==
  ASSUME LaunchInv, PrepareProcess
  PROVE  LaunchInv'
<1> DEFINE ps == UNION {ProtectionFor(fs, p) : p \in req.protections}
<1>1. CASE phase' = "refused" /\ Refuse
  BY <1>1, RefuseKeeps
<1>2. CASE /\ phase = "checked"
           /\ Cardinality(ps) = Cardinality(req.protections)
           /\ BackendPolicy(fs, ps) # {}
           /\ protections' = ps \cup SessionRoots(fs)
           /\ policy' = CHOOSE q \in BackendPolicy(fs, ps) : TRUE
           /\ phase' = "prepared"
           /\ UNCHANGED <<hostVars, req, grants, exclusions, executables>>
  <2>1. /\ fs' = fs /\ exe' = exe /\ clock' = clock /\ host' = host /\ req' = req /\ grants' = grants
        /\ exclusions' = exclusions /\ executables' = executables
    BY <1>2 DEF hostVars
  <2>2. DiskInv /\ CaptureInv /\ PolicyInv /\ StartInv /\ req \in Requests
    BY DEF LaunchInv, DiskInv
  <2>3. EvalSymlinks(fs, Workspace) = Workspace
    BY <2>2, WorkspaceIs DEF DiskInv
  <2>4. /\ \A q \in ps : q.path \in req.protections /\ q.path \in Path /\ pathWithin(SessionHome, q.path)
        /\ \A q \in SessionRoots(fs) : q.path \in {Session, SessionHome}
        /\ Selected0(protections') = ps
    BY <2>2, <1>2, ProtectionsAre
  <2>5. policy' \in BackendPolicy(fs, ps)
    BY <1>2
  <2>6. req.os \in {"darwin", "linux"} /\ req.protections \subseteq Paths /\ IsFiniteSet(req.protections)
    BY <2>2, RequestIs
  <2> HIDE DEF ps
  <2>7. CASE req.os = "darwin"
    <3>1. policy' = buildSeatbeltPolicy(req, grants, exclusions, executables, ps, Workspace)
      BY <2>3, <2>5, <2>7 DEF BackendPolicy
    <3>2. policy'.os = "darwin"
      BY <3>1 DEF buildSeatbeltPolicy
    <3>3. PolicyInv'
      BY <3>1, <3>2, <2>1, <2>4, <2>7, <1>2, PlaceOrder DEF PolicyInv
    <3> QED
      BY <3>3, <1>2, <2>1, <2>2 DEF LaunchInv, DiskInv, CaptureInv, StartInv, Started
  <2>8. CASE req.os = "linux"
    <3>1. policy' \in compileLinuxFilesystemPlan(req, fs, grants, exclusions, executables, ps, Workspace)
      BY <2>3, <2>5, <2>8 DEF BackendPolicy
    <3>2. policy'.os = "linux" /\ \A q \in ps : ~pathsOverlap(q.path, SessionHome)
      BY <3>1, CompiledIs
    <3>3. ps = {}
      BY <3>2, <2>4 DEF pathsOverlap, pathWithin
    <3>4. req.protections = {}
      <4>1. Cardinality(req.protections) = 0
        BY <3>3, <1>2, FS_EmptySet
      <4> QED
        BY <4>1, <2>6, FS_EmptySet
    <3>5. PolicyInv'
      BY <3>2, <3>4, <2>1, <2>4, <2>8, <1>2, PlaceOrder DEF PolicyInv
    <3> QED
      BY <3>5, <1>2, <2>1, <2>2 DEF LaunchInv, DiskInv, CaptureInv, StartInv, Started
  <2> QED
    BY <2>6, <2>7, <2>8
<1> QED
  BY <1>1, <1>2 DEF PrepareProcess, Refuse

\* What the last validation before the supervisor starts accepts.
LEMMA StartKeeps ==
  ASSUME LaunchInv, StartProcess
  PROVE  LaunchInv'
<1>1. CASE Refuse
  BY <1>1, RefuseKeeps
<1>2. CASE phase = "prepared" /\ phase' = "starting" /\ UNCHANGED <<hostVars, launchVars>>
  <2>1. /\ fs' = fs /\ exe' = exe /\ clock' = clock /\ host' = host /\ req' = req /\ grants' = grants
        /\ exclusions' = exclusions /\ executables' = executables /\ protections' = protections
        /\ policy' = policy
    BY <1>2 DEF hostVars, launchVars
  <2> QED
    BY <1>2, <2>1 DEF LaunchInv, DiskInv, CaptureInv, PolicyInv, StartInv, Started
<1> QED
  BY <1>1, <1>2 DEF StartProcess

\* The macOS supervisor releases the target under the rules of the preparation.
LEMMA ReleaseKeeps ==
  ASSUME LaunchInv, startSupervisor
  PROVE  LaunchInv'
<1>1. CASE Refuse
  BY <1>1, RefuseKeeps
<1>2. CASE phase = "starting" /\ req.os = "darwin" /\ phase' = "started" /\ UNCHANGED <<hostVars, launchVars>>
  <2>1. /\ fs' = fs /\ exe' = exe /\ clock' = clock /\ host' = host /\ req' = req /\ grants' = grants
        /\ exclusions' = exclusions /\ executables' = executables /\ protections' = protections
        /\ policy' = policy
    BY <1>2 DEF hostVars, launchVars
  <2> QED
    BY <1>2, <2>1 DEF LaunchInv, DiskInv, CaptureInv, PolicyInv, StartInv, Started
<1> QED
  BY <1>1, <1>2 DEF startSupervisor

\* The snapshot of the Linux supervisor changes what the compiler compares,
\* never what it mounts.
LEMMA SnapshotKeepsGrants ==
  ASSUME NEW r, NEW f, NEW gs, \A g \in gs : IsGrant(g), NEW es, \A e \in es : IsExecutable(e)
  PROVE  LET now(g) == [g EXCEPT !.logical = g.path, !.identity = identityFromFileInfo(f, g.path)]
         IN  LinuxAuthorities(r, f, {now(g) : g \in gs}, {now(e) : e \in es}, Workspace)
               = LinuxAuthorities(r, f, gs, es, Workspace)
<1> DEFINE now(g) == [g EXCEPT !.logical = g.path, !.identity = identityFromFileInfo(f, g.path)]
           gs2 == {now(g) : g \in gs}
           es2 == {now(e) : e \in es}
<1>1. ASSUME NEW g \in gs
      PROVE  /\ now(g).path = g.path /\ now(g).access = g.access /\ now(g).type = g.type
             /\ now(g).effective = g.effective
  BY DEF IsGrant
<1>2. ASSUME NEW e \in es PROVE now(e).path = e.path
  BY DEF IsExecutable
<1> HIDE DEF now
<1>3. {Authority(g.path, g.access, g.type, FALSE, FALSE) : g \in {h \in gs2 : h.effective}}
        = {Authority(g.path, g.access, g.type, FALSE, FALSE) : g \in {h \in gs : h.effective}}
  <2> DEFINE old == {h \in gs : h.effective}
             new == {h \in gs2 : h.effective}
             of(g) == Authority(g.path, g.access, g.type, FALSE, FALSE)
  <2>1. ASSUME NEW g \in gs PROVE of(now(g)) = of(g)
    BY <1>1
  <2>2. ASSUME NEW g \in new PROVE \E h \in old : of(g) = of(h)
    <3>1. PICK h \in gs : g = now(h)
      OBVIOUS
    <3>2. h \in old
      BY <3>1, <1>1
    <3> QED
      BY <3>1, <3>2, <2>1
  <2>3. ASSUME NEW h \in old PROVE \E g \in new : of(g) = of(h)
    <3>1. now(h) \in new
      BY <1>1
    <3> QED
      BY <3>1, <2>1
  <2> HIDE DEF old, new, of
  <2>4. {of(g) : g \in new} = {of(g) : g \in old}
    BY <2>2, <2>3
  <2> QED
    BY <2>4 DEF old, new, of
<1>4. {Authority(e.path, "ro", "file", TRUE, FALSE) : e \in es2}
        = {Authority(e.path, "ro", "file", TRUE, FALSE) : e \in es}
  BY <1>2
<1> HIDE DEF gs2, es2
<1>5. LinuxAuthorities(r, f, gs2, es2, Workspace) = LinuxAuthorities(r, f, gs, es, Workspace)
  BY <1>3, <1>4 DEF LinuxAuthorities
<1> QED
  BY <1>5 DEF gs2, es2, now

LEMMA SnapshotKeepsExclusions ==
  ASSUME NEW f, NEW xs, \A x \in xs : IsExclusion(x)
  PROVE  LET xs2 == {[x EXCEPT !.witness.identity = identityFromFileInfo(f, x.witness.path)] : x \in xs}
         IN  /\ Denied(xs2) = Denied(xs)
             /\ (\A x \in xs2 : LinuxExclusionSound(f, x)) => \A x \in xs : LinuxExclusionSound(f, x)
<1> DEFINE now(x) == [x EXCEPT !.witness.identity = identityFromFileInfo(f, x.witness.path)]
           xs2 == {now(x) : x \in xs}
<1>1. ASSUME NEW x \in xs
      PROVE  /\ now(x).path = x.path /\ now(x).logical = x.logical /\ now(x).exists = x.exists
             /\ now(x).firstMissing = x.firstMissing /\ now(x).witness.path = x.witness.path
  BY DEF IsExclusion
<1> HIDE DEF now
<1>2. Denied(xs2) = Denied(xs)
  BY <1>1 DEF Denied
<1>3. ASSUME \A y \in xs2 : LinuxExclusionSound(f, y), NEW x \in xs PROVE LinuxExclusionSound(f, x)
  <2>1. LinuxExclusionSound(f, now(x))
    BY <1>3
  <2> QED
    BY <2>1, <1>1 DEF LinuxExclusionSound
<1>4. (\A y \in xs2 : LinuxExclusionSound(f, y)) => \A x \in xs : LinuxExclusionSound(f, x)
  BY <1>3
<1> QED
  BY <1>2, <1>4 DEF now

LEMMA SuperviseKeeps ==
  ASSUME LaunchInv, Supervise
  PROVE  LaunchInv'
<1> DEFINE now(g) == [g EXCEPT !.logical = g.path, !.identity = identityFromFileInfo(fs, g.path)]
           gs == {now(g) : g \in grants}
           xs == {[x EXCEPT !.witness.identity = identityFromFileInfo(fs, x.witness.path)] : x \in exclusions}
           es == {now(e) : e \in executables}
           ps == {q \in protections : q.path \in req.protections}
           plan == compileLinuxFilesystemPlan(req, fs, gs, xs, es, ps, EvalSymlinks(fs, Workspace))
<1> HIDE DEF now, gs, xs, es, ps, plan
<1>1. CASE Refuse
  BY <1>1, RefuseKeeps
<1>2. CASE /\ phase = "starting" /\ req.os = "linux" /\ phase' = "started" /\ plan # {}
           /\ policy' = CHOOSE q \in plan : TRUE
           /\ UNCHANGED <<hostVars, req, grants, exclusions, executables, protections>>
  <2>1. /\ fs' = fs /\ exe' = exe /\ clock' = clock /\ host' = host /\ req' = req /\ grants' = grants
        /\ exclusions' = exclusions /\ executables' = executables /\ protections' = protections
        /\ phase = "starting" /\ phase' = "started"
    BY <1>2 DEF hostVars
  <2>2. DiskInv /\ CaptureInv /\ PolicyInv /\ StartInv
    BY DEF LaunchInv
  <2>3. EvalSymlinks(fs, Workspace) = Workspace
    BY <2>2, WorkspaceIs DEF DiskInv
  <2>4. /\ \A g \in grants : IsGrant(g)
        /\ \A x \in exclusions : IsExclusion(x)
        /\ \A e \in executables : IsExecutable(e)
    BY <2>2 DEF CaptureInv, GrantsSound
  <2>5. LinuxAuthorities(req, fs, gs, es, Workspace) = LinuxAuthorities(req, fs, grants, executables, Workspace)
    BY <2>4, SnapshotKeepsGrants DEF gs, es, now
  <2>6. /\ Denied(xs) = Denied(exclusions)
        /\ (\A x \in xs : LinuxExclusionSound(fs, x)) => \A x \in exclusions : LinuxExclusionSound(fs, x)
    BY <2>4, SnapshotKeepsExclusions DEF xs
  <2>7. policy' \in plan
    BY <1>2
  <2>8. policy' \in compileLinuxFilesystemPlan(req, fs, gs, xs, es, ps, Workspace)
    BY <2>3, <2>7 DEF plan
  <2>9. CompiledFor(req, fs, gs, xs, es, policy') /\ policy'.os = "linux"
    BY <2>8, CompiledIs
  <2>10. CompiledFor(req, fs, grants, exclusions, executables, policy')
    BY <2>5, <2>6, <2>9 DEF CompiledFor
  <2>11. req.os = "linux"
    BY <1>2
  <2>12. DiskInv' /\ CaptureInv'
    BY <2>1, <2>2 DEF DiskInv, CaptureInv
  <2>13. PolicyInv'
    BY <2>1, <2>2, <2>9, <2>11 DEF PolicyInv
  <2>14. StartInv'
    BY <2>1, <2>10, <2>11 DEF StartInv, Started
  <2> QED
    BY <2>12, <2>13, <2>14 DEF LaunchInv
<1> QED
  BY <1>1, <1>2 DEF Supervise, now, gs, xs, es, ps, plan

-----------------------------------------------------------------------------
(* Launch authority: what the policies mean                                 *)

\* The authorities the Linux compiler accepts.
LEMMA AuthoritiesAre ==
  ASSUME NEW r \in Requests, NEW f, WellFormed(f), NEW gs, \A g \in gs : IsGrant(g),
         NEW xs, \A x \in xs : IsExclusion(x), NEW es, \A e \in es : IsExecutable(e),
         NEW q, CompiledFor(r, f, gs, xs, es, q)
  PROVE  LET all == LinuxAuthorities(r, f, gs, es, Workspace)
         IN  /\ AuthoritiesSound(f, all, Denied(xs)) /\ q = LinuxMounts(f, all, Denied(xs))
             /\ \A a \in all : a.path \in Path /\ (a.type = "dir" <=> IsDir(f, a.path))
<1> DEFINE all == LinuxAuthorities(r, f, gs, es, Workspace)
<1>1. \A a \in all : LinuxAuthoritySound(f, a, all, Denied(xs), {})
  BY DEF CompiledFor
<1>2. ASSUME NEW a \in all PROVE a.path \in Paths /\ a.access \in {"ro", "rw"}
  <2>1. r.workspace \in {"ro", "rw"}
    BY RequestIs
  <2>2. CASE a \in {Authority(Workspace, r.workspace, "dir", FALSE, FALSE),
                    Authority(SessionHome, "rw", "dir", FALSE, TRUE),
                    Authority(Temporary, "rw", "dir", FALSE, TRUE),
                    Authority(Executable, "ro", "file", TRUE, FALSE)}
    BY <2>1, <2>2, PlacesAre DEF Authority
  <2>3. CASE a \in {Authority(g.path, g.access, g.type, FALSE, FALSE) : g \in {h \in gs : h.effective}}
    BY <2>3 DEF Authority, IsGrant
  <2>4. CASE a \in {Authority(e.path, "ro", "file", TRUE, FALSE) : e \in es}
    BY <2>4 DEF Authority, IsExecutable
  <2>5. CASE a \in {Authority(p, "ro", IF IsDir(f, p) THEN "dir" ELSE "file", TRUE, FALSE) : p \in RuntimeInputs}
    BY <2>5, PlacesAre DEF Authority
  <2> QED
    BY <2>2, <2>3, <2>4, <2>5 DEF LinuxAuthorities
<1>3. Denied(xs) \subseteq Path
  BY DEF Denied, IsExclusion
<1> HIDE DEF all
<1>4. AuthoritiesSound(f, all, Denied(xs))
  BY <1>1, <1>2, <1>3 DEF AuthoritiesSound, LinuxAuthoritySound
<1>5. \A a \in all : a.path \in Path /\ (a.type = "dir" <=> IsDir(f, a.path))
  BY <1>1, <1>2, PathsAre DEF LinuxAuthoritySound
<1> QED
  BY <1>4, <1>5 DEF CompiledFor, all

\* Where an authority reaches: a file authority reaches the file alone.
LEMMA AuthorityReaches ==
  ASSUME NEW f, WellFormed(f), NEW a, a.path \in Path, a.type = "dir" <=> IsDir(f, a.path),
         NEW p \in Paths, withinOrEqual(a.path, p), Exists(f, p) \/ IsDir(f, Dir(p))
  PROVE  a.type = "dir" \/ a.path = p
<1>1. p \in Path /\ p # <<>> /\ Dir(p) \in Path
  BY DirOfPath
<1>2. CASE a.path # p /\ Exists(f, p)
  BY <1>1, <1>2, AncestorsAreDirs
<1>3. CASE a.path # p /\ IsDir(f, Dir(p))
  <2>1. withinOrEqual(a.path, Dir(p))
    BY <1>1, <1>3, DirMeans
  <2>2. a.path = Dir(p) \/ IsDir(f, a.path)
    BY <1>1, <1>3, <2>1, NodesAre, AncestorsAreDirs
  <2> QED
    BY <1>3, <2>2
<1> QED
  BY <1>2, <1>3

\* Of the grants that give what g gives, one is in effect or the workspace
\* gives it: a shortest one is dominated by no other.
LEMMA GrantInEffect ==
  ASSUME NEW gs, NEW access \in {"ro", "rw"}, GrantsSound(gs, access), NEW g \in gs
  PROVE  \/ WorkspaceGives(g, access)
         \/ \E h \in gs : h.effective /\ dominates(h, g)
<1> DEFINE over == {h \in gs : dominates(h, g)}
           size(h) == 2 * Len(h.path) + (IF h.access = "rw" THEN 0 ELSE 1)
           T == {size(h) : h \in over}
<1>1. ASSUME NEW h \in gs PROVE h.path \in Path /\ h.access \in {"ro", "rw"} /\ Len(h.path) \in Nat
  BY PathsAre DEF GrantsSound, IsGrant, Path
<1>2. g \in over
  BY <1>1, PrefixSelf DEF dominates
<1>10. ASSUME NEW h \in gs
       PROVE  /\ size(h) \in Nat /\ 2 * Len(h.path) <= size(h) /\ size(h) <= 2 * Len(h.path) + 1
              /\ h.access = "rw" => size(h) = 2 * Len(h.path)
              /\ h.access = "ro" => size(h) = 2 * Len(h.path) + 1
  <2>1. PICK n \in Nat : n = Len(h.path)
    BY <1>1
  <2>2. CASE h.access = "rw"
    <3>1. size(h) = 2 * n + 0 /\ 2 * n + 0 = 2 * n
      BY <2>1, <2>2
    <3> HIDE DEF size
    <3> QED
      BY <3>1, <2>1, <2>2
  <2>3. CASE h.access # "rw"
    <3>1. size(h) = 2 * n + 1
      BY <2>1, <2>3
    <3> HIDE DEF size
    <3> QED
      BY <3>1, <2>1, <2>3
  <2> QED
    BY <2>2, <2>3
<1> HIDE DEF size
<1>3. T \subseteq Nat /\ T # {}
  BY <1>2, <1>10
<1>4. PICK t \in T : \A s \in T : t <= s
  BY <1>3, LeastOf
<1>5. PICK h \in over : t = size(h)
  BY <1>4
<1>6. h \in gs /\ dominates(h, g)
  BY <1>5
<1>7. ASSUME NEW k \in gs, dominates(k, h), ~dominates(h, k) PROVE FALSE
  <2>1. dominates(k, g)
    <3>1. withinOrEqual(k.path, g.path)
      BY <1>1, <1>6, <1>7, PrefixTrans DEF dominates
    <3> QED
      BY <3>1, <1>1, <1>6, <1>7 DEF dominates
  <2>2. size(h) <= size(k)
    <3>1. size(k) \in T
      BY <1>7, <2>1
    <3> QED
      BY <1>4, <1>5, <3>1
  <2>3. withinOrEqual(k.path, h.path) /\ (k.access = "rw" \/ h.access = "ro")
    BY <1>7 DEF dominates
  <2>4. CASE k.path = h.path
    <3>1. withinOrEqual(h.path, k.path)
      BY <2>4, <1>1, PrefixSelf
    <3>2. h.access = "ro" /\ k.access = "rw"
      BY <3>1, <1>1, <1>6, <1>7 DEF dominates
    <3> QED
      BY <2>2, <2>4, <3>2, <1>1, <1>6, <1>7, <1>10
  <2>5. CASE k.path # h.path
    <3>1. Len(k.path) < Len(h.path) /\ Len(k.path) \in Nat /\ Len(h.path) \in Nat
      BY <2>3, <2>5, <1>1, <1>6, PrefixLength
    <3> QED
      BY <2>2, <3>1, <1>6, <1>7, <1>10
  <2> QED
    BY <2>4, <2>5
<1>8. h.effective \/ WorkspaceGives(h, access)
  BY <1>6, <1>7 DEF GrantsSound
<1>9. ASSUME WorkspaceGives(h, access) PROVE WorkspaceGives(g, access)
  <2>1. withinOrEqual(Workspace, h.path) /\ withinOrEqual(h.path, g.path)
    BY <1>6, <1>9 DEF WorkspaceGives, dominates
  <2>2. withinOrEqual(Workspace, g.path)
    BY <2>1, <1>1, <1>6, PlaceOrder, PrefixTrans
  <2> QED
    BY <2>2, <1>1, <1>6, <1>9 DEF WorkspaceGives, dominates
<1> QED
  BY <1>6, <1>8, <1>9

-----------------------------------------------------------------------------
(* Launch authority: the invariant                                          *)

LEMMA LaunchSteps ==
  ASSUME LaunchInv, LaunchNext
  PROVE  LaunchInv'
BY ResolveKeeps, CheckKeeps, PrepareKeeps, StartKeeps, ReleaseKeeps, SuperviseKeeps, HostKeeps DEF LaunchNext

LEMMA LaunchStutters ==
  ASSUME LaunchInv, UNCHANGED authorityVars
  PROVE  LaunchInv'
BY DEF LaunchInv, DiskInv, CaptureInv, PolicyInv, StartInv, Started, authorityVars

\* What ACS captured stays sound until the target starts: the reduced grants
\* still lead to one that gives as much, no captured path overlaps ACS's own
\* state, a reused digest is that of the bytes, and the policy is the one the
\* backend compiles from the captures (Resolve, Check, Prepare, Start).
THEOREM LaunchInvariant == LaunchSpec => []LaunchInv
<1>1. LaunchInv /\ [LaunchNext]_authorityVars => LaunchInv'
  BY LaunchSteps, LaunchStutters
<1> QED
  BY LaunchBegins, <1>1, PTL DEF LaunchSpec

LEMMA TypesOfLaunch == LaunchInv => LaunchTypeOK
<1> SUFFICES ASSUME LaunchInv PROVE LaunchTypeOK
  OBVIOUS
<1>1. DiskInv /\ CaptureInv /\ PolicyInv
  BY DEF LaunchInv
<1>2. \A g \in grants : g.path \in Paths /\ g.effective \in BOOLEAN
  BY <1>1 DEF CaptureInv, GrantsSound, IsGrant
<1>3. policy.os = IF phase \in {"prepared", "starting", "started"} THEN req.os
                  ELSE IF phase = "refused" THEN policy.os ELSE "none"
  BY <1>1 DEF PolicyInv, DiskInv, NoPolicy
<1> QED
  BY <1>1, <1>2, <1>3 DEF LaunchTypeOK, DiskInv

-----------------------------------------------------------------------------
(* Launch authority: the Seatbelt rules                                     *)

\* What buildSeatbeltPolicy allows.
LEMMA SeatbeltAllows ==
  ASSUME NEW r, NEW gs, NEW xs, NEW es, NEW ps, NEW workspace,
         NEW q, q = buildSeatbeltPolicy(r, gs, xs, es, ps, workspace), NEW t
  PROVE  /\ t \in q.readTrees <=> \/ t \in {workspace, Session} \cup RuntimeInputs
                                  \/ \E g \in gs : g.effective /\ g.type = "dir" /\ g.path = t
         /\ t \in q.readFiles <=> \/ t = Executable
                                  \/ \E g \in gs : g.effective /\ g.type = "file" /\ g.path = t
                                  \/ \E e \in es : t = e.path \/ t = e.logical
         /\ t \in q.writeTrees <=> \/ t = Session
                                   \/ r.workspace = "rw" /\ t = workspace
                                   \/ \E g \in gs : /\ g.effective /\ g.access = "rw"
                                                    /\ g.type = "dir" /\ g.path = t
         /\ t \in q.writeFiles <=> \E g \in gs : /\ g.effective /\ g.access = "rw"
                                                 /\ g.type = "file" /\ g.path = t
<1> DEFINE effective == {g \in gs : g.effective}
           writable == {g \in effective : g.access = "rw"}
           trees(s) == {g.path : g \in {h \in s : h.type = "dir"}}
           files(s) == {g.path : g \in {h \in s : h.type = "file"}}
<1>1. /\ q.readTrees = {workspace, Session} \cup RuntimeInputs \cup trees(effective)
      /\ q.readFiles = {Executable} \cup files(effective) \cup {e.path : e \in es} \cup {e.logical : e \in es}
      /\ q.writeTrees = {Session} \cup trees(writable) \cup (IF r.workspace = "rw" THEN {workspace} ELSE {})
      /\ q.writeFiles = files(writable)
  BY DEF buildSeatbeltPolicy
<1>2. t \in trees(effective) <=> \E g \in gs : g.effective /\ g.type = "dir" /\ g.path = t
  OBVIOUS
<1>3. t \in files(effective) <=> \E g \in gs : g.effective /\ g.type = "file" /\ g.path = t
  OBVIOUS
<1>4. t \in trees(writable) <=> \E g \in gs : g.effective /\ g.access = "rw" /\ g.type = "dir" /\ g.path = t
  OBVIOUS
<1>5. t \in files(writable) <=> \E g \in gs : g.effective /\ g.access = "rw" /\ g.type = "file" /\ g.path = t
  OBVIOUS
<1>6. t \in {e.path : e \in es} \cup {e.logical : e \in es} <=> \E e \in es : t = e.path \/ t = e.logical
  OBVIOUS
<1> HIDE DEF trees, files, effective, writable
<1> QED
  BY <1>1, <1>2, <1>3, <1>4, <1>5, <1>6

\* What it denies, and what it keeps from being written.
SpelledBy(x, t) ==
  ~x.exists /\ \E s \in {x.logical, x.path} : t \in seatbeltSpellingInsensitivePattern(s)
LEMMA SeatbeltDenies ==
  ASSUME NEW r, NEW gs, NEW xs, NEW es, NEW ps, NEW workspace,
         NEW q, q = buildSeatbeltPolicy(r, gs, xs, es, ps, workspace), NEW t
  PROVE  /\ t \in q.deniedTrees <=> \E x \in xs : t = x.logical \/ t = x.path
         /\ t \in q.deniedSpellings <=> \E x \in xs : SpelledBy(x, t)
         /\ t \in q.fixedFiles <=> \/ t \in {Session, SessionHome}
                                   \/ \E s \in ps : t = s.path \/ t \in ProtectionAncestors(s.path)
                                   \/ \E x \in xs : t \in Ancestors(x.logical) \/ t \in Ancestors(x.path)
         /\ t \in q.fixedTrees <=> \E s \in ps : s.recursive /\ t = s.path
         /\ t \in q.fixedSpellings <=> \E x \in xs : t \in AbsentParents(x)
         /\ q.mcp = r.mcp /\ q.os = "darwin"
<1>1. /\ q.deniedTrees = {x.logical : x \in xs} \cup {x.path : x \in xs}
      /\ q.deniedSpellings = UNION {seatbeltAbsentExclusionSpellingRules(x) : x \in xs}
      /\ q.fixedFiles = {s.path : s \in ps} \cup {Session, SessionHome}
                        \cup (UNION {ProtectionAncestors(s.path) : s \in ps})
                        \cup (UNION {ExclusionAncestors(x) : x \in xs})
      /\ q.fixedTrees = {s.path : s \in {s \in ps : s.recursive}}
      /\ q.fixedSpellings = UNION {AbsentParents(x) : x \in xs}
      /\ q.mcp = r.mcp /\ q.os = "darwin"
  BY DEF buildSeatbeltPolicy
<1>2. t \in q.deniedTrees <=> \E x \in xs : t = x.logical \/ t = x.path
  BY <1>1
<1>3. ASSUME NEW x \in xs
      PROVE  t \in seatbeltAbsentExclusionSpellingRules(x) <=> SpelledBy(x, t)
  BY DEF seatbeltAbsentExclusionSpellingRules, SpelledBy
<1>4. t \in q.deniedSpellings <=> \E x \in xs : t \in seatbeltAbsentExclusionSpellingRules(x)
  BY <1>1
<1>5. t \in q.fixedFiles <=> \/ t \in {Session, SessionHome}
                             \/ \E s \in ps : t = s.path \/ t \in ProtectionAncestors(s.path)
                             \/ \E x \in xs : t \in Ancestors(x.logical) \/ t \in Ancestors(x.path)
  BY <1>1 DEF ExclusionAncestors
<1>6. t \in q.fixedTrees <=> \E s \in ps : s.recursive /\ t = s.path
  BY <1>1
<1>7. t \in q.fixedSpellings <=> \E x \in xs : t \in AbsentParents(x)
  BY <1>1
<1>8. t \in q.deniedSpellings <=> \E x \in xs : SpelledBy(x, t)
  BY <1>3, <1>4
<1> QED
  BY <1>1, <1>2, <1>5, <1>6, <1>7, <1>8

\* A path that respells no excluded one is denied by name alone.
LEMMA SpellingsApart ==
  ASSUME NEW x, IsExclusion(x), NEW p \in Path, ~Respells(x, p)
  PROVE  /\ \A s \in {x.logical, x.path} : \A t \in seatbeltSpellingInsensitivePattern(s) :
               ~x.exists /\ withinOrEqual(t, AsciiPath(p)) => withinOrEqual(s, p)
         /\ AsciiPath(p) \in AbsentParents(x) => \E s \in {x.logical, x.path} : pathsOverlap(s, p)
<1>1. x.logical \in Path /\ x.path \in Path /\ x.exists \in BOOLEAN
  BY DEF IsExclusion
<1>2. ASSUME NEW s \in {x.logical, x.path}, NEW form \in {NFC, NFD}, ~x.exists,
             pathsOverlap(AsciiPath(Spelled(form, s)), AsciiPath(p))
      PROVE  pathsOverlap(s, p)
  BY <1>2 DEF Respells
<1>3. ASSUME NEW s \in {x.logical, x.path}, NEW t \in seatbeltSpellingInsensitivePattern(s), ~x.exists,
             withinOrEqual(t, AsciiPath(p))
      PROVE  withinOrEqual(s, p)
  <2>1. s \in Path
    BY <1>1
  <2>2. PICK form \in {NFC, NFD} : t = AsciiPath(Spelled(form, s))
    BY DEF seatbeltSpellingInsensitivePattern
  <2>3. pathsOverlap(s, p)
    BY <1>2, <1>3, <2>2 DEF pathsOverlap
  <2>4. CASE withinOrEqual(p, s)
    <3>1. Len(p) <= Len(s) /\ Len(p) \in Nat /\ Len(s) \in Nat /\ (Len(p) = Len(s) => p = s)
      BY <2>1, <2>4, PrefixLength
    <3>2. t \in Path /\ AsciiPath(p) \in Path /\ Len(t) = Len(s) /\ Len(AsciiPath(p)) = Len(p)
      BY <2>1, <2>2, PatternMeans
    <3>3. Len(t) <= Len(AsciiPath(p))
      BY <1>3, <3>2, PrefixLength
    <3>4. p = s
      BY <3>1, <3>2, <3>3
    <3> QED
      BY <3>4, PrefixSelf
  <2> QED
    BY <2>3, <2>4 DEF pathsOverlap
<1>4. ASSUME AsciiPath(p) \in AbsentParents(x) PROVE \E s \in {x.logical, x.path} : pathsOverlap(s, p)
  <2> DEFINE missing == Len(x.logical) - Len(x.firstMissing)
             up(s) == {SubSeq(s, 1, Len(s) - n) : n \in 1 .. missing}
  <2>1. ~x.exists
    BY <1>4 DEF AbsentParents
  <2>2. PICK a \in up(x.logical) \cup up(x.path) : AsciiPath(p) \in seatbeltSpellingInsensitivePattern(a)
    BY <1>4, <2>1 DEF AbsentParents
  <2>3. PICK form \in {NFC, NFD} : AsciiPath(p) = AsciiPath(Spelled(form, a))
    BY <2>2 DEF seatbeltSpellingInsensitivePattern
  <2>4. PICK s \in {x.logical, x.path}, n \in 1 .. missing : a = SubSeq(s, 1, Len(s) - n)
    BY <2>2
  <2> HIDE DEF up
  <2>5. /\ x.firstMissing \in Path /\ withinOrEqual(x.firstMissing, x.logical)
        /\ Len(x.logical) - Len(x.firstMissing) < Len(x.path)
    BY <2>1 DEF IsExclusion
  <2>6. Len(x.firstMissing) \in Nat /\ Len(x.logical) \in Nat /\ Len(x.path) \in Nat
    BY <2>5, <1>1 DEF Path
  <2>7. s \in Path /\ Len(s) \in Nat /\ Len(s) - n \in 0 .. Len(s)
    <3>1. PICK i \in Nat, j \in Nat, l \in Nat : i = Len(x.logical) /\ j = Len(x.firstMissing) /\ l = Len(x.path)
      BY <2>6
    <3>2. n \in 1 .. (i - j) /\ i - j < l
      BY <2>4, <2>5, <3>1
    <3>3. i - n \in 0 .. i /\ l - n \in 0 .. l
      BY <3>2
    <3>4. CASE s = x.logical
      BY <3>1, <3>3, <3>4, <1>1
    <3>5. CASE s = x.path
      BY <3>1, <3>3, <3>5, <1>1
    <3> QED
      BY <2>4, <3>4, <3>5
  <2>8. a \in Path /\ withinOrEqual(a, s)
    BY <2>4, <2>7, Prefix
  <2>9. withinOrEqual(AsciiPath(p), AsciiPath(Spelled(form, s)))
    BY <2>3, <2>7, <2>8, PatternMeans
  <2> QED
    BY <1>2, <2>1, <2>4, <2>9 DEF pathsOverlap
<1> QED
  BY <1>3, <1>4

-----------------------------------------------------------------------------
(* Launch authority: the two policies against the selection                 *)

\* Everything a policy is compiled from is a path apart from the Sessions.
LEMMA CapturesApart ==
  ASSUME LaunchInv
  PROVE  /\ WellFormed(fs) /\ req \in Requests
         /\ GrantsSound(grants, req.workspace)
         /\ \A g \in grants : IsGrant(g) /\ g.path \in Paths /\ g.path \in Path
                              /\ g.type \in {"dir", "file"} /\ g.access \in {"ro", "rw"}
         /\ \A x \in exclusions : IsExclusion(x) /\ x.logical \in Path /\ x.path \in Path
         /\ \A e \in executables : IsExecutable(e) /\ e.path \in Path /\ e.logical \in Path
<1>1. /\ WellFormed(fs) /\ req \in Requests
      /\ GrantsSound(grants, req.workspace)
      /\ \A x \in exclusions : IsExclusion(x)
      /\ \A e \in executables : IsExecutable(e)
  BY DEF LaunchInv, DiskInv, CaptureInv
<1>2. \A g \in grants : IsGrant(g)
  BY <1>1 DEF GrantsSound
<1>3. \A g \in grants : g.path \in Paths /\ g.type \in {"dir", "file"} /\ g.access \in {"ro", "rw"}
  BY <1>2 DEF IsGrant
<1>4. \A x \in exclusions : x.logical \in Path /\ x.path \in Path
  BY <1>1 DEF IsExclusion
<1>5. \A e \in executables : e.path \in Paths /\ e.logical \in Path
  BY <1>1 DEF IsExecutable
<1> QED
  BY <1>1, <1>2, <1>3, <1>4, <1>5, PathsAre

\* The policy of a started target.
LEMMA PolicyStarted ==
  ASSUME LaunchInv, Started
  PROVE  \/ /\ req.os = "darwin" /\ policy.os = "darwin"
            /\ policy = buildSeatbeltPolicy(req, grants, exclusions, executables,
                                            Selected0(protections), Workspace)
         \/ /\ req.os = "linux" /\ policy.os = "linux" /\ req.protections = {}
            /\ CompiledFor(req, fs, grants, exclusions, executables, policy)
<1>1. PolicyInv /\ StartInv /\ req \in Requests
  BY DEF LaunchInv, DiskInv
<1>2. req.os \in {"darwin", "linux"}
  BY <1>1, RequestIs
<1> QED
  BY <1>1, <1>2 DEF PolicyInv, StartInv, Started

\* What a grant covers, and what an authority compiled from it covers.
LEMMA CoversIs ==
  ASSUME NEW g, g.path \in Path, NEW p \in Path
  PROVE  /\ Covers(g, p) => withinOrEqual(g.path, p)
         /\ g.type = "dir" /\ withinOrEqual(g.path, p) => Covers(g, p)
         /\ g.path = p => Covers(g, p)
BY PrefixSelf DEF Covers

\* Seatbelt and the selection: an allow rule comes from something selected.
LEMMA SeatbeltBeyond ==
  ASSUME LaunchInv, NEW ps, NEW q,
         q = buildSeatbeltPolicy(req, grants, exclusions, executables, ps, Workspace), NEW p \in Path
  PROVE  /\ Under(q.readTrees, p) \/ p \in q.readFiles =>
              \/ withinOrEqual(Workspace, p) \/ withinOrEqual(Session, p)
              \/ \E g \in grants : g.effective /\ Covers(g, p)
              \/ \E t \in RuntimeInputs : withinOrEqual(t, p)
              \/ p = Executable
              \/ \E e \in executables : p = e.path \/ p = e.logical
         /\ Under(q.writeTrees, p) \/ p \in q.writeFiles =>
              \/ req.workspace = "rw" /\ withinOrEqual(Workspace, p)
              \/ withinOrEqual(Session, p)
              \/ \E g \in grants : g.effective /\ g.access = "rw" /\ Covers(g, p)
<1>1. \A g \in grants : g.path \in Path
  BY CapturesApart
<1>2. ASSUME Under(q.readTrees, p)
      PROVE  \/ withinOrEqual(Workspace, p) \/ withinOrEqual(Session, p)
             \/ \E g \in grants : g.effective /\ Covers(g, p)
             \/ \E t \in RuntimeInputs : withinOrEqual(t, p)
  <2>1. PICK t \in q.readTrees : withinOrEqual(t, p)
    BY <1>2 DEF Under
  <2>2. \/ t \in {Workspace, Session} \cup RuntimeInputs
        \/ \E g \in grants : g.effective /\ g.type = "dir" /\ g.path = t
    BY <2>1, SeatbeltAllows
  <2> QED
    BY <2>1, <2>2, <1>1, CoversIs
<1>3. ASSUME p \in q.readFiles
      PROVE  \/ p = Executable
             \/ \E g \in grants : g.effective /\ Covers(g, p)
             \/ \E e \in executables : p = e.path \/ p = e.logical
  <2>1. \/ p = Executable
        \/ \E g \in grants : g.effective /\ g.type = "file" /\ g.path = p
        \/ \E e \in executables : p = e.path \/ p = e.logical
    BY <1>3, SeatbeltAllows
  <2> QED
    BY <2>1, <1>1, CoversIs
<1>4. ASSUME Under(q.writeTrees, p)
      PROVE  \/ req.workspace = "rw" /\ withinOrEqual(Workspace, p)
             \/ withinOrEqual(Session, p)
             \/ \E g \in grants : g.effective /\ g.access = "rw" /\ Covers(g, p)
  <2>1. PICK t \in q.writeTrees : withinOrEqual(t, p)
    BY <1>4 DEF Under
  <2>2. \/ t = Session
        \/ req.workspace = "rw" /\ t = Workspace
        \/ \E g \in grants : g.effective /\ g.access = "rw" /\ g.type = "dir" /\ g.path = t
    BY <2>1, SeatbeltAllows
  <2> QED
    BY <2>1, <2>2, <1>1, CoversIs
<1>5. ASSUME p \in q.writeFiles
      PROVE  \E g \in grants : g.effective /\ g.access = "rw" /\ Covers(g, p)
  <2>1. \E g \in grants : g.effective /\ g.access = "rw" /\ g.type = "file" /\ g.path = p
    BY <1>5, SeatbeltAllows
  <2> QED
    BY <2>1, <1>1, CoversIs
<1> QED
  BY <1>2, <1>3, <1>4, <1>5

\* The other way: what is selected and in effect has an allow rule.
LEMMA SeatbeltGives ==
  ASSUME LaunchInv, NEW ps, NEW q,
         q = buildSeatbeltPolicy(req, grants, exclusions, executables, ps, Workspace), NEW p \in Path
  PROVE  /\ \/ withinOrEqual(Workspace, p)
            \/ \E g \in grants : g.effective /\ Covers(g, p)
            \/ \E t \in RuntimeInputs : withinOrEqual(t, p)
            \/ p = Executable
            \/ \E e \in executables : p = e.path
            => Under(q.readTrees, p) \/ p \in q.readFiles
         /\ \/ req.workspace = "rw" /\ withinOrEqual(Workspace, p)
            \/ \E g \in grants : g.effective /\ g.access = "rw" /\ Covers(g, p)
            => Under(q.writeTrees, p) \/ p \in q.writeFiles
<1>1. \A g \in grants : g.type \in {"dir", "file"}
  BY CapturesApart
<1>2. ASSUME withinOrEqual(Workspace, p)
      PROVE  Under(q.readTrees, p) /\ (req.workspace = "rw" => Under(q.writeTrees, p))
  <2>1. Workspace \in q.readTrees /\ (req.workspace = "rw" => Workspace \in q.writeTrees)
    BY SeatbeltAllows
  <2> QED
    BY <2>1, <1>2 DEF Under
<1>3. ASSUME NEW t \in RuntimeInputs, withinOrEqual(t, p) PROVE Under(q.readTrees, p)
  <2>1. t \in q.readTrees
    BY SeatbeltAllows
  <2> QED
    BY <2>1, <1>3 DEF Under
<1>4. ASSUME p = Executable \/ \E e \in executables : p = e.path PROVE p \in q.readFiles
  BY <1>4, SeatbeltAllows
<1>5. ASSUME NEW g \in grants, g.effective, Covers(g, p)
      PROVE  /\ Under(q.readTrees, p) \/ p \in q.readFiles
             /\ g.access = "rw" => Under(q.writeTrees, p) \/ p \in q.writeFiles
  <2>1. CASE g.type = "dir"
    <3>1. g.path \in q.readTrees /\ (g.access = "rw" => g.path \in q.writeTrees)
      BY <2>1, <1>5, SeatbeltAllows
    <3>2. withinOrEqual(g.path, p)
      BY <2>1, <1>5 DEF Covers
    <3> QED
      BY <3>1, <3>2 DEF Under
  <2>2. CASE g.type = "file"
    <3>1. g.path \in q.readFiles /\ (g.access = "rw" => g.path \in q.writeFiles)
      BY <2>2, <1>5, SeatbeltAllows
    <3>2. g.path = p
      BY <2>2, <1>5 DEF Covers
    <3> QED
      BY <3>1, <3>2
  <2> QED
    BY <1>1, <2>1, <2>2
<1> QED
  BY <1>2, <1>3, <1>4, <1>5

\* Linux: an authority comes from something selected, and what is selected
\* and in effect has an authority.
LEMMA AuthoritiesBeyond ==
  ASSUME LaunchInv, NEW a \in LinuxAuthorities(req, fs, grants, executables, Workspace),
         a.type = "dir" <=> IsDir(fs, a.path), NEW p \in Paths, withinOrEqual(a.path, p),
         Exists(fs, p) \/ IsDir(fs, Dir(p))
  PROVE  /\ \/ withinOrEqual(Workspace, p) \/ withinOrEqual(Session, p)
            \/ \E g \in grants : g.effective /\ Covers(g, p)
            \/ \E t \in RuntimeInputs : withinOrEqual(t, p)
            \/ p = Executable
            \/ \E e \in executables : p = e.path
         /\ a.access = "rw" =>
            \/ req.workspace = "rw" /\ withinOrEqual(Workspace, p)
            \/ withinOrEqual(Session, p)
            \/ \E g \in grants : g.effective /\ g.access = "rw" /\ Covers(g, p)
<1>1. p \in Path /\ WellFormed(fs) /\ \A g \in grants : g.path \in Path
  BY CapturesApart, PathsAre
<1>2. ASSUME a.path \in Path PROVE a.type = "dir" \/ a.path = p
  BY <1>1, <1>2, AuthorityReaches
<1>3. CASE a = Authority(Workspace, req.workspace, "dir", FALSE, FALSE)
  BY <1>3 DEF Authority
<1>4. CASE a \in {Authority(SessionHome, "rw", "dir", FALSE, TRUE), Authority(Temporary, "rw", "dir", FALSE, TRUE)}
  <2>1. a.path \in {SessionHome, Temporary}
    BY <1>4 DEF Authority
  <2>2. withinOrEqual(Session, p)
    BY <2>1, <1>1, PlaceOrder, PrefixTrans
  <2> QED
    BY <2>2
<1>5. CASE a = Authority(Executable, "ro", "file", TRUE, FALSE)
  <2>1. a.path = Executable /\ a.type = "file" /\ a.access = "ro"
    BY <1>5 DEF Authority
  <2> QED
    BY <2>1, <1>2, PlaceOrder
<1>6. CASE a \in {Authority(g.path, g.access, g.type, FALSE, FALSE) : g \in {h \in grants : h.effective}}
  <2>1. PICK g \in grants : g.effective /\ a.path = g.path /\ a.access = g.access /\ a.type = g.type
    BY <1>6 DEF Authority
  <2>2. Covers(g, p)
    BY <2>1, <1>1, <1>2, CoversIs
  <2> QED
    BY <2>1, <2>2
<1>7. CASE a \in {Authority(e.path, "ro", "file", TRUE, FALSE) : e \in executables}
  <2>1. PICK e \in executables : a.path = e.path /\ a.access = "ro" /\ a.type = "file"
    BY <1>7 DEF Authority
  <2>2. e.path \in Path
    BY CapturesApart
  <2> QED
    BY <2>1, <2>2, <1>2
<1>8. CASE a \in {Authority(t, "ro", IF IsDir(fs, t) THEN "dir" ELSE "file", TRUE, FALSE) : t \in RuntimeInputs}
  BY <1>8 DEF Authority
<1> QED
  BY <1>3, <1>4, <1>5, <1>6, <1>7, <1>8 DEF LinuxAuthorities

LEMMA AuthoritiesGive ==
  ASSUME LaunchInv, NEW p \in Path
  PROVE  LET all == LinuxAuthorities(req, fs, grants, executables, Workspace)
         IN  /\ \/ withinOrEqual(Workspace, p)
                \/ \E g \in grants : g.effective /\ Covers(g, p)
                \/ \E t \in RuntimeInputs : withinOrEqual(t, p)
                \/ p = Executable
                \/ \E e \in executables : p = e.path
                => \E a \in all : withinOrEqual(a.path, p)
             /\ \/ req.workspace = "rw" /\ withinOrEqual(Workspace, p)
                \/ \E g \in grants : g.effective /\ g.access = "rw" /\ Covers(g, p)
                => \E a \in all : a.access = "rw" /\ withinOrEqual(a.path, p)
<1> DEFINE all == LinuxAuthorities(req, fs, grants, executables, Workspace)
<1>1. \A g \in grants : g.path \in Path
  BY CapturesApart
<1>2. ASSUME withinOrEqual(Workspace, p)
      PROVE  \E a \in all : a.access = req.workspace /\ withinOrEqual(a.path, p)
  <2>1. Authority(Workspace, req.workspace, "dir", FALSE, FALSE) \in all
    BY DEF LinuxAuthorities
  <2> HIDE DEF all
  <2> QED
    BY <2>1, <1>2 DEF Authority
<1>3. ASSUME NEW g \in grants, g.effective, Covers(g, p)
      PROVE  \E a \in all : a.access = g.access /\ withinOrEqual(a.path, p)
  <2>1. Authority(g.path, g.access, g.type, FALSE, FALSE) \in all
    BY <1>3 DEF LinuxAuthorities
  <2>2. withinOrEqual(g.path, p)
    BY <1>1, <1>3, CoversIs
  <2> HIDE DEF all
  <2> QED
    BY <2>1, <2>2 DEF Authority
<1>4. ASSUME NEW t \in RuntimeInputs, withinOrEqual(t, p) PROVE \E a \in all : withinOrEqual(a.path, p)
  <2>1. Authority(t, "ro", IF IsDir(fs, t) THEN "dir" ELSE "file", TRUE, FALSE) \in all
    BY DEF LinuxAuthorities
  <2> HIDE DEF all
  <2> QED
    BY <2>1, <1>4 DEF Authority
<1>5. ASSUME p = Executable PROVE \E a \in all : withinOrEqual(a.path, p)
  <2>1. Authority(Executable, "ro", "file", TRUE, FALSE) \in all
    BY DEF LinuxAuthorities
  <2> HIDE DEF all
  <2> QED
    BY <2>1, <1>5, PrefixSelf DEF Authority
<1>6. ASSUME NEW e \in executables, p = e.path PROVE \E a \in all : withinOrEqual(a.path, p)
  <2>1. Authority(e.path, "ro", "file", TRUE, FALSE) \in all
    BY DEF LinuxAuthorities
  <2> HIDE DEF all
  <2> QED
    BY <2>1, <1>6, PrefixSelf DEF Authority
<1> HIDE DEF all
<1> QED
  BY <1>2, <1>3, <1>4, <1>5, <1>6 DEF all

\* Linux: the mounts of a policy give what its authorities say, and these say
\* what was selected.
LEMMA LinuxBeyond ==
  ASSUME LaunchInv, NEW q, CompiledFor(req, fs, grants, exclusions, executables, q), NEW p \in Paths
  PROVE  /\ LinuxRead(q, fs, p) =>
              /\ \A x \in exclusions : ~withinOrEqual(x.path, p)
              /\ \/ withinOrEqual(Workspace, p) \/ withinOrEqual(Session, p)
                 \/ \E g \in grants : g.effective /\ Covers(g, p)
                 \/ \E t \in RuntimeInputs : withinOrEqual(t, p)
                 \/ p = Executable
                 \/ \E e \in executables : p = e.path
         /\ LinuxWrite(q, fs, p) =>
              /\ \A x \in exclusions : ~pathsOverlap(x.path, p)
              /\ \/ req.workspace = "rw" /\ withinOrEqual(Workspace, p)
                 \/ withinOrEqual(Session, p)
                 \/ \E g \in grants : g.effective /\ g.access = "rw" /\ Covers(g, p)
<1> DEFINE all == LinuxAuthorities(req, fs, grants, executables, Workspace)
<1>1. /\ AuthoritiesSound(fs, all, Denied(exclusions)) /\ q = LinuxMounts(fs, all, Denied(exclusions))
      /\ \A a \in all : a.path \in Path /\ (a.type = "dir" <=> IsDir(fs, a.path))
  BY CapturesApart, AuthoritiesAre
<1>2. WellFormed(fs) /\ p \in Path /\ \A x \in exclusions : x.path \in Path /\ x.path \in Denied(exclusions)
  BY CapturesApart, PathsAre DEF Denied
<1> HIDE DEF all
<1>3. ASSUME LinuxRead(q, fs, p)
      PROVE  /\ \A x \in exclusions : ~withinOrEqual(x.path, p)
             /\ \/ withinOrEqual(Workspace, p) \/ withinOrEqual(Session, p)
                \/ \E g \in grants : g.effective /\ Covers(g, p)
                \/ \E t \in RuntimeInputs : withinOrEqual(t, p)
                \/ p = Executable
                \/ \E e \in executables : p = e.path
  <2>1. Exists(fs, p) /\ ~Under(Denied(exclusions), p) /\ \E a \in all : withinOrEqual(a.path, p)
    BY <1>1, <1>2, <1>3, LinuxReadIs
  <2>2. PICK a \in all : withinOrEqual(a.path, p)
    BY <2>1
  <2>3. a \in LinuxAuthorities(req, fs, grants, executables, Workspace)
    BY DEF all
  <2>4. a.type = "dir" <=> IsDir(fs, a.path)
    BY <1>1
  <2>5. \A x \in exclusions : ~withinOrEqual(x.path, p)
    BY <1>2, <2>1 DEF Under
  <2> QED
    BY <2>1, <2>2, <2>3, <2>4, <2>5, AuthoritiesBeyond
<1>4. ASSUME LinuxWrite(q, fs, p)
      PROVE  /\ \A x \in exclusions : ~pathsOverlap(x.path, p)
             /\ \/ req.workspace = "rw" /\ withinOrEqual(Workspace, p)
                \/ withinOrEqual(Session, p)
                \/ \E g \in grants : g.effective /\ g.access = "rw" /\ Covers(g, p)
  <2>1. /\ Exists(fs, p) \/ IsDir(fs, Dir(p))
        /\ \E o \in all : o.access = "rw" /\ withinOrEqual(o.path, p)
    BY <1>1, <1>2, <1>4, LinuxWriteIs
  <2>2. PICK a \in all : a.access = "rw" /\ withinOrEqual(a.path, p)
    BY <2>1
  <2>3. a \in LinuxAuthorities(req, fs, grants, executables, Workspace)
    BY DEF all
  <2>4. a.type = "dir" <=> IsDir(fs, a.path)
    BY <1>1
  <2>5. ASSUME NEW x \in exclusions, pathsOverlap(x.path, p) PROVE FALSE
    <3>1. a.path \in Path /\ x.path \in Path /\ ~pathsOverlap(x.path, a.path)
      BY <1>1, <1>2, <2>2 DEF AuthoritiesSound
    <3>2. CASE withinOrEqual(x.path, p)
      BY <3>1, <3>2, <1>2, <2>2, PrefixChain
    <3>3. CASE withinOrEqual(p, x.path)
      <4>1. withinOrEqual(a.path, x.path)
        BY <3>1, <3>3, <1>2, <2>2, PrefixTrans
      <4> QED
        BY <4>1, <3>1 DEF pathsOverlap
    <3> QED
      BY <2>5, <3>2, <3>3 DEF pathsOverlap
  <2> QED
    BY <2>1, <2>2, <2>3, <2>4, <2>5, AuthoritiesBeyond
<1> QED
  BY <1>3, <1>4

LEMMA LinuxGives ==
  ASSUME LaunchInv, NEW q, CompiledFor(req, fs, grants, exclusions, executables, q), NEW p \in Paths
  PROVE  /\ /\ Exists(fs, p) /\ \A x \in exclusions : ~withinOrEqual(x.path, p)
            /\ \/ withinOrEqual(Workspace, p)
               \/ \E g \in grants : g.effective /\ Covers(g, p)
               \/ \E t \in RuntimeInputs : withinOrEqual(t, p)
               \/ p = Executable
               \/ \E e \in executables : p = e.path
            => LinuxRead(q, fs, p)
         /\ /\ Exists(fs, p) \/ IsDir(fs, Dir(p))
            /\ \/ req.workspace = "rw" /\ withinOrEqual(Workspace, p)
               \/ \E g \in grants : g.effective /\ g.access = "rw" /\ Covers(g, p)
            => LinuxWrite(q, fs, p)
<1> DEFINE all == LinuxAuthorities(req, fs, grants, executables, Workspace)
<1>1. AuthoritiesSound(fs, all, Denied(exclusions)) /\ q = LinuxMounts(fs, all, Denied(exclusions))
  BY CapturesApart, AuthoritiesAre
<1>2. WellFormed(fs) /\ p \in Path
  BY CapturesApart, PathsAre
<1>3. /\ \/ withinOrEqual(Workspace, p)
         \/ \E g \in grants : g.effective /\ Covers(g, p)
         \/ \E t \in RuntimeInputs : withinOrEqual(t, p)
         \/ p = Executable
         \/ \E e \in executables : p = e.path
         => \E a \in all : withinOrEqual(a.path, p)
      /\ \/ req.workspace = "rw" /\ withinOrEqual(Workspace, p)
         \/ \E g \in grants : g.effective /\ g.access = "rw" /\ Covers(g, p)
         => \E a \in all : a.access = "rw" /\ withinOrEqual(a.path, p)
  BY <1>2, AuthoritiesGive
<1>4. (\A x \in exclusions : ~withinOrEqual(x.path, p)) => ~Under(Denied(exclusions), p)
  BY DEF Under, Denied
<1> HIDE DEF all
<1> QED
  BY <1>1, <1>2, <1>3, <1>4, LinuxReadIs, LinuxWriteIs

\* A policy gives nothing that was not selected.
LEMMA NothingBeyond == LaunchInv => NothingBeyondSelection
<1> SUFFICES ASSUME LaunchInv, Started, NEW p \in Paths
             PROVE  (CanRead(p) => GrantedRead(p)) /\ (CanWrite(p) => GrantedWrite(p))
  BY DEF NothingBeyondSelection
<1>1. p \in Path /\ Executable \in Path /\ \A e \in executables : e.path \in Path /\ e.logical \in Path
  BY CapturesApart, PathsAre, PlaceOrder
<1>2. \/ withinOrEqual(Workspace, p) \/ withinOrEqual(Session, p)
      \/ \E g \in grants : g.effective /\ Covers(g, p)
      \/ \E t \in RuntimeInputs : withinOrEqual(t, p)
      \/ p = Executable
      \/ \E e \in executables : p = e.path \/ p = e.logical
      => GrantedRead(p)
  BY <1>1, PrefixSelf DEF GrantedRead
<1>3. \/ req.workspace = "rw" /\ withinOrEqual(Workspace, p)
      \/ withinOrEqual(Session, p)
      \/ \E g \in grants : g.effective /\ g.access = "rw" /\ Covers(g, p)
      => GrantedWrite(p)
  BY DEF GrantedWrite, Selected
<1>4. CASE policy.os = "darwin"
  <2>1. policy = buildSeatbeltPolicy(req, grants, exclusions, executables, Selected0(protections), Workspace)
    BY <1>4, PolicyStarted
  <2>2. /\ CanRead(p) => Under(policy.readTrees, p) \/ p \in policy.readFiles
        /\ CanWrite(p) => Under(policy.writeTrees, p) \/ p \in policy.writeFiles
    BY <1>4 DEF CanRead, CanWrite, SeatbeltRead, SeatbeltWrite
  <2> QED
    BY <1>1, <1>2, <1>3, <2>1, <2>2, SeatbeltBeyond
<1>5. CASE policy.os = "linux"
  <2>1. CompiledFor(req, fs, grants, exclusions, executables, policy)
    BY <1>5, PolicyStarted
  <2>2. (CanRead(p) => LinuxRead(policy, fs, p)) /\ (CanWrite(p) => LinuxWrite(policy, fs, p))
    BY <1>5 DEF CanRead, CanWrite
  <2> QED
    BY <1>2, <1>3, <2>1, <2>2, LinuxBeyond
<1> QED
  BY <1>4, <1>5, PolicyStarted

\* What overlaps neither an exclusion nor the Sessions is not denied on macOS.
LEMMA SeatbeltFree ==
  ASSUME LaunchInv, NEW ps, \A s \in ps : s.path \in Path /\ pathWithin(SessionHome, s.path), NEW q,
         q = buildSeatbeltPolicy(req, grants, exclusions, executables, ps, Workspace), NEW p \in Path,
         \A x \in exclusions : ~Respells(x, p)
  PROVE  /\ (\A x \in exclusions : ~withinOrEqual(x.path, p) /\ ~withinOrEqual(x.logical, p))
               <=> ~SeatbeltDenied(q, p)
         /\ /\ \A x \in exclusions : ~pathsOverlap(x.path, p) /\ ~pathsOverlap(x.logical, p)
            /\ ~withinOrEqual(Sessions, p)
            => p \notin q.fixedFiles /\ ~Under(q.fixedTrees, p) /\ AsciiPath(p) \notin q.fixedSpellings
<1>1. \A x \in exclusions : IsExclusion(x) /\ x.logical \in Path /\ x.path \in Path
  BY CapturesApart
<1>2. ASSUME \A x \in exclusions : ~withinOrEqual(x.path, p) /\ ~withinOrEqual(x.logical, p)
      PROVE  ~SeatbeltDenied(q, p)
  <2>1. ASSUME Under(q.deniedTrees, p) PROVE FALSE
    <3>1. PICK t \in q.deniedTrees : withinOrEqual(t, p)
      BY <2>1 DEF Under
    <3>2. \E x \in exclusions : t = x.logical \/ t = x.path
      BY <3>1, SeatbeltDenies
    <3> QED
      BY <3>1, <3>2, <1>2
  <2>2. ASSUME Under(q.deniedSpellings, AsciiPath(p)) PROVE FALSE
    <3>1. PICK t \in q.deniedSpellings : withinOrEqual(t, AsciiPath(p))
      BY <2>2 DEF Under
    <3>2. PICK x \in exclusions : SpelledBy(x, t)
      BY <3>1, SeatbeltDenies
    <3>3. PICK s \in {x.logical, x.path} : t \in seatbeltSpellingInsensitivePattern(s)
      BY <3>2 DEF SpelledBy
    <3>4. withinOrEqual(s, p)
      BY <3>1, <3>2, <3>3, <1>1, SpellingsApart DEF SpelledBy
    <3> QED
      BY <3>3, <3>4, <1>2
  <2> QED
    BY <2>1, <2>2 DEF SeatbeltDenied
<1>3. ASSUME ~SeatbeltDenied(q, p), NEW x \in exclusions
      PROVE  ~withinOrEqual(x.path, p) /\ ~withinOrEqual(x.logical, p)
  <2>1. x.path \in q.deniedTrees /\ x.logical \in q.deniedTrees
    BY SeatbeltDenies
  <2> QED
    BY <1>3, <2>1 DEF SeatbeltDenied, Under
<1>4. ASSUME \A x \in exclusions : ~pathsOverlap(x.path, p) /\ ~pathsOverlap(x.logical, p),
             ~withinOrEqual(Sessions, p)
      PROVE  p \notin q.fixedFiles /\ ~Under(q.fixedTrees, p) /\ AsciiPath(p) \notin q.fixedSpellings
  <2>1. ASSUME NEW a \in Path, withinOrEqual(a, p), a \in {Session, SessionHome} \/ pathWithin(SessionHome, a)
        PROVE  FALSE
    <3>1. withinOrEqual(Sessions, a)
      BY <2>1, PlaceOrder, PrefixTrans DEF pathWithin
    <3> QED
      BY <3>1, <2>1, <1>4, PlaceOrder, PrefixTrans
  <2>2. p \notin {Session, SessionHome} /\ ~pathWithin(SessionHome, p)
    BY <2>1, PrefixSelf
  <2>3. \A s \in ps : p # s.path /\ p \notin ProtectionAncestors(s.path)
    BY <2>2 DEF ProtectionAncestors
  <2>4. ASSUME NEW x \in exclusions PROVE p \notin Ancestors(x.logical) /\ p \notin Ancestors(x.path)
    BY <1>1, <1>4, AncestorsMeans DEF pathsOverlap
  <2>5. p \notin q.fixedFiles
    BY <2>2, <2>3, <2>4, SeatbeltDenies
  <2>6. ASSUME Under(q.fixedTrees, p) PROVE FALSE
    <3>1. PICK t \in q.fixedTrees : withinOrEqual(t, p)
      BY <2>6 DEF Under
    <3>2. \E s \in ps : t = s.path
      BY <3>1, SeatbeltDenies
    <3> QED
      BY <3>1, <3>2, <2>1
  <2>7. ASSUME AsciiPath(p) \in q.fixedSpellings PROVE FALSE
    <3>1. PICK x \in exclusions : AsciiPath(p) \in AbsentParents(x)
      BY <2>7, SeatbeltDenies
    <3>2. \E s \in {x.logical, x.path} : pathsOverlap(s, p)
      BY <3>1, <1>1, SpellingsApart
    <3> QED
      BY <3>2, <1>4
  <2> QED
    BY <2>5, <2>6, <2>7
<1> QED
  BY <1>2, <1>3, <1>4

\* What the workspace or a grant in effect gives of a selected grant.
LEMMA GrantHonoured ==
  ASSUME LaunchInv, NEW g \in grants, NEW p \in Path, Covers(g, p)
  PROVE  \/ withinOrEqual(Workspace, p) /\ (g.access = "rw" => req.workspace = "rw")
         \/ \E h \in grants : h.effective /\ Covers(h, p) /\ (g.access = "rw" => h.access = "rw")
<1>1. /\ GrantsSound(grants, req.workspace) /\ g.path \in Path /\ req.workspace \in {"ro", "rw"}
      /\ withinOrEqual(g.path, p)
  BY CapturesApart, CoversIs, RequestIs
<1>2. CASE WorkspaceGives(g, req.workspace)
  <2>1. withinOrEqual(Workspace, p)
    BY <1>1, <1>2, PlaceOrder, PrefixTrans DEF WorkspaceGives
  <2> QED
    BY <1>2, <2>1 DEF WorkspaceGives
<1>3. CASE \E h \in grants : h.effective /\ dominates(h, g)
  <2>1. PICK h \in grants : h.effective /\ dominates(h, g)
    BY <1>3
  <2>2. h.path \in Path /\ withinOrEqual(h.path, g.path) /\ (g.access = "rw" => h.access = "rw")
    BY <2>1, CapturesApart DEF dominates
  <2>3. withinOrEqual(h.path, p)
    BY <1>1, <2>2, PrefixTrans
  <2>4. h.type = "dir" \/ (h.path = g.path /\ h.type = g.type)
    BY <1>1, <2>1, <2>2 DEF GrantsSound
  <2>5. Covers(h, p)
    BY <2>3, <2>4 DEF Covers
  <2> QED
    BY <2>1, <2>2, <2>5
<1> QED
  BY <1>1, <1>2, <1>3, GrantInEffect

\* The protections a macOS policy keeps are below the Session home.
LEMMA ProtectionsInHome ==
  ASSUME LaunchInv, Started
  PROVE  \A s \in Selected0(protections) : s.path \in Path /\ pathWithin(SessionHome, s.path)
BY DEF LaunchInv, PolicyInv, Started, Selected0

\* A policy loses nothing that was selected.
LEMMA Honoured == LaunchInv => SelectionHonoured
<1> SUFFICES ASSUME LaunchInv, Started, NEW g \in grants, NEW p \in Paths, Covers(g, p)
             PROVE  /\ (/\ Exists(fs, p) /\ Base(p) \notin MCPNames
                        /\ ~\E x \in exclusions : \/ withinOrEqual(x.path, p) \/ withinOrEqual(x.logical, p)
                                                  \/ Respells(x, p))
                       => CanRead(p)
                    /\ (/\ g.access = "rw" /\ (Exists(fs, p) \/ IsDir(fs, Dir(p)))
                        /\ ~\E x \in exclusions : \/ pathsOverlap(x.path, p) \/ pathsOverlap(x.logical, p)
                                                  \/ Respells(x, p))
                       => CanWrite(p)
  BY DEF SelectionHonoured
<1>1. p \in Path /\ g.path \in Path /\ withinOrEqual(g.path, p) /\ IsGrant(g)
  BY CapturesApart, PathsAre, CoversIs
<1>2. /\ withinOrEqual(Workspace, p) \/ \E h \in grants : h.effective /\ Covers(h, p)
      /\ g.access = "rw" => \/ req.workspace = "rw" /\ withinOrEqual(Workspace, p)
                            \/ \E h \in grants : h.effective /\ h.access = "rw" /\ Covers(h, p)
  BY <1>1, GrantHonoured
<1>3. ~withinOrEqual(Sessions, p)
  <2>1. ~pathsOverlap(g.path, Sessions)
    BY <1>1 DEF IsGrant
  <2> QED
    BY <2>1, <1>1, PlaceOrder, PrefixChain
<1>4. CASE policy.os = "darwin"
  <2>1. policy = buildSeatbeltPolicy(req, grants, exclusions, executables, Selected0(protections), Workspace)
    BY <1>4, PolicyStarted
  <2>2. /\ Under(policy.readTrees, p) \/ p \in policy.readFiles
        /\ g.access = "rw" => Under(policy.writeTrees, p) \/ p \in policy.writeFiles
    BY <1>1, <1>2, <2>1, SeatbeltGives
  <2>3. ASSUME Base(p) \notin MCPNames,
               \A x \in exclusions : ~withinOrEqual(x.path, p) /\ ~withinOrEqual(x.logical, p) /\ ~Respells(x, p)
        PROVE  CanRead(p)
    <3>1. ~SeatbeltDenied(policy, p)
      BY <1>1, <2>1, <2>3, SeatbeltFree, ProtectionsInHome
    <3> QED
      BY <1>4, <2>2, <2>3, <3>1 DEF CanRead, SeatbeltRead
  <2>4. ASSUME g.access = "rw",
               \A x \in exclusions : ~pathsOverlap(x.path, p) /\ ~pathsOverlap(x.logical, p) /\ ~Respells(x, p)
        PROVE  CanWrite(p)
    <3>1. \A x \in exclusions : ~withinOrEqual(x.path, p) /\ ~withinOrEqual(x.logical, p)
      BY <2>4 DEF pathsOverlap
    <3>2. /\ ~SeatbeltDenied(policy, p) /\ p \notin policy.fixedFiles
          /\ ~Under(policy.fixedTrees, p) /\ AsciiPath(p) \notin policy.fixedSpellings
      BY <1>1, <1>3, <2>1, <2>4, <3>1, SeatbeltFree, ProtectionsInHome
    <3> QED
      BY <1>4, <2>2, <2>4, <3>2 DEF CanWrite, SeatbeltWrite
  <2> QED
    BY <2>3, <2>4
<1>5. CASE policy.os = "linux"
  <2>1. CompiledFor(req, fs, grants, exclusions, executables, policy)
    BY <1>5, PolicyStarted
  <2>2. /\ LinuxRead(policy, fs, p) => CanRead(p)
        /\ LinuxWrite(policy, fs, p) => CanWrite(p)
    BY <1>5 DEF CanRead, CanWrite
  <2> QED
    BY <1>2, <2>1, <2>2, LinuxGives
<1> QED
  BY <1>4, <1>5, PolicyStarted

\* The policy of a started target is exactly the selection: reducing the
\* grants, rebuilding directories around denials and taking the union of
\* overlapping grants neither add nor lose authority, on either system.
THEOREM AuthorityIsTheSelection == LaunchSpec => []AuthorityIsExact
<1>1. LaunchInv => AuthorityIsExact
  BY TypesOfLaunch, NothingBeyond, Honoured DEF AuthorityIsExact
<1> QED
  BY <1>1, LaunchInvariant, PTL

-----------------------------------------------------------------------------
(* Launch authority: denials                                                *)

\* An exclusion validated at Start still leads where it led, or nowhere.
LEMMA ExclusionLeads ==
  ASSUME NEW f, WellFormed(f), NEW xs, revalidateFilesystemExclusions(f, xs), NEW x \in xs, IsExclusion(x)
  PROVE  EvalSymlinks(f, x.logical) \in {x.path, NoPath}
<1>1. /\ x.logical \in Path /\ x.path \in Path /\ x.exists \in BOOLEAN
      /\ Unchanged(f, x.witness)
      /\ x.exists \/ Lstat(f, x.firstMissing).kind = "absent"
  BY DEF revalidateFilesystemExclusions, revalidateFilesystemGrants, IsExclusion
<1>2. CASE x.exists
  <2>1. x.witness.logical = x.logical /\ x.witness.path = x.path
    BY <1>2 DEF IsExclusion
  <2>2. PICK i \in inspectGrantPath(f, x.logical, x.witness.type, x.witness.access) : i.path = x.path
    BY <1>1, <2>1 DEF Unchanged
  <2> QED
    BY <1>1, <2>2, InspectIs
<1>3. CASE ~x.exists
  <2> DEFINE fm == x.firstMissing
             up == EvalSymlinks(f, Dir(fm))
  <2>1. fm \in Path /\ fm # <<>> /\ withinOrEqual(fm, x.logical) /\ Lstat(f, fm).kind = "absent"
    BY <1>1, <1>3 DEF IsExclusion
  <2> HIDE DEF fm
  <2>2. EvalSymlinks(f, fm) = hop(f, up, Base(fm))
    BY <2>1, EvalStep
  <2>3. up = NoPath \/ ~Exists(f, Append(up, Base(fm)))
    BY <2>1 DEF Lstat, Exists
  <2> HIDE DEF up
  <2>4. EvalSymlinks(f, fm) = NoPath
    BY <2>2, <2>3 DEF hop
  <2> QED
    BY <1>1, <2>1, <2>4, EvalAbsent
<1> QED
  BY <1>1, <1>2, <1>3

\* The three parts of DenialsHold.
LEMMA Excluded == LaunchInv => ExclusionsHold
<1> SUFFICES ASSUME LaunchInv, Started, NEW x \in exclusions
             PROVE  /\ \A p \in Paths : (\/ withinOrEqual(x.logical, p)
                                         \/ withinOrEqual(x.path, p)
                                         \/ /\ policy.os = "darwin" /\ ~x.exists
                                            /\ Under(seatbeltSpellingInsensitivePattern(x.path), AsciiPath(p)))
                                        => ~CanRead(p) /\ ~CanWrite(p)
                    /\ \A p \in Ancestors(x.path) : ~CanWrite(p)
  BY DEF ExclusionsHold
<1>1. IsExclusion(x) /\ x.logical \in Path /\ x.path \in Path /\ WellFormed(fs)
  BY CapturesApart
<1>2. CASE policy.os = "darwin"
  <2>1. /\ policy = buildSeatbeltPolicy(req, grants, exclusions, executables, Selected0(protections), Workspace)
        /\ req.os = "darwin"
    BY <1>2, PolicyStarted
  <2>2. ASSUME NEW p \in Paths, \/ withinOrEqual(x.logical, p) \/ withinOrEqual(x.path, p)
                                \/ /\ ~x.exists
                                   /\ Under(seatbeltSpellingInsensitivePattern(x.path), AsciiPath(p))
        PROVE  ~CanRead(p) /\ ~CanWrite(p)
    <3>1. x.logical \in policy.deniedTrees /\ x.path \in policy.deniedTrees
      BY <2>1, SeatbeltDenies
    <3>2. ~x.exists => seatbeltSpellingInsensitivePattern(x.path) \subseteq policy.deniedSpellings
      BY <2>1, SeatbeltDenies DEF SpelledBy
    <3>3. SeatbeltDenied(policy, p)
      BY <2>2, <3>1, <3>2 DEF SeatbeltDenied, Under
    <3> QED
      BY <1>2, <3>3 DEF CanRead, CanWrite, SeatbeltRead, SeatbeltWrite
  <2>3. ASSUME NEW p \in Ancestors(x.path) PROVE ~CanWrite(p)
    <3>1. p \in policy.fixedFiles
      BY <2>1, SeatbeltDenies
    <3> QED
      BY <1>2, <3>1 DEF CanWrite, SeatbeltWrite
  <2> QED
    BY <1>2, <2>2, <2>3
<1>3. CASE policy.os = "linux"
  <2> DEFINE all == LinuxAuthorities(req, fs, grants, executables, Workspace)
  <2>1. CompiledFor(req, fs, grants, exclusions, executables, policy)
    BY <1>3, PolicyStarted
  <2>2. x.logical = x.path
    BY <2>1 DEF CompiledFor, LinuxExclusionSound
  <2>3. ASSUME NEW p \in Paths, withinOrEqual(x.path, p) PROVE ~CanRead(p) /\ ~CanWrite(p)
    <3>1. ~LinuxRead(policy, fs, p) /\ ~LinuxWrite(policy, fs, p)
      BY <2>1, <2>3, LinuxBeyond DEF pathsOverlap
    <3> QED
      BY <1>3, <3>1 DEF CanRead, CanWrite
  <2>4. ASSUME NEW p \in Ancestors(x.path) PROVE ~CanWrite(p)
    <3>1. p \in Path /\ withinOrEqual(p, x.path)
      BY <1>1, AncestorsMeans
    <3>2. /\ AuthoritiesSound(fs, all, Denied(exclusions)) /\ policy = LinuxMounts(fs, all, Denied(exclusions))
          /\ \A a \in all : a.path \in Path
      BY <2>1, CapturesApart, AuthoritiesAre
    <3> HIDE DEF all
    <3>3. ASSUME LinuxWrite(policy, fs, p) PROVE FALSE
      <4>1. PICK o \in all : o.access = "rw" /\ withinOrEqual(o.path, p)
        BY <1>1, <3>1, <3>2, <3>3, LinuxWriteIs
      <4>2. withinOrEqual(o.path, x.path)
        BY <1>1, <3>1, <3>2, <4>1, PrefixTrans
      <4>3. x.path \in Denied(exclusions)
        BY DEF Denied
      <4> QED
        BY <3>2, <4>1, <4>2, <4>3 DEF AuthoritiesSound, pathsOverlap
    <3> QED
      BY <1>3, <3>3 DEF CanWrite
  <2> QED
    BY <1>3, <2>2, <2>3, <2>4
<1> QED
  BY <1>2, <1>3, PolicyStarted

\* No directory the Session hangs below can be written on macOS.
LEMMA AboveSession ==
  ASSUME LaunchInv, Started, policy.os = "darwin", NEW a \in Path, withinOrEqual(a, Session), a # Session
  PROVE  ~CanWrite(a)
<1>1. policy = buildSeatbeltPolicy(req, grants, exclusions, executables, Selected0(protections), Workspace)
  BY PolicyStarted
<1>2. ~pathsOverlap(Workspace, Sessions)
  BY DEF LaunchInv, CaptureInv, Started
<1>3. ASSUME NEW t \in Path, withinOrEqual(t, a) PROVE pathsOverlap(t, Sessions) /\ t # Session
  <2>1. withinOrEqual(t, Session)
    BY <1>3, PlaceOrder, PrefixTrans
  <2>2. pathsOverlap(t, Sessions)
    BY <2>1, PlaceOrder, PrefixChain
  <2>3. t # Session
    BY <1>3, PlaceOrder, PrefixLength
  <2> QED
    BY <2>2, <2>3
<1>4. ASSUME Under(policy.writeTrees, a) \/ a \in policy.writeFiles PROVE FALSE
  <2>1. \/ withinOrEqual(Workspace, a)
        \/ withinOrEqual(Session, a)
        \/ \E g \in grants : Covers(g, a)
    BY <1>1, <1>4, SeatbeltBeyond
  <2>2. ~withinOrEqual(Workspace, a) /\ ~withinOrEqual(Session, a)
    BY <1>2, <1>3, PlaceOrder
  <2>3. PICK g \in grants : Covers(g, a)
    BY <2>1, <2>2
  <2>4. g.path \in Path /\ withinOrEqual(g.path, a) /\ ~pathsOverlap(g.path, Sessions)
    BY <2>3, CapturesApart, CoversIs DEF IsGrant
  <2> QED
    BY <2>4, <1>3
<1> QED
  BY <1>4 DEF CanWrite, SeatbeltWrite

LEMMA Protected == LaunchInv => ProtectionsHold
<1> SUFFICES ASSUME LaunchInv, Started, NEW q \in protections, q.path \in req.protections
             PROVE  ~CanWrite(q.path) /\ \A a \in Ancestors(q.path) : ~CanWrite(a)
  BY DEF ProtectionsHold
<1>1. CASE policy.os = "linux"
  BY <1>1, PolicyStarted
<1>2. CASE policy.os = "darwin"
  <2>1. /\ policy = buildSeatbeltPolicy(req, grants, exclusions, executables, Selected0(protections), Workspace)
        /\ req.os = "darwin"
    BY <1>2, PolicyStarted
  <2>3. q.path \in Path /\ (q.path \in {Session, SessionHome} \/ pathWithin(SessionHome, q.path))
    BY DEF LaunchInv, PolicyInv, Started
  <2>4. \A t : t \in policy.fixedFiles => ~CanWrite(t)
    BY <1>2 DEF CanWrite, SeatbeltWrite
  <2>5. Session \in policy.fixedFiles /\ SessionHome \in policy.fixedFiles
    BY <2>1, SeatbeltDenies
  <2>6. ASSUME NEW a \in Path, withinOrEqual(a, SessionHome) PROVE ~CanWrite(a)
    <3>1. CASE a = SessionHome
      BY <3>1, <2>4, <2>5
    <3>2. CASE a # SessionHome
      <4>1. withinOrEqual(a, Session)
        <5>1. Dir(SessionHome) = Session /\ SessionHome \in Path /\ SessionHome # <<>>
          BY PlacesAssumption, PlacesAre, PathsAre
        <5> QED
          BY <5>1, <3>2, <2>6, DirMeans
      <4> QED
        BY <1>2, <2>4, <2>5, <2>6, <4>1, AboveSession
    <3> QED
      BY <3>1, <3>2
  <2>7. ASSUME NEW a \in Path, withinOrEqual(a, q.path) PROVE ~CanWrite(a)
    <3>1. CASE withinOrEqual(a, SessionHome)
      BY <2>6, <3>1
    <3>2. CASE ~withinOrEqual(a, SessionHome)
      <4>1. pathWithin(SessionHome, q.path)
        <5>1. CASE q.path \in {Session, SessionHome}
          BY <5>1, <3>2, <2>7, PlaceOrder, PrefixTrans, PrefixSelf
        <5> QED
          BY <5>1, <2>3
      <4>2. q \in Selected0(protections)
        BY <4>1 DEF Selected0
      <4>3. pathWithin(SessionHome, a)
        <5>1. pathsOverlap(a, SessionHome)
          BY <2>3, <2>7, <4>1, PlaceOrder, PrefixChain DEF pathWithin
        <5> QED
          BY <5>1, <3>2 DEF pathsOverlap, pathWithin
      <4>4. a = q.path \/ a \in ProtectionAncestors(q.path)
        BY <2>3, <2>7, <4>3, AncestorsMeans DEF ProtectionAncestors
      <4>5. a \in policy.fixedFiles
        BY <2>1, <4>2, <4>4, SeatbeltDenies
      <4> QED
        BY <2>4, <4>5
    <3> QED
      BY <3>1, <3>2
  <2> QED
    BY <2>3, <2>7, PrefixSelf, AncestorsMeans
<1> QED
  BY <1>1, <1>2, PolicyStarted

\* What a policy reaches overlaps nothing that captures are kept apart from.
LEMMA ReachedApart ==
  ASSUME LaunchInv, Started, NEW p \in Paths, GrantedRead(p), NEW d \in Private \cup {Sessions, Operations},
         withinOrEqual(d, p)
  PROVE  d = Sessions /\ withinOrEqual(Session, p)
<1>1. p \in Path /\ d \in Path
  BY PlacesAre, PathsAre
<1>2. ~pathsOverlap(Workspace, d)
  BY DEF LaunchInv, CaptureInv, Started
<1>3. ASSUME NEW t \in Path, withinOrEqual(t, p) PROVE pathsOverlap(t, d)
  BY <1>1, <1>3, PrefixChain
<1>4. ~withinOrEqual(Workspace, p)
  BY <1>2, <1>3, PlaceOrder
<1>5. ASSUME NEW g \in grants PROVE ~Covers(g, p)
  <2>1. ~pathsOverlap(g.path, d) /\ g.path \in Path
    <3>1. CASE d = Operations
      BY <3>1, CapturesApart DEF LaunchInv, CaptureInv, Started
    <3>2. CASE d # Operations
      BY <3>2, CapturesApart DEF IsGrant
    <3> QED
      BY <3>1, <3>2
  <2> QED
    BY <2>1, <1>1, <1>3, CoversIs
<1>6. ASSUME NEW t \in RuntimeInputs \cup {Executable} PROVE ~withinOrEqual(t, p)
  <2>1. ~pathsOverlap(t, d)
    BY PlacesAssumption
  <2> QED
    BY <2>1, <1>3, PlacesAre, PathsAre
<1>7. ASSUME NEW e \in executables PROVE ~withinOrEqual(e.path, p) /\ ~withinOrEqual(e.logical, p)
  <2>1. e.path \in Path /\ e.logical \in Path /\ IsExecutable(e)
    BY CapturesApart
  <2>2. ~pathsOverlap(e.path, d)
    <3>1. CASE d = Operations
      BY <3>1 DEF LaunchInv, CaptureInv, Started
    <3>2. CASE d # Operations
      BY <3>2, <2>1 DEF IsExecutable
    <3> QED
      BY <3>1, <3>2
  <2>3. PICK s \in ToSet(SearchPath) : withinOrEqual(s, e.logical)
    BY <2>1 DEF IsExecutable
  <2>4. s \in Path /\ ~pathsOverlap(s, d)
    <3>1. s \in Paths
      BY PlacesAssumption DEF ToSet
    <3>2. ~pathsOverlap(s, d)
      BY PlacesAssumption
    <3> QED
      BY <3>1, <3>2, PathsAre
  <2>5. ~withinOrEqual(e.logical, p)
    BY <1>1, <1>3, <2>1, <2>3, <2>4, PrefixTrans
  <2> QED
    BY <1>3, <2>1, <2>2, <2>5
<1>8. withinOrEqual(Session, p)
  BY <1>4, <1>5, <1>6, <1>7 DEF GrantedRead
<1>9. d = Sessions
  <2>1. withinOrEqual(Sessions, p)
    BY <1>1, <1>8, PlaceOrder, PrefixTrans
  <2>2. pathsOverlap(d, Sessions)
    BY <1>1, <2>1, PlaceOrder, PrefixChain
  <2> QED
    BY <2>2, PlacesAssumption
<1> QED
  BY <1>8, <1>9

\* What a Linux target reaches has one name.
LEMMA OneName ==
  ASSUME LaunchInv, NEW q, CompiledFor(req, fs, grants, exclusions, executables, q), NEW p \in Paths,
         LinuxRead(q, fs, p) \/ LinuxWrite(q, fs, p), Node(fs, p).kind = "file"
  PROVE  Links(fs, p) = 1
<1> DEFINE all == LinuxAuthorities(req, fs, grants, executables, Workspace)
<1>1. /\ AuthoritiesSound(fs, all, Denied(exclusions)) /\ q = LinuxMounts(fs, all, Denied(exclusions))
      /\ \A a \in all : validateTree(fs, a.path, Denied(exclusions))
      /\ WellFormed(fs) /\ p \in Path /\ Exists(fs, p)
  BY CapturesApart, AuthoritiesAre, PathsAre DEF CompiledFor, Exists
<1> HIDE DEF all
<1>2. ~Under(Denied(exclusions), p)
  BY LinuxBeyond DEF Under, Denied, pathsOverlap
<1>3. \E a \in all : withinOrEqual(a.path, p)
  BY <1>1, LinuxReadIs, LinuxWriteIs
<1> QED
  BY <1>1, <1>2, <1>3 DEF validateTree

LEMMA Hidden == LaunchInv => PrivateStateHidden
<1> SUFFICES ASSUME LaunchInv, Started, NEW p \in Paths, CanRead(p) \/ CanWrite(p)
             PROVE  /\ ~withinOrEqual(Operations, p)
                    /\ withinOrEqual(Sessions, p) => withinOrEqual(Session, p)
                    /\ \A d \in Private :
                          /\ p # d
                          /\ policy.os = "linux" /\ Node(fs, p).kind = "file" /\ Node(fs, d).kind = "file"
                             => ~SameFile(fs, p, d)
  BY DEF PrivateStateHidden
<1>1. GrantedRead(p)
  <2>1. GrantedRead(p) \/ GrantedWrite(p)
    <3>1. (CanRead(p) => GrantedRead(p)) /\ (CanWrite(p) => GrantedWrite(p))
      BY NothingBeyond DEF NothingBeyondSelection
    <3> QED
      BY <3>1
  <2> QED
    BY <2>1 DEF GrantedRead, GrantedWrite, Selected
<1>2. Operations # Sessions /\ \A d \in Private : d # Sessions
  <2>1. ASSUME NEW d \in Private \cup {Operations} PROVE d # Sessions
    <3>1. ~pathsOverlap(d, Sessions)
      BY PlacesAssumption
    <3> QED
      BY <3>1, PlaceOrder, PrefixSelf
  <2> QED
    BY <2>1
<1>3. ~withinOrEqual(Operations, p) /\ (withinOrEqual(Sessions, p) => withinOrEqual(Session, p))
  BY <1>1, <1>2, ReachedApart
<1>4. ASSUME NEW d \in Private PROVE p # d
  BY <1>1, <1>2, ReachedApart, PathsAre, PrefixSelf
<1>5. ASSUME policy.os = "linux", Node(fs, p).kind = "file", NEW d \in Private, Node(fs, d).kind = "file",
             SameFile(fs, p, d)
      PROVE  FALSE
  <2>1. CompiledFor(req, fs, grants, exclusions, executables, policy)
    BY <1>5, PolicyStarted
  <2>2. LinuxRead(policy, fs, p) \/ LinuxWrite(policy, fs, p)
    BY <1>5 DEF CanRead, CanWrite
  <2>3. Links(fs, p) = 1
    BY <2>1, <2>2, <1>5, OneName
  <2>4. d \in Paths /\ d # p
    BY <1>4, PlacesAre
  <2>5. /\ fs[p].kind = "file" /\ fs[d].kind = "file" /\ fs[p].ino = fs[d].ino
    BY <1>5, <2>4, PathsAre DEF SameFile, Node
  <2> DEFINE names == {q \in Paths : fs[q].kind = "file" /\ fs[q].ino = fs[p].ino}
  <2>6. p \in names /\ d \in names
    BY <2>4, <2>5
  <2>7. IsFiniteSet(names)
    BY PathsAssumption, FS_Subset
  <2>8. Cardinality(names) = 1
    BY <2>3 DEF Links
  <2> HIDE DEF names
  <2>9. \E x : names = {x}
    BY <2>7, <2>8, FS_Singleton
  <2> QED
    BY <2>4, <2>6, <2>9
<1> QED
  BY <1>3, <1>4, <1>5

\* Every denial by name holds for a started target: exclusions in the spellings
\* of a rule, Session protections and ACS's own state, whatever other programs
\* did to the disk since the captures, on macOS also between the last validation
\* and the release of the target (buildSeatbeltPolicy, compileLinuxFilesystemPlan).
THEOREM DenialsHoldAtStart == LaunchSpec => []DenialsHold
<1>1. LaunchInv => DenialsHold
  BY Excluded, Protected, Hidden DEF DenialsHold
<1> QED
  BY <1>1, LaunchInvariant, PTL

\* What Prepare accepts has no grant that became a private file.
LEMMA PreparedApart ==
  ASSUME LaunchInv, LaunchNext, phase' = "prepared", phase # "prepared",
         NEW g \in grants, g.type = "file", NEW d \in Private
  PROVE  ~SameFile(fs, g.path, d)
<1>1. PrepareProcess
  BY DEF LaunchNext, Resolve, Check, Refuse, StartProcess, startSupervisor, Supervise, HostNext,
         HostReplace, HostRemove, HostWrite, HostLink, HostHardlink, HostCreate, HostPatch, HostStep, Tick
<1>2. validateSandboxCheck(fs, exe, grants, exclusions, executables)
  BY <1>1 DEF PrepareProcess, Refuse
<1>3. Unchanged(fs, g)
  BY <1>2 DEF validateSandboxCheck, revalidateFilesystemGrants
<1>4. WellFormed(fs) /\ g.logical \in Path /\ g.path \in Paths /\ FilesApart(fs, grants)
  BY CapturesApart DEF LaunchInv, CaptureInv, IsGrant
<1>5. g.identity = identityFromFileInfo(fs, g.path)
  BY <1>3, <1>4, InspectIs DEF Unchanged
<1>6. g.identity.ino = Node(fs, g.path).ino
  BY <1>5 DEF identityFromFileInfo
<1>7. Node(fs, d) = fs[d]
  BY PlacesAre, PathsAre DEF Node
<1>8. fs[d].kind = "absent" \/ fs[d].ino # g.identity.ino
  BY <1>4 DEF FilesApart
<1> QED
  BY <1>6, <1>7, <1>8 DEF SameFile, Exists

\* What Start accepts leads where it led and is the file it was.
LEMMA StartedAsCaptured ==
  ASSUME LaunchInv, LaunchNext, phase' = "starting", phase # "starting"
  PROVE  /\ \A x \in exclusions : EvalSymlinks(fs, x.logical) \in {x.path, NoPath}
         /\ req.protections # {} =>
               \A q \in protections : identityFromFileInfo(fs, q.path) = q.identity
<1>1. StartProcess
  BY DEF LaunchNext, Resolve, Check, PrepareProcess, Refuse, startSupervisor, Supervise, HostNext,
         HostReplace, HostRemove, HostWrite, HostLink, HostHardlink, HostCreate, HostPatch, HostStep, Tick
<1>2. /\ phase = "prepared"
      /\ \/ req.protections = {} /\ exclusions = {}
         \/ revalidateSessionProtections(fs, protections, exclusions)
  BY <1>1 DEF StartProcess, Refuse
<1>3. WellFormed(fs) /\ \A x \in exclusions : IsExclusion(x)
  BY CapturesApart
<1>4. exclusions # {} => revalidateFilesystemExclusions(fs, exclusions)
  BY <1>2 DEF revalidateSessionProtections
<1>5. \A x \in exclusions : EvalSymlinks(fs, x.logical) \in {x.path, NoPath}
  BY <1>3, <1>4, ExclusionLeads
<1>6. ASSUME req.protections # {}, NEW q \in protections
      PROVE  identityFromFileInfo(fs, q.path) = q.identity
  <2>1. PICK i \in inspectGrantPath(fs, q.path, Node(fs, q.path).kind, "ro") :
           i.path = q.path /\ i.identity = q.identity
    BY <1>2, <1>6 DEF revalidateSessionProtections
  <2>2. q.path \in Path
    BY <1>2 DEF LaunchInv, PolicyInv
  <2>3. i.identity = identityFromFileInfo(fs, i.path)
    BY <1>3, <2>1, <2>2, InspectIs
  <2> QED
    BY <2>1, <2>3
<1> QED
  BY <1>5, <1>6

\* A launch is prepared only while no granted file is another name of a private
\* one, and its supervisor started only while exclusions and protections are
\* what was captured (validateSandboxCheck, sanitizedProcess.Start).
THEOREM LaunchesAreAsCaptured == LaunchSpec => AcceptedAsCaptured
<1>1. ASSUME LaunchInv, [LaunchNext]_authorityVars
      PROVE  [/\ phase' = "prepared" /\ phase # "prepared" =>
                    \A g \in grants, d \in Private : g.type = "file" => ~SameFile(fs, g.path, d)
              /\ phase' = "starting" /\ phase # "starting" =>
                    /\ \A x \in exclusions : EvalSymlinks(fs, x.logical) \in {x.path, NoPath}
                    /\ req.protections # {} =>
                          \A q \in protections : identityFromFileInfo(fs, q.path) = q.identity
             ]_authorityVars
  BY <1>1, PreparedApart, StartedAsCaptured
<1> QED
  BY <1>1, LaunchInvariant, PTL DEF LaunchSpec, AcceptedAsCaptured

-----------------------------------------------------------------------------
(* Launch authority: the two backends, and the hashed executables           *)

\* Read and write, the two policies allow the same paths.
LEMMA SamePolicy == LaunchInv => BackendsAgree
<1> DEFINE ps == UNION {ProtectionFor(fs, p) : p \in req.protections}
           darwin == buildSeatbeltPolicy(req, grants, exclusions, executables, ps, Workspace)
<1>1. SUFFICES ASSUME LaunchInv, phase = "checked",
                      NEW linux \in compileLinuxFilesystemPlan(req, fs, grants, exclusions, executables, ps, Workspace),
                      NEW p \in Paths, ~withinOrEqual(Sessions, p), Exists(fs, p),
                      \A x \in exclusions : ~Respells(x, p)
               PROVE  /\ LinuxRead(linux, fs, p) <=> SeatbeltRead(darwin, ps, p)
                      /\ LinuxWrite(linux, fs, p) <=> SeatbeltWrite(darwin, p)
  <2>1. LaunchInv => EvalSymlinks(fs, Workspace) = Workspace
    BY WorkspaceIs DEF LaunchInv, DiskInv
  <2>2. ASSUME NEW linux, NEW p
        PROVE  /\ LinuxRead(linux, fs, p) \in BOOLEAN /\ SeatbeltRead(darwin, ps, p) \in BOOLEAN
               /\ LinuxWrite(linux, fs, p) \in BOOLEAN /\ SeatbeltWrite(darwin, p) \in BOOLEAN
    BY DEF LinuxRead, LinuxWrite, SeatbeltRead, SeatbeltWrite
  <2> QED
    BY <2>1, <2>2 DEF BackendsAgree
<1>2. /\ CompiledFor(req, fs, grants, exclusions, executables, linux) /\ req.mcp = "none"
      /\ \A e \in executables : e.logical = e.path
      /\ \A x \in exclusions : x.logical = x.path
  BY CompiledIs
<1>3. p \in Path /\ \A x \in exclusions : x.path \in Path
  BY <1>1, PathsAre, CapturesApart
<1>4. \A s \in ps : s.path \in Path /\ pathWithin(SessionHome, s.path)
  BY <1>1, ProtectionsAre, CapturesApart
<1>5. ~withinOrEqual(Session, p)
  BY <1>1, <1>3, PlaceOrder, PrefixTrans
<1> HIDE DEF ps
<1> SUFFICES ASSUME NEW q, q = darwin
             PROVE  /\ LinuxRead(linux, fs, p) <=> SeatbeltRead(q, ps, p)
                    /\ LinuxWrite(linux, fs, p) <=> SeatbeltWrite(q, p)
  OBVIOUS
<1>6. q = buildSeatbeltPolicy(req, grants, exclusions, executables, ps, Workspace)
  OBVIOUS
<1> HIDE DEF darwin
<1>7. /\ (\A x \in exclusions : ~withinOrEqual(x.path, p)) <=> ~SeatbeltDenied(q, p)
      /\ (\A x \in exclusions : ~pathsOverlap(x.path, p)) =>
            p \notin q.fixedFiles /\ ~Under(q.fixedTrees, p) /\ AsciiPath(p) \notin q.fixedSpellings
  BY <1>1, <1>2, <1>3, <1>4, <1>6, SeatbeltFree
<1>8. q.mcp = "none"
  BY <1>2, <1>6 DEF buildSeatbeltPolicy
<1>9. LinuxRead(linux, fs, p) <=> SeatbeltRead(q, ps, p)
  <2>1. ASSUME LinuxRead(linux, fs, p) PROVE SeatbeltRead(q, ps, p)
    <3>1. /\ \A x \in exclusions : ~withinOrEqual(x.path, p)
          /\ Under(q.readTrees, p) \/ p \in q.readFiles
      BY <2>1, <1>1, <1>2, <1>3, <1>5, <1>6, LinuxBeyond, SeatbeltGives
    <3> QED
      BY <3>1, <1>7, <1>8 DEF SeatbeltRead
  <2>2. ASSUME SeatbeltRead(q, ps, p) PROVE LinuxRead(linux, fs, p)
    <3>1. (Under(q.readTrees, p) \/ p \in q.readFiles) /\ ~SeatbeltDenied(q, p)
      BY <2>2 DEF SeatbeltRead
    <3>2. \/ withinOrEqual(Workspace, p)
          \/ \E g \in grants : g.effective /\ Covers(g, p)
          \/ \E t \in RuntimeInputs : withinOrEqual(t, p)
          \/ p = Executable
          \/ \E e \in executables : p = e.path
      BY <3>1, <1>1, <1>2, <1>3, <1>5, <1>6, SeatbeltBeyond
    <3> QED
      BY <3>1, <3>2, <1>1, <1>2, <1>7, LinuxGives
  <2> QED
    BY <2>1, <2>2 DEF LinuxRead, SeatbeltRead
<1>10. LinuxWrite(linux, fs, p) <=> SeatbeltWrite(q, p)
  <2>1. ASSUME LinuxWrite(linux, fs, p) PROVE SeatbeltWrite(q, p)
    <3>1. /\ \A x \in exclusions : ~pathsOverlap(x.path, p)
          /\ Under(q.writeTrees, p) \/ p \in q.writeFiles
      BY <2>1, <1>1, <1>2, <1>3, <1>5, <1>6, LinuxBeyond, SeatbeltGives
    <3>2. \A x \in exclusions : ~withinOrEqual(x.path, p)
      BY <3>1 DEF pathsOverlap
    <3> QED
      BY <3>1, <3>2, <1>7 DEF SeatbeltWrite
  <2>2. ASSUME SeatbeltWrite(q, p) PROVE LinuxWrite(linux, fs, p)
    <3>1. Under(q.writeTrees, p) \/ p \in q.writeFiles
      BY <2>2 DEF SeatbeltWrite
    <3>2. \/ req.workspace = "rw" /\ withinOrEqual(Workspace, p)
          \/ \E g \in grants : g.effective /\ g.access = "rw" /\ Covers(g, p)
      BY <3>1, <1>1, <1>3, <1>5, <1>6, SeatbeltBeyond
    <3> QED
      BY <3>2, <1>1, <1>2, LinuxGives
  <2> QED
    BY <2>1, <2>2 DEF LinuxWrite, SeatbeltWrite
<1> QED
  BY <1>9, <1>10

\* Where both backends can represent a request they give it the same meaning
\* outside the Sessions (buildSeatbeltPolicy, compileLinuxFilesystemPlan).
THEOREM BackendsGiveTheSame == LaunchSpec => []BackendsAgree
BY SamePolicy, LaunchInvariant, PTL

\* What revalidateExecutableGrants accepts has the bytes that were hashed.
LEMMA HashedBytes ==
  ASSUME NEW f, WellFormed(f), NEW x, NEW now, NEW es, revalidateExecutableGrants(f, x, es),
         NEW e \in es, IsExecutable(e), HashSound(e, x, now)
  PROVE  Content(f, e.path, x) = e.digest /\ fixedSearchExecutable(f, e.name) = e.logical
<1>1. /\ IsExecutable(e) /\ HashSound(e, x, now) /\ e.logical \in Path
      /\ fixedSearchExecutable(f, e.name) = e.logical
  BY DEF revalidateExecutableGrants, IsExecutable
<1>2. PICK i \in inspectGrantPath(f, e.logical, "file", "ro") :
             /\ i.path = e.path /\ i.identity = e.identity
             /\ \/ e.reusable /\ e.ctime = Changed(f, e.path, x)
                \/ e.digest = Content(f, e.path, x)
  BY DEF revalidateExecutableGrants
<1>3. CASE e.path = Tool
  BY <1>1, <1>2, <1>3 DEF HashSound, Changed, Content
<1>4. CASE e.path # Tool
  <2>1. Node(f, e.path).kind = "file" /\ e.identity = identityFromFileInfo(f, e.path)
    BY <1>1, <1>2, InspectIs
  <2>2. e.identity.ver = Node(f, e.path).ver
    BY <2>1 DEF identityFromFileInfo
  <2> QED
    BY <1>1, <1>4, <2>2 DEF HashSound, Content
<1> QED
  BY <1>1, <1>3, <1>4

LEMMA AcceptedAsHashed ==
  ASSUME LaunchInv, LaunchNext, phase' \in {"checked", "prepared"}, phase' # phase, NEW e \in executables
  PROVE  Content(fs, e.path, exe) = e.digest /\ fixedSearchExecutable(fs, e.name) = e.logical
<1>1. Check \/ PrepareProcess
  BY DEF LaunchNext, Resolve, Refuse, StartProcess, startSupervisor, Supervise, HostNext, HostReplace,
         HostRemove, HostWrite, HostLink, HostHardlink, HostCreate, HostPatch, HostStep, Tick
<1>2. validateSandboxCheck(fs, exe, grants, exclusions, executables)
  BY <1>1 DEF Check, PrepareProcess, Refuse
<1>3. revalidateExecutableGrants(fs, exe, executables)
  BY <1>2 DEF validateSandboxCheck
<1>4. WellFormed(fs) /\ \A c \in executables : IsExecutable(c) /\ HashSound(c, exe, clock)
  BY DEF LaunchInv, DiskInv, CaptureInv
<1> QED
  BY <1>3, <1>4, HashedBytes

\* A launch that is accepted shows the target the executables whose bytes were
\* hashed: a digest is reused only where no write can have gone unnoticed
\* (digestReusable, revalidateExecutableGrants).
THEOREM ExecutablesAreAsHashed == LaunchSpec => ExecutableAsHashed
<1>1. ASSUME LaunchInv, [LaunchNext]_authorityVars
      PROVE  [phase' \in {"checked", "prepared"} /\ phase' # phase =>
                \A e \in executables : /\ Content(fs, e.path, exe) = e.digest
                                       /\ fixedSearchExecutable(fs, e.name) = e.logical]_authorityVars
  BY <1>1, AcceptedAsHashed
<1> QED
  BY <1>1, LaunchInvariant, PTL DEF LaunchSpec, ExecutableAsHashed

=============================================================================
