--------------------------- MODULE ProfileHistory ---------------------------
(***************************************************************************)
(* Profile history (internal/profilerepo/history.go): the lineages of a    *)
(* Profile, the event records and snapshots in them, the name bindings,    *)
(* pins and retention.                                                     *)
(*                                                                         *)
(* Everything here runs under the repository lock, one operation at a      *)
(* time, so there is one worker; it can be killed between any two steps,   *)
(* and in the middle of a file it is writing when the step is one of Cuts. *)
(* ProfileTxn has the transaction around historyCommit: Mutate stands for  *)
(* everything up to the published Profile, Complete for the receipt and    *)
(* the removal of the witness.  Revisions, digests and timestamps are      *)
(* represented by the event they identify.                                 *)
(***************************************************************************)
EXTENDS Naturals, FiniteSets, FiniteSetsExt

CONSTANTS
    Names,          \* Profile names
    Nil,            \* absence
    Torn,           \* a file whose write was interrupted
    Cuts,           \* the steps whose file write may be interrupted
    MaxLineages,    \* bound: lineages ever created
    MaxEvents,      \* bound: events ever created
    MaxCrashes,     \* bound: deaths of the worker
    Keeps,          \* the bounds asked of an explicit prune, within 1..100
    DefaultKeep,    \* DefaultHistoryKeep: ordinary events kept by a transaction
    MaxRetained,    \* MaxHistoryEvents: events a lineage may hold
    MaxPins         \* bound: pins a lineage may get

ASSUME KeepAssumption == Keeps \cup {DefaultKeep} \subseteq 1..100 /\ MaxRetained \in Nat

ASSUME HistoryBounds == {MaxLineages, MaxEvents, MaxCrashes, MaxPins} \subseteq Nat

VARIABLES
    doc,        \* name -> a Profile of that name is published
    bind,       \* name -> name binding file: lineage, Nil or Torn
    lin,        \* lineage -> its directory
    txn,        \* the decided transaction whose history is not complete, or Nil
    job,        \* the pin or prune request in progress, or Nil
    preview,    \* the last prune preview: lineage, keep and candidates
    step,         \* next step of the worker
    nextLin, nextEv, crashes

historyVars == <<doc, bind, lin, txn, job, preview, step, nextLin, nextEv, crashes>>

Lineages == 1..MaxLineages
Events == 1..MaxEvents
Whole == "whole"

Record == [ev : Events, seq : 1..MaxEvents, parent : Events \cup {Nil},
           pre : Names, post : Names, tomb : BOOLEAN, source : Lineages \cup {Nil}]

Directory == [made : BOOLEAN,
              rec  : [Events -> Record \cup {Nil, Torn}],
              snap : [Events -> {Nil, Torn, Whole}],
              pins : SUBSET Events,
              next : (SUBSET Events) \cup {Nil, Torn},
              journal : (SUBSET Events) \cup {Nil, Torn}]

Change ==
    [op : {"create"}, src : {Nil}, dst : Names, line : Lineages \cup {Nil}, want : {Nil}]
    \cup
    [op : {"replace"}, src : Names, dst : {Nil}, line : Lineages \cup {Nil}, want : {Nil}]
    \cup
    [op : {"delete"}, src : Names, dst : {Nil}, line : {Nil}, want : {Nil}]
    \cup
    {c \in [op : {"rename"}, src : Names, dst : Names, line : {Nil}, want : {Nil}]
           \cup [op : {"clone"}, src : Names, dst : Names, line : {Nil},
                 want : Lineages \cup {Nil}] : c.src # c.dst}

Transaction ==
    [op : {"create", "replace", "delete", "clone", "rename"},
     src : Names \cup {Nil}, want : Lineages \cup {Nil},
     lineage : Lineages, record : Record,
     adoptIn : Lineages \cup {Nil}, adoption : Record \cup {Nil},
     prune : SUBSET Events]

Job == [kind : {"pin"}, l : Lineages, pins : SUBSET Events]
       \cup [kind : {"prune"}, l : Lineages, pins : SUBSET Events]

Preview == [l : Lineages, keep : Keeps, ids : SUBSET Events]

Labels == {"idle", "down", "maintain", "attach", "mkdir", "adoptSnap", "adoptRec",
           "snap", "rec", "unbind", "bind", "bindAdopted", "journal", "collect",
           "complete", "pinWrite", "pinRename", "pruneJournal", "pruneCollect"}

\* Absence and an interrupted write are not values of their own.
ASSUME ValuesAssumption ==
    /\ Torn # Nil
    /\ \A v \in {Nil, Torn} :
          /\ v \notin Lineages /\ v \notin Names /\ v \notin Events /\ v # Whole
          /\ v \notin Record /\ \A S \in SUBSET Events : v # S
          /\ v \notin Transaction /\ v \notin Job /\ v \notin Preview

-----------------------------------------------------------------------------
(* Reading a lineage. *)

records(l) == {lin[l].rec[e] : e \in {x \in Events : lin[l].rec[x] \notin {Nil, Torn}}}

\* readLineage: every leaf is an event, a snapshot or the pins; every record is
\* whole and backed by its snapshot.
readable(l) ==
    /\ lin[l].made
    /\ lin[l].next = Nil
    /\ lin[l].journal = Nil
    /\ \A e \in Events : /\ lin[l].rec[e] # Torn
                         /\ lin[l].rec[e] # Nil => lin[l].snap[e] = Whole
    /\ \A r, s \in records(l) : r.seq = s.seq => r = s
    /\ Cardinality(records(l)) <= MaxRetained

head(recs) == CHOOSE r \in recs : \A s \in recs : s.seq <= r.seq

\* resolveLineage by name: Nil when the name has no history.
resolves(n) ==
    /\ bind[n] \in Lineages
    /\ readable(bind[n])
    /\ records(bind[n]) # {}
    /\ LET h == head(records(bind[n])) IN ~h.tomb /\ h.post = n

\* Mutant: the predecessor of the head is not protected.
pruneCandidatesHeadOnly(recs, pins, keep) ==
    LET ordinary == {r \in recs : r.ev \notin pins} IN
    {r.ev : r \in {x \in ordinary : Cardinality({s \in ordinary : s.seq > x.seq}) >= keep}}

\* pruneCandidates: pins and the immediate predecessor of the head are skipped;
\* of the others the newest keep stay.
pruneCandidates(recs, pins, keep) ==
    LET newer(r) == {s \in recs : s.seq > r.seq}
        ordinary == {r \in recs : r.ev \notin pins /\ Cardinality(newer(r)) # 1}
    IN  {r.ev : r \in {x \in ordinary : Cardinality(newer(x) \cap ordinary) >= keep}}

-----------------------------------------------------------------------------
(* historyPrepare. *)

\* The lineage the request continues: the one the source name is bound to, or
\* the explicitly selected one.
sourceOf(c) == IF c.src # Nil /\ bind[c.src] # Nil THEN bind[c.src] ELSE c.line

\* The refusals of historyPrepare.
admissible(c) ==
    /\ c.src # Nil /\ bind[c.src] # Nil => resolves(c.src)
    /\ c.want # Nil => c.src # Nil /\ bind[c.src] = c.want
    /\ c.line # Nil => /\ sourceOf(c) = c.line
                       /\ readable(c.line) /\ records(c.line) # {}
                       /\ c.op = "create" => head(records(c.line)).tomb

\* The lineage and the events of the new transaction.
continues(c) == c.op # "clone" /\ sourceOf(c) # Nil
adopts(c) == c.src # Nil /\ sourceOf(c) = Nil

lineageOf(c) == IF continues(c) THEN sourceOf(c) ELSE nextLin
adoptLineage(c) == IF ~adopts(c) THEN Nil
                   ELSE IF c.op = "clone" THEN nextLin + 1 ELSE nextLin

freshLineages(c) == (IF continues(c) THEN 0 ELSE 1)
                    + (IF adopts(c) /\ c.op = "clone" THEN 1 ELSE 0)

freshEvents(c) == IF adopts(c) THEN 2 ELSE 1

postName(c) == IF c.dst # Nil THEN c.dst ELSE c.src

transaction(c) ==
    LET l    == lineageOf(c)
        old  == IF continues(c) THEN records(l) ELSE {}
        own  == adopts(c) /\ c.op # "clone"
        adoption == [ev |-> nextEv, seq |-> 1, parent |-> Nil, pre |-> c.src,
                     post |-> c.src, tomb |-> FALSE, source |-> Nil]
        event == IF adopts(c) THEN nextEv + 1 ELSE nextEv
        record == [ev |-> event,
                   seq |-> IF own THEN 2 ELSE IF old = {} THEN 1 ELSE head(old).seq + 1,
                   parent |-> IF own THEN nextEv
                              ELSE IF old = {} THEN Nil ELSE head(old).ev,
                   pre |-> IF c.src = Nil THEN postName(c) ELSE c.src,
                   post |-> postName(c),
                   tomb |-> c.op = "delete",
                   source |-> IF c.op # "clone" THEN Nil
                              ELSE IF adopts(c) THEN nextLin + 1 ELSE sourceOf(c)]
        kept == old \cup {record} \cup (IF own THEN {adoption} ELSE {})
    IN  [op |-> c.op, src |-> c.src, want |-> c.want, lineage |-> l, record |-> record,
         adoptIn |-> adoptLineage(c),
         adoption |-> IF adopts(c) THEN adoption ELSE Nil,
         prune |-> pruneCandidates(kept, IF continues(c) THEN lin[l].pins ELSE {},
                                   DefaultKeep)]

\* The quota of historyPrepare, by count.
withinQuota(t) ==
    LET old == IF lin[t.lineage].made THEN Cardinality(records(t.lineage)) ELSE 0
        own == IF t.adoptIn = t.lineage THEN 1 ELSE 0
    IN  old + own + 1 - Cardinality(t.prune) <= MaxRetained

\* Apply up to the published Profile.  The public conditions of the request hold
\* and restore names a lineage for a replacement only if the name has history.
Mutate(c) ==
    /\ step = "idle"
    /\ c.src # Nil => doc[c.src]
    /\ c.dst # Nil => ~doc[c.dst]
    /\ c.op = "replace" /\ c.line # Nil => bind[c.src] # Nil
    /\ c.line # Nil => lin[c.line].made
    /\ nextLin + freshLineages(c) <= MaxLineages + 1
    /\ nextEv + freshEvents(c) <= MaxEvents + 1
    /\ admissible(c)
    /\ withinQuota(transaction(c))
    /\ txn' = transaction(c)
    /\ nextLin' = nextLin + freshLineages(c)
    /\ nextEv' = nextEv + freshEvents(c)
    /\ doc' = [n \in Names |-> IF n = postName(c) THEN c.op # "delete"
                               ELSE IF n = c.src /\ c.op = "rename" THEN FALSE
                               ELSE doc[n]]
    /\ step' = "attach"
    /\ UNCHANGED <<bind, lin, job, preview, crashes>>

-----------------------------------------------------------------------------
(* historyCommit; a refusal leaves the transaction to the next recovery. *)

Refuse == step' = "down" /\ UNCHANGED <<bind, lin>>

\* validateHistoryAttachment with allowPublished.
attachable(t) ==
    LET l == t.lineage IN
    /\ t.want # Nil => resolves(t.src) /\ bind[t.src] = t.want
    /\ \/ ~lin[l].made
       \/ /\ readable(l)
          /\ \/ records(l) = {}
             \/ head(records(l)) = t.record
             \/ /\ t.record.seq = head(records(l)).seq + 1
                /\ t.record.parent = head(records(l)).ev
                /\ t.op = "create" => head(records(l)).tomb

Attach ==
    /\ step = "attach"
    /\ IF attachable(txn) THEN step' = "mkdir" /\ UNCHANGED <<bind, lin>> ELSE Refuse
    /\ UNCHANGED <<doc, txn, job, preview, nextLin, nextEv, crashes>>

\* openLineage creates the directories.
MakeLineage ==
    /\ step = "mkdir"
    /\ lin' = [l \in Lineages |-> IF l \in {txn.lineage, txn.adoptIn}
                                  THEN [lin[l] EXCEPT !.made = TRUE] ELSE lin[l]]
    /\ step' = IF txn.adoption # Nil THEN "adoptSnap" ELSE "snap"
    /\ UNCHANGED <<doc, bind, txn, job, preview, nextLin, nextEv, crashes>>

\* The lineage a commit step writes in, and the record it writes.
here == IF step \in {"adoptSnap", "adoptRec"} THEN txn.adoptIn ELSE txn.lineage
event == IF step \in {"adoptSnap", "adoptRec"} THEN txn.adoption ELSE txn.record

bindingOf == IF step = "bind" THEN [name |-> txn.record.post, l |-> txn.lineage]
             ELSE [name |-> txn.adoption.post, l |-> txn.adoptIn]

\* The file a write step creates: its present content, its intended content, and
\* the storage with content v in its place.
Writing == {"adoptSnap", "snap", "adoptRec", "rec", "bind", "bindAdopted", "journal",
            "pinWrite", "pruneJournal"}

\* Only the write of a file can be interrupted.
ASSUME CutsAssumption == Cuts \subseteq Writing

present ==
    CASE step \in {"adoptSnap", "snap"}     -> lin[here].snap[event.ev]
      [] step \in {"adoptRec", "rec"}       -> lin[here].rec[event.ev]
      [] step \in {"bind", "bindAdopted"}   -> bind[bindingOf.name]
      [] step = "journal"                   -> lin[txn.lineage].journal
      [] step \in {"pinWrite", "pruneJournal"} -> Nil

intended ==
    CASE step \in {"adoptSnap", "snap"}     -> Whole
      [] step \in {"adoptRec", "rec"}       -> event
      [] step \in {"bind", "bindAdopted"}   -> bindingOf.l
      [] step = "journal"                   -> txn.prune
      [] step \in {"pinWrite", "pruneJournal"} -> job.pins

Put(v) ==
    CASE step \in {"adoptSnap", "snap"} ->
            lin' = [lin EXCEPT ![here].snap[event.ev] = v] /\ UNCHANGED bind
      [] step \in {"adoptRec", "rec"} ->
            lin' = [lin EXCEPT ![here].rec[event.ev] = v] /\ UNCHANGED bind
      [] step \in {"bind", "bindAdopted"} ->
            bind' = [bind EXCEPT ![bindingOf.name] = v] /\ UNCHANGED lin
      [] step = "journal" ->
            lin' = [lin EXCEPT ![txn.lineage].journal = v] /\ UNCHANGED bind
      [] step = "pinWrite" ->
            lin' = [lin EXCEPT ![job.l].next = v] /\ UNCHANGED bind
      [] step = "pruneJournal" ->
            lin' = [lin EXCEPT ![job.l].journal = v] /\ UNCHANGED bind

\* Where the commit goes on.
replacesBinding(r) == r.tomb \/ (r.source = Nil /\ r.pre # r.post)

afterWrite ==
    CASE step = "adoptSnap" -> "adoptRec"
      [] step = "adoptRec"  -> "snap"
      [] step = "snap"      -> "rec"
      [] step = "rec"       -> IF replacesBinding(txn.record) THEN "unbind" ELSE "bind"
      [] step = "bind"      -> IF txn.adoptIn \notin {Nil, txn.lineage} THEN "bindAdopted"
                             ELSE IF txn.prune # {} THEN "journal" ELSE "complete"
      [] step = "bindAdopted" -> IF txn.prune # {} THEN "journal" ELSE "complete"
      [] step = "journal"   -> "collect"
      [] step = "pinWrite"  -> "pinRename"
      [] step = "pruneJournal" -> "pruneCollect"

\* publishHistoryRecord, the name bindings and the journals: an absent file is
\* written and synchronized, an equal one is accepted, any other is refused.
WriteFile ==
    /\ step \in Writing
    /\ CASE present = Nil      -> Put(intended) /\ step' = afterWrite
         [] present = intended -> step' = afterWrite /\ UNCHANGED <<bind, lin>>
         [] OTHER              -> Refuse
    /\ UNCHANGED <<doc, txn, job, preview, nextLin, nextEv, crashes>>

\* The old name of a rename or deletion loses its binding.
Unbind ==
    /\ step = "unbind"
    /\ bind' = [bind EXCEPT ![txn.record.pre] = Nil]
    /\ step' = IF ~txn.record.tomb THEN "bind"
             ELSE IF txn.prune # {} THEN "journal" ELSE "complete"
    /\ UNCHANGED <<doc, lin, txn, job, preview, nextLin, nextEv, crashes>>

\* Mutant: the snapshot goes first.
collectedSnapshotFirst(l) ==
    LET left == {e \in lin[l].journal : lin[l].rec[e] # Nil \/ lin[l].snap[e] # Nil}
        e == Min(left)
    IN  IF left = {} THEN [lin EXCEPT ![l].journal = Nil]
        ELSE IF lin[l].snap[e] # Nil THEN [lin EXCEPT ![l].snap[e] = Nil]
        ELSE [lin EXCEPT ![l].rec[e] = Nil]

\* completePrune removes the journaled events one file at a time, each record
\* before its snapshot, and the journal last.  A Torn journal names nothing.
collected(l) ==
    LET left == {e \in lin[l].journal : lin[l].rec[e] # Nil \/ lin[l].snap[e] # Nil}
        e == Min(left)
    IN  IF left = {} THEN [lin EXCEPT ![l].journal = Nil]
        ELSE IF lin[l].rec[e] # Nil THEN [lin EXCEPT ![l].rec[e] = Nil]
        ELSE [lin EXCEPT ![l].snap[e] = Nil]

Collect ==
    /\ step = "collect"
    /\ lin' = collected(txn.lineage)
    /\ step' = IF lin'[txn.lineage].journal = Nil THEN "complete" ELSE "collect"
    /\ UNCHANGED <<doc, bind, txn, job, preview, nextLin, nextEv, crashes>>

\* The receipt is synchronized and the witness removed.
Complete ==
    /\ step = "complete"
    /\ txn' = Nil
    /\ step' = "idle"
    /\ UNCHANGED <<doc, bind, lin, job, preview, nextLin, nextEv, crashes>>

-----------------------------------------------------------------------------
(* Pins and explicit prune. *)

\* SetHistoryPin rewrites the whole pin set through pins.next.
SetHistoryPin(l, e, pin) ==
    /\ step = "idle"
    /\ readable(l)
    /\ lin[l].rec[e] # Nil
    /\ pin => Cardinality(lin[l].pins \cup {e}) <= MaxPins
    /\ job' = [kind |-> "pin", l |-> l,
               pins |-> IF pin THEN lin[l].pins \cup {e} ELSE lin[l].pins \ {e}]
    /\ step' = "pinWrite"
    /\ UNCHANGED <<doc, bind, lin, txn, preview, nextLin, nextEv, crashes>>

PinRename ==
    /\ step = "pinRename"
    /\ lin' = [lin EXCEPT ![job.l].pins = lin[job.l].next, ![job.l].next = Nil]
    /\ job' = Nil
    /\ step' = "idle"
    /\ UNCHANGED <<doc, bind, txn, preview, nextLin, nextEv, crashes>>

\* PreviewPrune is passive: it needs a readable lineage and takes no lock.
PreviewPrune(l, keep) ==
    /\ readable(l)
    /\ records(l) # {}
    /\ preview' = [l |-> l, keep |-> keep,
                   ids |-> pruneCandidates(records(l), lin[l].pins, keep)]
    /\ UNCHANGED <<doc, bind, lin, txn, job, step, nextLin, nextEv, crashes>>

\* Mutant: the digest of the preview is not compared with the present state.
previewHoldsAlways(v) == TRUE

\* The digest covers the lineage, the bound and the candidates.
previewHolds(v) ==
    /\ readable(v.l)
    /\ v.ids = pruneCandidates(records(v.l), lin[v.l].pins, v.keep)

\* Prune rechecks the exact preview under the lock before it journals.
Prune ==
    /\ step = "idle"
    /\ preview # Nil
    /\ previewHolds(preview)
    /\ job' = [kind |-> "prune", l |-> preview.l, pins |-> preview.ids]
    /\ preview' = Nil
    /\ step' = "pruneJournal"
    /\ UNCHANGED <<doc, bind, lin, txn, nextLin, nextEv, crashes>>

PruneCollect ==
    /\ step = "pruneCollect"
    /\ lin' = collected(job.l)
    /\ IF lin'[job.l].journal = Nil
       THEN step' = "idle" /\ job' = Nil
       ELSE UNCHANGED <<step, job>>
    /\ UNCHANGED <<doc, bind, txn, preview, nextLin, nextEv, crashes>>

-----------------------------------------------------------------------------
(* Death and recovery. *)

\* A kill between two steps, or in the middle of a file.
Crash ==
    /\ crashes < MaxCrashes
    /\ step \notin {"idle", "down"}
    /\ crashes' = crashes + 1
    /\ step' = "down"
    /\ job' = Nil
    /\ \/ UNCHANGED <<bind, lin>>
       \/ step \in Cuts /\ present = Nil /\ Put(Torn)
    /\ UNCHANGED <<doc, txn, preview, nextLin, nextEv>>

\* recover: a decided transaction is rolled forward, and only when there is none
\* does maintenance run.
Recover ==
    /\ step = "down"
    /\ step' = IF txn # Nil THEN "attach" ELSE "maintain"
    /\ UNCHANGED <<doc, bind, lin, txn, job, preview, nextLin, nextEv, crashes>>

\* Mutant: an interrupted pin change is left alone.
serviceableJournalOnly(l) == lin[l].made /\ lin[l].next = Nil
                             /\ lin[l].journal \notin {Nil, Torn}

\* historyRecoverMaintenance can work on the lineage: an unreadable pins.next or
\* journal makes it skip the rest.
serviceable(l) ==
    /\ lin[l].made
    /\ lin[l].next # Torn
    /\ lin[l].next # Nil \/ lin[l].journal \notin {Nil, Torn}

Maintain ==
    /\ step = "maintain"
    /\ IF \E l \in Lineages : serviceable(l)
       THEN /\ LET l == CHOOSE x \in Lineages : serviceable(x) IN
               lin' = IF lin[l].next # Nil
                      THEN [lin EXCEPT ![l].pins = lin[l].next, ![l].next = Nil]
                      ELSE collected(l)
            /\ UNCHANGED step
       ELSE step' = "idle" /\ UNCHANGED lin
    /\ UNCHANGED <<doc, bind, txn, job, preview, nextLin, nextEv, crashes>>

-----------------------------------------------------------------------------

\* A repository from before history: some Profiles, nothing recorded.
HistoryInit ==
    /\ doc \in [Names -> BOOLEAN]
    /\ bind = [n \in Names |-> Nil]
    /\ lin = [l \in Lineages |-> [made |-> FALSE,
                                  rec |-> [e \in Events |-> Nil],
                                  snap |-> [e \in Events |-> Nil],
                                  pins |-> {}, next |-> Nil, journal |-> Nil]]
    /\ txn = Nil /\ job = Nil /\ preview = Nil
    /\ step = "idle"
    /\ nextLin = 1 /\ nextEv = 1 /\ crashes = 0

\* The steps of the worker once an operation or a recovery has begun.
Step == \/ Attach \/ MakeLineage \/ WriteFile \/ Unbind \/ Collect \/ Complete
        \/ PinRename \/ PruneCollect \/ Maintain

HistoryNext ==
    \/ \E c \in Change : Mutate(c)
    \/ \E l \in Lineages, e \in Events, pin \in BOOLEAN : SetHistoryPin(l, e, pin)
    \/ \E l \in Lineages, keep \in Keeps : PreviewPrune(l, keep)
    \/ Prune
    \/ Step
    \/ Crash
    \/ Recover

HistorySpec == HistoryInit /\ [][HistoryNext]_historyVars

\* A recovery that was started goes on, and after a death somebody starts one.
FairHistorySpec == HistorySpec /\ WF_historyVars(Step) /\ WF_historyVars(Recover)

-----------------------------------------------------------------------------
(* Properties. *)

\* Every variable holds a value of its type.
HistoryTypeOK ==
    /\ doc \in [Names -> BOOLEAN]
    /\ bind \in [Names -> Lineages \cup {Nil, Torn}]
    /\ lin \in [Lineages -> Directory]
    /\ txn \in Transaction \cup {Nil}
    /\ job \in Job \cup {Nil}
    /\ preview \in Preview \cup {Nil}
    /\ step \in Labels
    /\ nextLin \in 1..(MaxLineages + 1) /\ nextEv \in 1..(MaxEvents + 1)
    /\ crashes \in 0..MaxCrashes

\* Between operations history describes the Profiles: a published name resolves
\* to a lineage whose head is its live event, or was never recorded; an absent
\* name has no binding, and so no two names share a lineage.  Otherwise the next
\* change of that Profile is refused.
HistoryMatchesProfiles ==
    step = "idle" => \A n \in Names : IF doc[n] THEN bind[n] = Nil \/ resolves(n)
                                      ELSE bind[n] = Nil

\* Every event a passive reader can list still has its snapshot, at every moment
\* of a publication, a prune or their recovery.
RecordsHaveSnapshots ==
    \A l \in Lineages : \A r \in records(l) : lin[l].snap[r.ev] = Whole

\* At rest history and Profiles describe each other, and at every moment of a
\* publication, a prune or their recovery a passive reader finds the snapshot of
\* every event it lists (publishHistoryRecord,
\* completePrune, readLineage).
HistoryConsistent == HistoryTypeOK /\ HistoryMatchesProfiles /\ RecordsHaveSnapshots

\* The event chain: the newest event of a lineage and its predecessor are never
\* collected, and the head names that predecessor as its parent.
PredecessorRetained ==
    \A l \in Lineages : records(l) # {} /\ head(records(l)).seq > 1 =>
        \E r \in records(l) : /\ r.seq = head(records(l)).seq - 1
                              /\ head(records(l)).parent = r.ev

\* Retention and maintenance never take back the head of a lineage.
headAdvances ==
    \A l \in Lineages : records(l) # {} =>
        records(l)' # {} /\ head(records(l))'.seq >= head(records(l)).seq

\* A pinned event stays as long as it is pinned, prune decisions made from an
\* older preview included.
pinsSurvive ==
    \A l \in Lineages : \A e \in lin[l].pins \cap lin'[l].pins :
        lin[l].rec[e] # Nil => lin'[l].rec[e] # Nil

\* No publication, prune or recovery takes away what history protects: neither
\* the head of a lineage nor an event that stays pinned (pruneCandidates,
\* Prune, commitBoundPrune, completePrune).
ProtectedEventsSurvive == [][headAdvances /\ pinsSurvive]_historyVars

\* A transaction leaves no more ordinary events than DefaultHistoryKeep, the
\* protected predecessor aside.
RetentionHolds ==
    step = "complete" =>
        LET l == txn.lineage
            recs == records(l) IN
        Cardinality({r \in recs : r.ev \notin lin[l].pins
                                  /\ r.seq # head(recs).seq - 1}) <= DefaultKeep

\* Retention removes what it must and no more: the limit is met when the
\* transaction completes, and the event chain keeps head and predecessor at
\* every step on the way there (pruneCandidates,
\* completePrune).
RetentionIsExact == RetentionHolds /\ PredecessorRetained

\* History is part of the decided transaction: whatever dies, recovery finishes
\* it before any later mutation.
DecidedHistoryCompletes == txn # Nil ~> txn = Nil

\* A death between the record of a decided transaction and the end of the
\* retention it decided: its journal, or one record too many, is in the lineage.
retentionLeft ==
    /\ txn # Nil /\ step \in {"down", "attach"}
    /\ lin[txn.lineage].journal # Nil \/ Cardinality(records(txn.lineage)) > MaxRetained

\* History is part of the decided transaction: recovery finishes it before any
\* later mutation, whatever dies, unless it died in the middle of its own
\* retention.
DecidedCompletes == txn # Nil ~> txn = Nil \/ retentionLeft

\* Interrupted pin and prune maintenance is completed by repository recovery,
\* with the same exception.
MaintenanceCompletes ==
    (\E l \in Lineages : lin[l].next # Nil \/ lin[l].journal # Nil)
        ~> (\A l \in Lineages : lin[l].next = Nil /\ lin[l].journal = Nil) \/ retentionLeft

\* Whatever died in a Profile change or in pin and prune maintenance, repeated
\* recovery finishes it (validateHistoryAttachment, readPruneJournal,
\* completePrune).
RecoveryCompletes == DecidedCompletes /\ MaintenanceCompletes

=============================================================================
