---------------------------- MODULE ProfileStore ----------------------------
(***************************************************************************)
(* What the Profile repository promises its callers: named documents that  *)
(* change by one decided transaction at a time.  A decided transaction owes *)
(* its effect: until it is committed the documents show one of the views   *)
(* its operation allows, and it can be given up only while they still show *)
(* the first one.  A rename may show both names and never shows neither.   *)
(* A power loss may return to an earlier view of the same transaction.     *)
(***************************************************************************)
CONSTANTS Names, Docs, Nil, Ids

VARIABLES
    docs,   \* name -> document or Nil, as passive readers see it
    owed,   \* the decided transaction that is not yet committed, or Nil
    done    \* the committed transactions

svars == <<docs, owed, done>>

Transaction ==
    [id : Ids, op : {"create", "replace", "delete", "clone", "rename"},
     src : Names \cup {Nil}, dst : Names \cup {Nil},
     expect : Docs \cup {Nil}, data : Docs \cup {Nil}]

\* docs with the transaction's source and destination showing s and d.
Show(t, s, d) ==
    [n \in Names |-> IF n = t.src THEN s ELSE IF n = t.dst THEN d ELSE docs[n]]

Initial(t) == Show(t, t.expect, Nil)

Final(t) ==
    CASE t.op \in {"create", "clone"} -> Show(t, t.expect, t.data)
      [] t.op = "replace"             -> Show(t, t.data, Nil)
      [] t.op = "delete"              -> Show(t, Nil, Nil)
      [] t.op = "rename"              -> Show(t, Nil, t.data)

Views(t) ==
    {Initial(t), Final(t)}
    \cup (IF t.op = "rename" THEN {Show(t, t.expect, t.data)} ELSE {})

StoreInit == docs \in [Names -> Docs \cup {Nil}] /\ owed = Nil /\ done = {}

\* A transaction whose conditions hold is decided; nothing is visible yet.
Decide ==
    /\ owed = Nil
    /\ owed' \in Transaction
    /\ owed'.id \notin done
    /\ docs = Initial(owed')
    /\ UNCHANGED <<docs, done>>

\* The documents move to another view of the decided transaction.
Roll ==
    /\ owed # Nil
    /\ docs' \in Views(owed)
    /\ UNCHANGED <<owed, done>>

\* A decision that was not durable is lost before any effect.
Forget ==
    /\ owed # Nil
    /\ docs = Initial(owed)
    /\ owed' = Nil
    /\ UNCHANGED <<docs, done>>

\* The transaction has its full effect and is over.
Commit ==
    /\ owed # Nil
    /\ docs = Final(owed)
    /\ done' = done \cup {owed.id}
    /\ owed' = Nil
    /\ UNCHANGED docs

StoreNext == Decide \/ Roll \/ Forget \/ Commit

StoreSpec == StoreInit /\ [][StoreNext]_svars

=============================================================================
