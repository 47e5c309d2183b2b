------------------------- MODULE ProfileRefinement --------------------------
(***************************************************************************)
(* The transaction engine implements the promise of ProfileStore.          *)
(***************************************************************************)
EXTENDS ProfileTxn

\* The documents passive readers see.
docsNow == [n \in Names |-> IF dir[n] = Nil THEN Nil ELSE dir[n].body]

\* A decided transaction is owed until its receipt survives a power loss.
owedNow ==
    IF dir["decision"] = Nil \/ \A d \in disk : d["complete"] # Nil
    THEN Nil
    ELSE LET p == dir["decision"] IN
         [id |-> p.id, op |-> p.op, src |-> p.src, dst |-> p.dst,
          expect |-> IF p.before = Nil THEN Nil ELSE p.before.body,
          data   |-> IF p.stage = Nil THEN Nil ELSE p.stage.body]

doneNow == IF owedNow = Nil THEN hist.events ELSE hist.events \ {owedNow.id}

Store == INSTANCE ProfileStore
            WITH docs <- docsNow, owed <- owedNow, done <- doneNow

\* Absence is no transaction.
ASSUME TransactionAssumption == Nil \notin Store!Transaction

\* Every step of the engine, failing and dying included, is a step of the
\* promise: documents change only on behalf of one decided transaction whose
\* conditions held, through the views of its operation, and a transaction is
\* done only with its whole effect in place.
ImplementsStore == Store!StoreSpec

=============================================================================
