--------------------------- MODULE ZexRefinement ----------------------------
(***************************************************************************)
(* Zex.tla implements Exchange.tla.  The engine debits a matching order    *)
(* trade by trade and its remainder at the end; the promise debits it at   *)
(* once.  So the free balance is the balance less what the matching order  *)
(* may still cost, and the matching order is open with what remains of it. *)
(***************************************************************************)
EXTENDS ZexProperties

Reserved(t, u) ==
    IF taker # NoTaker /\ t = PayToken(taker) /\ u = taker.user
      THEN Cost(taker, remaining) ELSE 0

FreeNow == [t \in Tokens |-> [u \in Users |-> assets[t][u] - Reserved(t, u)]]

OpenNow == IF remaining = 0 THEN amounts ELSE Put(amounts, taker, remaining)

Moved == {d.amount : d \in Deposits} \cup WithdrawAmounts

Promise == INSTANCE Exchange WITH
    Amounts <- Moved, free <- FreeNow, open <- OpenNow, nextNonce <- nonces

\* Every behaviour of process, whatever the transactions and wherever a fault
\* ends it, moves funds only as the exchange promises.
KeepsPromise == Promise!Spec
=============================================================================
