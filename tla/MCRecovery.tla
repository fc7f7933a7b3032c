----------------------------- MODULE MCRecovery -----------------------------
(* A small instance of Recovery.tla: batches about one pair, some of which
   only make sense after others. *)
EXTENDS Recovery, MCZex

RecMarkets == {BTCUSDT, <<MCUSDT, MCUSDT>>}

OrderBy(side, amount, user, nonce, index) ==
    [side |-> side, market |-> BTCUSDT, amount |-> amount, price |-> 1,
     index |-> index, user |-> user, nonce |-> nonce]

SellNothing == OrderBy("sell", 0, u1, 0, 2)
SellTwo     == OrderBy("sell", 2, u1, 0, 1)
SellOne     == OrderBy("sell", 1, u2, 0, 1)
BuyOne      == OrderBy("buy", 1, u1, 1, 3)

\* The amount comes first in the bytes, then the nonce and the user.
RecBytes(o) == 100 * o.amount + 10 * o.nonce + IF o.user = u1 THEN 0 ELSE 1

New(o)        == [kind |-> "order", order |-> o]
CancelTx(o)   == [kind |-> "cancel", order |-> o]
Batch(txs)    == [txs |-> txs, bad |-> FALSE]
BadBatch(txs) == [txs |-> txs, bad |-> TRUE]

RecDeposit == [chain |-> "POL", contract |-> "usdt", key |-> "k1",
               amount |-> 2, decimal |-> 6, user |-> 1]
RecWithdraw == [token |-> MCUSDT, amount |-> 1, nonce |-> 0, user |-> u1]

RecDeposits == {RecDeposit}

RecOffers == {OfferOf(o) : o \in {SellNothing, SellTwo, SellOne, BuyOne}}

\* Orders that rest, the trade that takes the later of them first, the cancel
\* that dies where an order for nothing has lost its level, a batch that fails
\* half way, and the transactions of accounts.
RecBatches ==
    {Batch(<<New(SellNothing), New(SellOne)>>),
     Batch(<<New(SellTwo)>>),
     Batch(<<New(BuyOne)>>),
     Batch(<<CancelTx(SellNothing)>>),
     BadBatch(<<New(SellOne), CancelTx(SellTwo)>>),
     Batch(<<[kind |-> "deposit", deposit |-> RecDeposit],
             [kind |-> "withdraw", withdraw |-> RecWithdraw]>>),
     Batch(<<[kind |-> "register", user |-> u2]>>)}
=============================================================================
