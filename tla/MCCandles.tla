----------------------------- MODULE MCCandles ------------------------------
(* A day of two minutes.  The first two trades are of one order of a; in the *)
(* fourth he trades with himself, at price 0 and with an earlier time; the    *)
(* third is by a taker whose clock is ahead.                                  *)
EXTENDS Candles

Trade(b, bn, s, sn, a, p, t) ==
    [user   |-> [x \in Sides |-> IF x = "buy" THEN b ELSE s],
     nonce  |-> [x \in Sides |-> IF x = "buy" THEN bn ELSE sn],
     amount |-> a, price |-> p, t |-> t]

MCTrades == {Trade("a", 1, "b", 1, 1, 1, 1), Trade("a", 1, "b", 2, 2, 2, 1),
             Trade("b", 3, "a", 2, 1, 3, 3), Trade("a", 3, "a", 4, 1, 0, 0)}
=============================================================================
