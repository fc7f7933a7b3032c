------------------------------- MODULE MCZex --------------------------------
(* Small instances of Zex.tla: one chain with USDT and one other token. *)
EXTENDS ZexRefinement

CONSTANTS u1, u2

\* Which of two orders with one price and index is first is left open.
AnyBytes(o) == 0

MCTokens  == {"POL"} \X (1 .. 2)
MCUSDT    == <<"POL", 1>>
MCMarkets == MCTokens \X MCTokens
BTCUSDT   == <<<<"POL", 2>>, MCUSDT>>
BothUsers == <<u1, u2>>
OneUser   == <<u1>>
NoUsers   == <<>>

BothVerified == [c \in {"POL"} |-> [x \in {"usdt", "btc"} |->
                                       IF x = "usdt" THEN 1 ELSE 2]]

Payload(m, a, p) == [side : Sides, market : m, amount : a, price : p,
                     index : {0}]

TradeOffers == Payload({BTCUSDT}, {1, 2}, {1, 2})

\* Orders for nothing and orders at no price, which place accepts, and a large
\* order beside which the decimal context drops a small one.
EdgeOffers == Payload({BTCUSDT}, {0, 1}, {1}) \cup Payload({BTCUSDT}, {1, 3}, {0})

\* A buyer's order that takes several trades at prices better than its own,
\* and one at a negative price, which is refused.
PromiseOffers ==
    {[f EXCEPT !.side = "sell"] : f \in Payload({BTCUSDT}, {1}, {1, 2})}
        \cup {[f EXCEPT !.side = "buy"] : f \in Payload({BTCUSDT}, {2}, {-1, 2})}
(* A node that starts empty, with one verified token and two more to come. *)

AccTokens  == {"POL"} \X (1 .. 3)
AccMarkets == AccTokens \X AccTokens

UsdtVerified == [c \in {"POL"} |-> [x \in {"usdt"} |-> 1]]

Report(contract, key, amount, user) ==
    [chain |-> "POL", contract |-> contract, key |-> key, amount |-> amount,
     decimal |-> 6, user |-> user]

\* Two reports of one key, a report for user 0 and for a user not there yet.
AccDeposits == {Report("usdt", "k1", 2, 1), Report("usdt", "k1", 2, 2),
                Report("btc", "k2", 1, 2), Report("eth", "k3", 1, 1),
                Report("usdt", "k4", 1, 0)}

\* A trade of the token that gets id 2, and an order of USDT against itself.
AccOffers == Payload({BTCUSDT}, {1}, {1})
                 \cup {[f EXCEPT !.side = "buy"] : f \in
                          Payload({<<MCUSDT, MCUSDT>>}, {1}, {2})}
=============================================================================
