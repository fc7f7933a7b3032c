------------------------------ MODULE Exchange ------------------------------
(***************************************************************************)
(* What the exchange promises its users, without books, heaps, batches or  *)
(* a matching loop.  An order takes what it may cost out of its owner's    *)
(* free balance when it is accepted, once per nonce.  From then on it can  *)
(* only trade, in steps that move each side's funds to the other at a      *)
(* price within both limits and give the buyer back what the price saved,  *)
(* or be cancelled for exactly what it still holds.                        *)
(***************************************************************************)
EXTENDS Orders

CONSTANTS
    Offers,     \* order payloads: everything but the user and nonce
    Amounts     \* amounts a deposit or a withdrawal may have

VARIABLES
    free,       \* what every user can spend, in every token
    open,       \* what is left of every accepted order
    nextNonce   \* of every user

exchangeVars == <<free, open, nextNonce>>

Init ==
    /\ free \in [Tokens -> [Users -> Nat]]
    /\ open = <<>>
    /\ nextNonce = [u \in Users |-> 0]

Deposit(t, u, a) ==
    /\ a >= 0
    /\ free' = [free EXCEPT ![t][u] = @ + a]
    /\ UNCHANGED <<open, nextNonce>>

Withdraw(t, u, a) ==
    /\ 0 < a /\ a <= free[t][u]
    /\ free' = [free EXCEPT ![t][u] = @ - a]
    /\ UNCHANGED <<open, nextNonce>>

UseNonce(u) == nextNonce' = [nextNonce EXCEPT ![u] = @ + 1]

OrderOf(f, u) == [side |-> f.side, market |-> f.market, amount |-> f.amount,
                  price |-> f.price, index |-> f.index,
                  user |-> u, nonce |-> nextNonce[u]]

Accept(o) ==
    /\ o.price >= 0 /\ o.amount >= 0
    /\ free[PayToken(o)][o.user] >= Cost(o, o.amount)
    /\ free' = [free EXCEPT ![PayToken(o)][o.user] = @ - Cost(o, o.amount)]
    /\ open' = Put(open, o, o.amount)
    /\ UseNonce(o.user)

Refuse(u) == UseNonce(u) /\ UNCHANGED <<free, open>>

\* An order leaves when nothing of it is left.
Fill(b, s, q) ==
    open' = [o \in {x \in DOMAIN open : x \notin {b, s} \/ open[x] # q} |->
                 IF o \in {b, s} THEN open[o] - q ELSE open[o]]

\* Orders b and s exchange q at the price p.
Trade(b, s, q, p) ==
    LET m      == b.market
        saved  == [free EXCEPT ![Quote(m)][b.user] = @ + q * (b.price - p)]
        bought == [saved EXCEPT ![Base(m)][b.user] = @ + q]
    IN  /\ b.side = "buy" /\ s.side = "sell" /\ s.market = m
        /\ s.price <= p /\ p <= b.price
        /\ q <= open[b] /\ q <= open[s]
        /\ free' = [bought EXCEPT ![Quote(m)][s.user] = @ + q * p]
        /\ Fill(b, s, q)
        /\ UNCHANGED nextNonce

Cancel(o) ==
    /\ free' = [free EXCEPT ![PayToken(o)][o.user] = @ + Cost(o, open[o])]
    /\ open' = Drop(open, o)
    /\ UNCHANGED nextNonce

Next ==
    \/ \E t \in Tokens, u \in Users, a \in Amounts :
           Deposit(t, u, a) \/ Withdraw(t, u, a)
    \/ \E u \in Users : Refuse(u)
    \/ \E u \in Users, f \in Offers : Accept(OrderOf(f, u))
    \/ \E b, s \in DOMAIN open :
           \E q \in 0 .. open[s], p \in s.price .. b.price : Trade(b, s, q, p)
    \/ \E o \in DOMAIN open : Cancel(o)

Spec == Init /\ [][Next]_exchangeVars
=============================================================================
