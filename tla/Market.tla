------------------------------- MODULE Market -------------------------------
(***************************************************************************)
(* The matching engine: class Market of app/zex.py together with the       *)
(* dictionaries of class Zex it writes (assets, amounts, orders).          *)
(*                                                                         *)
(* Every market of the exchange is here at once, indexed by its pair, for  *)
(* they share the balances.  Each operator that primes variables is one    *)
(* method of the source, or one iteration of its while loop: readers in    *)
(* the API threads can look at the dictionaries between two iterations.    *)
(* The module has no Next of its own; Zex.tla drives it.                   *)
(*                                                                         *)
(* A definition whose name ends in __<Defect> is the one that follows it   *)
(* with a plausible defect.  Nothing uses it: it is put in the place of    *)
(* the right one to see a property fail.                                   *)
(*                                                                         *)
(* Decimal amounts and prices are integers, in units of the last decimal   *)
(* place in use.  What is added to a price level or taken from it is       *)
(* rounded as the code's decimal context does, since the comparison of a   *)
(* level with an order decides whether the level is deleted; balances and  *)
(* what is left of an order are kept exactly.  The trade deques and the    *)
(* candles, which the engine writes and never reads, are left out.         *)
(***************************************************************************)
EXTENDS Orders

CONSTANTS
    NoTaker,       \* no order is being matched
    TxBytes(_),    \* the number an order's transaction is, read as bytes
    Exact,         \* a decimal result is exact up to this number of units
    Coarse         \* the units in the last digit of a larger one

ASSUME NoTakerIsNoOrder == NoTaker \notin Order

\* Exact is a number that the digits can write.
ASSUME RoundingAssumption ==
    Exact \in Nat /\ Coarse \in Nat \ {0} /\ Exact % Coarse = 0

VARIABLES
    assets,        \* balance of every user in every token (absent = 0)
    amounts,       \* amount left of every resting order
    orders,        \* the resting orders of every user
    heap,          \* buy_orders and sell_orders of every market
    book,          \* bids_order_book and asks_order_book: price -> amount
    updates,       \* _order_book_updates: levels changed since the last event
    firstId, finalId, lastUpdateId,   \* numbering of the depth events
    taker,         \* the order inside _execute_instant_buy or _sell
    remaining,     \* its local variable amount
    fault          \* "none", or the KeyError that ended the process thread

bookVars   == <<heap, book, updates>>
idVars     == <<firstId, lastUpdateId>>
engineVars == <<assets, amounts, orders, heap, book, updates, firstId,
                finalId, lastUpdateId, taker, remaining, fault>>

-----------------------------------------------------------------------------
(* The heaps *)

Crosses__Strictly(o, h) == IF o.side = "buy" THEN h.price < o.price
                                             ELSE h.price > o.price

\* An order o may trade with a resting order h of the other side.
Crosses(o, h) == IF o.side = "buy" THEN h.price <= o.price
                                   ELSE h.price >= o.price

\* The heaps hold (-price, index, tx) and (price, index, tx).  Where TxBytes gives
\* two orders one number, either may be first.
Ahead(x, y) ==
    \/ IF x.side = "buy" THEN x.price > y.price ELSE x.price < y.price
    \/ x.price = y.price /\ x.index < y.index
    \/ x.price = y.price /\ x.index = y.index /\ TxBytes(x) <= TxBytes(y)

Heads(m, s) == {h \in heap[m][s] : \A x \in heap[m][s] : Ahead(h, x)}

WillCross(o) ==
    /\ o.price > 0
    /\ o.amount > 0
    /\ \E h \in heap[o.market][Other(o.side)] : Crosses(o, h)

CanPay__ByQuantity(o) == assets[PayToken(o)][o.user] >= o.amount

CanPay(o) == assets[PayToken(o)][o.user] >= Cost(o, o.amount)

-----------------------------------------------------------------------------
(* Price levels *)

HasLevel(m, s, p) == p \in DOMAIN book[m][s]

\* The decimal context keeps the first 28 digits of a result, and of two numbers
\* as near as each other takes the even one.
Rounded(x) ==
    LET below == x \div Coarse
        more  == 2 * (x % Coarse)
    IN  IF x <= Exact THEN x
        ELSE IF more > Coarse \/ (more = Coarse /\ below % 2 = 1)
        THEN Coarse * (below + 1)
        ELSE Coarse * below

SetLevel(m, s, p, a) ==
    /\ book'    = [book EXCEPT ![m][s] = Put(@, p, a)]
    /\ updates' = [updates EXCEPT ![m][s] = Put(@, p, a)]

DeleteLevel__Unsent(m, s, p) ==
    /\ book' = [book EXCEPT ![m][s] = Drop(@, p)]
    /\ UNCHANGED updates

DeleteLevel(m, s, p) ==
    /\ book'    = [book EXCEPT ![m][s] = Drop(@, p)]
    /\ updates' = [updates EXCEPT ![m][s] = Put(@, p, 0)]

AddToBook__Overwrites(m, s, p, a) == SetLevel(m, s, p, a)

AddToBook(m, s, p, a) ==
    SetLevel(m, s, p, IF HasLevel(m, s, p) THEN Rounded(book[m][s][p] + a)
                                           ELSE a)

\* A level as large as the amount that leaves it is deleted.
RemoveFromBook(m, s, p, a) ==
    IF book[m][s][p] <= a THEN DeleteLevel(m, s, p)
                          ELSE SetLevel(m, s, p, Rounded(book[m][s][p] - a))

Debit__Forgotten(o, a) == UNCHANGED assets

Debit(o, a) ==
    assets' = [assets EXCEPT ![PayToken(o)][o.user] = @ - Cost(o, a)]

\* An order comes to rest with the amount a.
Rest(o, a) ==
    /\ heap'    = [heap EXCEPT ![o.market][o.side] = @ \cup {o}]
    /\ amounts' = Put(amounts, o, a)
    /\ orders'  = [orders EXCEPT ![o.user] = @ \cup {o}]
    /\ AddToBook(o.market, o.side, o.price, a)
    /\ Debit(o, a)

Forget__KeepsUserOrder(o) == amounts' = Drop(amounts, o) /\ UNCHANGED orders

Forget(o) ==
    /\ amounts' = Drop(amounts, o)
    /\ orders'  = [orders EXCEPT ![o.user] = @ \ {o}]

UseIds__None(m, n) == UNCHANGED finalId

\* final_id += 1, n times.
UseIds(m, n) == finalId' = [finalId EXCEPT ![m] = @ + n]

-----------------------------------------------------------------------------
(* The methods of Market *)

\* match_instantly finds the book crossed and the balance sufficient: the
\* order enters the loop of _execute_instant_buy or _execute_instant_sell.
MatchInstantly(o) ==
    /\ WillCross(o) /\ CanPay(o)
    /\ taker' = o
    /\ remaining' = o.amount
    /\ UNCHANGED <<assets, amounts, orders, bookVars, finalId, idVars, fault>>

\* match_instantly returned False and place accepts the order.  The two refuse
\* an order its owner cannot pay for by the same comparison.
Place(o) ==
    /\ ~ WillCross(o) /\ CanPay(o)
    /\ o.price >= 0 /\ o.amount >= 0
    /\ Rest(o, o.amount)
    /\ UseIds(o.market, 1)
    /\ UNCHANGED <<idVars, taker, remaining, fault>>

Refused(o) == ~ CanPay(o) \/ o.price < 0 \/ o.amount < 0

Paid__AtLimit(o, q, p) == Cost(o, q)

Paid(o, q, p) == IF o.side = "buy" THEN q * p ELSE q

\* Who gets what in a trade of q at the price p of the resting order h.
Settle(o, h, q, p) ==
    LET m      == o.market
        buyer  == IF o.side = "buy" THEN o.user ELSE h.user
        seller == IF o.side = "buy" THEN h.user ELSE o.user
        base   == [assets EXCEPT ![Base(m)][buyer] = @ + q]
        quote  == [base EXCEPT ![Quote(m)][seller] = @ + p * q]
    IN  assets' = [quote EXCEPT ![PayToken(o)][o.user] =
                                    @ - Paid(o, q, p)]

TradeAmount__WholeHead(h) == amounts[h]

TradeAmount(h) == IF remaining < amounts[h] THEN remaining ELSE amounts[h]

\* One iteration of the loop, against a head of the opposite heap.
ExecuteTrade(h) ==
    LET m == taker.market
        q == TradeAmount(h)
    IN  /\ remaining > 0
        /\ h \in Heads(m, Other(taker.side))
        /\ Crosses(taker, h)
        /\ HasLevel(m, h.side, h.price)
        /\ IF amounts[h] > q
             THEN /\ SetLevel(m, h.side, h.price,
                              Rounded(book[m][h.side][h.price] - q))
                  /\ amounts' = [amounts EXCEPT ![h] = @ - q]
                  /\ UNCHANGED <<heap, orders>>
             ELSE /\ heap' = [heap EXCEPT ![m][h.side] = @ \ {h}]
                  /\ RemoveFromBook(m, h.side, h.price, q)
                  /\ Forget(h)
        /\ Settle(taker, h, q, h.price)
        /\ remaining' = remaining - q
        /\ UseIds(m, 2)
        /\ UNCHANGED <<idVars, taker, fault>>

\* The same iteration when the level of the head is not in the book: the
\* KeyError leaves the trade counted and, if it was the head's last, the heap
\* popped.
ExecuteTradeFault(h) ==
    LET m == taker.market
    IN  /\ remaining > 0
        /\ h \in Heads(m, Other(taker.side))
        /\ Crosses(taker, h)
        /\ ~ HasLevel(m, h.side, h.price)
        /\ heap' = IF amounts[h] > remaining THEN heap
                   ELSE [heap EXCEPT ![m][h.side] = @ \ {h}]
        /\ UseIds(m, 1)
        /\ fault' = "level"
        /\ UNCHANGED <<assets, amounts, orders, book, updates, idVars, taker,
                       remaining>>

MatchOver__WhenUncrossed ==
    \A h \in heap[taker.market][Other(taker.side)] : ~ Crosses(taker, h)

\* The condition of the while loop fails.
MatchOver ==
    \/ remaining = 0
    \/ \A h \in heap[taker.market][Other(taker.side)] : ~ Crosses(taker, h)

\* The loop is over; what is left of the order rests.  No event id is used.
FinishMatch ==
    /\ MatchOver
    /\ IF remaining > 0
         THEN Rest(taker, remaining)
         ELSE UNCHANGED <<assets, amounts, orders, bookVars>>
    /\ taker' = NoTaker
    /\ remaining' = 0
    /\ UNCHANGED <<finalId, idVars, fault>>

\* cancel: the order is forgotten and refunded before its level is looked up.
Cancel(o) ==
    LET m == o.market
    IN  /\ o \in orders[o.user]
        /\ Forget(o)
        /\ assets' = [assets EXCEPT ![PayToken(o)][o.user] =
                          @ + Cost(o, amounts[o])]
        /\ heap' = [heap EXCEPT ![m][o.side] = @ \ {o}]
        /\ IF HasLevel(m, o.side, o.price)
             THEN /\ RemoveFromBook(m, o.side, o.price, amounts[o])
                  /\ UseIds(m, 1)
                  /\ fault' = fault
             ELSE /\ fault' = "level"
                  /\ UNCHANGED <<book, updates, finalId>>
        /\ UNCHANGED <<idVars, taker, remaining>>

\* get_order_book_update of every market in ms: the pending levels are handed
\* out and the numbering moves on.
GetOrderBookUpdate(ms) ==
    /\ updates' = [m \in Markets |-> IF m \in ms THEN [s \in Sides |-> <<>>]
                                     ELSE updates[m]]
    /\ firstId' = [m \in Markets |-> IF m \in ms THEN finalId[m] + 1
                                     ELSE firstId[m]]
    /\ lastUpdateId' = [m \in Markets |-> IF m \in ms THEN finalId[m]
                                          ELSE lastUpdateId[m]]
    /\ UNCHANGED <<assets, amounts, orders, heap, book, finalId, taker,
                   remaining, fault>>
=============================================================================
