------------------------------- MODULE Orders -------------------------------
(***************************************************************************)
(* What an order is, shared by the exchange's promise (Exchange.tla) and   *)
(* its implementation (Market.tla).                                        *)
(***************************************************************************)
EXTENDS Integers

CONSTANTS
    Users,      \* public keys that ever appear in a transaction
    Tokens,     \* tokens of all chains
    Markets     \* pairs <<base token, quote token>>

ASSUME MarketsAreTokenPairs == Markets \subseteq Tokens \X Tokens

Sides == {"buy", "sell"}

\* The parsed bytes of a BUY or SELL transaction, which is also its identity.
Order == [side : Sides, market : Markets, amount : Int, price : Int,
          index : Nat, user : Users, nonce : Nat]

Base(m)  == m[1]
Quote(m) == m[2]

Other(s) == IF s = "buy" THEN "sell" ELSE "buy"

\* What an order pays with, and how much of it for a quantity q.
PayToken(o) == IF o.side = "buy" THEN Quote(o.market) ELSE Base(o.market)
Cost(o, q)  == IF o.side = "buy" THEN q * o.price ELSE q

-----------------------------------------------------------------------------
(* Dictionaries: functions whose domain is the set of keys *)

Put(f, k, v) == [x \in DOMAIN f \cup {k} |-> IF x = k THEN v ELSE f[x]]
Drop(f, k)   == [x \in DOMAIN f \ {k} |-> f[x]]
=============================================================================
