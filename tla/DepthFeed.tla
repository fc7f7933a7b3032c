------------------------------ MODULE DepthFeed -----------------------------
(***************************************************************************)
(* What the outside sees of the order books: the depth events process      *)
(* sends at the end of a batch, and the snapshots the API takes while      *)
(* process runs.                                                           *)
(*                                                                         *)
(* Two observers hold books of their own.  One has subscribed from the     *)
(* start and applies every event: mirror.  The other asks for a snapshot   *)
(* at any time, in the middle of a match too, and applies the events sent  *)
(* after its copy was made: view.  Both are clients; they follow the       *)
(* stream's convention that an event gives the new amount of each level    *)
(* it names, and 0 for a level that is gone.                               *)
(*                                                                         *)
(* Events are applied in the order they are made and none is lost: how     *)
(* they travel is not part of this module.                                 *)
(***************************************************************************)
EXTENDS Zex

CONSTANT NoView    \* no snapshot has been asked for

ASSUME NoViewIsNoMarket == NoView \notin Markets

VARIABLES
    mirror,        \* the subscriber's book of every market
    viewed,        \* the market of the snapshot
    view           \* the book of the client that began with it

clientVars == <<mirror, viewed, view>>
feedVars   == <<zexVars, clientVars>>

\* The book f after an event with the levels u.
Applied(f, u) ==
    LET amount(p) == IF p \in DOMAIN u THEN u[p] ELSE f[p]
    IN  [p \in {q \in DOMAIN f \cup DOMAIN u : amount(q) # 0} |-> amount(p)]

FeedInit ==
    /\ Init
    /\ mirror = [m \in Markets |-> [s \in Sides |-> <<>>]]
    /\ viewed = NoView
    /\ view = [s \in Sides |-> <<>>]

-----------------------------------------------------------------------------
\* One event for every modified pair, in one step: nothing runs between them.
Publish ==
    /\ EndBatch
    /\ mirror' = [m \in Markets |->
                     IF m \in modified
                       THEN [s \in Sides |-> Applied(mirror[m][s], updates[m][s])]
                       ELSE mirror[m]]
    /\ view' = IF viewed \in modified
                 THEN [s \in Sides |-> Applied(view[s], updates[viewed][s])]
                 ELSE view
    /\ UNCHANGED viewed

Work ==
    /\ ProcessTransaction \/ Match \/ AbortBatch
    /\ UNCHANGED clientVars

Copy__LevelsPending(m) == updates[m]

\* Both sides of the book, copied under order_book_lock.
Copy(m) == book[m]

\* get_order_book, in a thread of the API: it takes the lock between two
\* changes of the book.  A pair without a market has an empty book.
GetOrderBook(m) ==
    /\ viewed = NoView
    /\ viewed' = m
    /\ view' = Copy(m)
    /\ UNCHANGED <<zexVars, mirror>>

FeedNext ==
    \/ Publish
    \/ Work
    \/ \E m \in Markets : GetOrderBook(m)

FeedSpec == FeedInit /\ [][FeedNext]_feedVars

-----------------------------------------------------------------------------
AmountAt(f, p) == IF p \in DOMAIN f THEN f[p] ELSE 0

\* A client's book f and the levels still to be sent, u, give the book b.
InStep(f, u, b) ==
    \A p \in DOMAIN f \cup DOMAIN u \cup DOMAIN b :
        AmountAt(b, p) = IF p \in DOMAIN u THEN u[p] ELSE AmountAt(f, p)

\* A subscriber who applies every event has every level right but for those
\* that wait to be sent: whoever changes a level, in a trade, a placement, the
\* remainder of a match, a cancel or a transaction that dies of a KeyError, makes
\* it part of the next event, and a batch that is aborted loses nothing.
FeedComplete ==
    \A m \in Markets, s \in Sides :
        InStep(mirror[m][s], updates[m][s], book[m][s])

\* So has a client that begins with a snapshot, taken at any time, and applies
\* every event sent after the copy was made.
SnapshotCatchesUp ==
    viewed # NoView =>
        \A s \in Sides : InStep(view[s], updates[viewed][s], book[viewed][s])
=============================================================================
