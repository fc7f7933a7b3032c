# TLA+ models and proofs of zex-core

zex-core is a node of an order-book exchange. Users sign transactions and send
them over HTTP; a sequencer puts them into batches in one order for every node;
every node verifies the signatures of a batch and applies it to one in-memory
state: users, balances, resting orders, price levels, deposits and withdrawals.
Clients read that state through an HTTP API and follow it over websockets.

This directory holds TLA+ modules of what happens between a POST or a Bitcoin block
and what a client sees: the sequencing, the engine and the accounts, the state
file, the events and the statistics. TLC instances check them, and TLAPS proofs
hold for every number of users, tokens, markets, prices, amounts and batches.

    cd tla
    tlc -workers 2 -config MCZex_trade.cfg MCZex       # and the other .cfg files
    tlc -workers 2 -config MCDepthFeed.cfg MCDepthFeed
    tlc -workers 2 -config MCRecovery.cfg MCRecovery
    tlc -workers 2 -config MCTransmit.cfg MCTransmit
    tlc -workers 2 -config MCBtcMonitor.cfg MCBtcMonitor
    tlc -workers 2 -config MCDelivery.cfg MCDelivery
    tlc -workers 2 -config MCCandles.cfg MCCandles
    tlapm ZexProofs.tla           # and every other module named ...Proofs

## The system

| component | source | state | operations |
|---|---|---|---|
| matching engine | `app/zex.py` `Market` | two heaps, two books, pending levels, event numbers; `amounts`, `orders`, `assets` of `Zex` | `match_instantly`, `_execute_instant_buy/sell`, `place`, `cancel`, `get_order_book_update` |
| accounts | `app/zex.py` `Zex` | the lookups of users, nonces, deposits, token ids, withdrawal logs and counters | `register_pub`, `validate_nonce`, `deposit`, `withdraw` |
| transaction processing | `Zex.process`, `process_loop` | `modified_pairs` | dispatch of a batch, events at its end |
| depth events and snapshots | `get_order_book`, `callbacks.py`, `connection_manager.py`, `main.py` | subscriptions, running send tasks | send, subscribe, snapshot |
| sequencer and process loop | `api/routes/system.py` | `zseq_deque`, a redis list, its offset | queue, `transmit_tx`, `MockZellular.batches` |
| transaction verifier | `verify.py` | a pool of processes | `verify` |
| state persistence | `zex.py` `to_protobuf`, `from_protobuf`, `save_state`, `load_state` | a file | save, load at start |
| candles, statistics | `zex.py` `_update_kline`, `get_price_change_24h`, ... | a frame of one-minute candles | update per trade, read |
| trade history | `zex.py` `_execute_trade` | a deque per user | append, prune |
| read API | `api/routes/users.py`, `orders.py`, `markets.py` | none | format |
| bitcoin monitor | `wallet/deposit.py` | last processed block, addresses | poll, post deposits |
| drawings, templates, tables | `api/routes/charts.py`, ... | a database | CRUD |
| bot, benchmarks, vendored code | `bot/`, `app/benchmarks/`, `app/monero/` | - | - |

How they meet. HTTP handlers only append to `zseq_deque`. `transmit_tx` (a thread
with an event loop) verifies what is waiting and sends it to the sequencer.
`process_loop` (another) takes batches from the sequencer, verifies them again
and calls `process`, the only writer of the exchange's state. `process` handles
one transaction after another and then makes a depth event for every pair it
modified and a task that sends it. The API reads the same dictionaries from a
third thread; only the books are guarded by a lock.

What is hard:

- one order may trade many times at prices that are not its own, with its balance
  compared once, before the first trade;
- a resting order is kept in three places (`amounts`, `orders`, a heap) and its
  quantity in a fourth (its price level), all updated by hand in five paths;
- a price level may be gone while an order rests there: because the order's amount
  is 0, which `place` accepts, or because the level is a sum in a decimal context of
  28 digits and the order was absorbed by a much larger one (1e20 and 1e-10 at one
  price). The next trade or cancel there is a `KeyError`, which ends the processing
  thread, in a trade with half of it done;
- a `ValueError` in a batch leaves its first half applied and its events unsent;
- deposits are reported repeatedly and early, and tokens are numbered as they come;
- snapshots are taken while a match is running;
- a crash at any moment, with a state file that is old, empty or cut short, and a
  restart that replays the batches since;
- a transaction goes from a request to a deque, to worker processes, to a list in
  redis that is trimmed by an index of its own, to the process thread: each hand-over
  can fail, and what each of them counts is not what the next one counts;
- two threads share the websockets' sets without a lock, and an event's task can be
  overtaken, wait for passes of the loop or die while it sends;
- the Bitcoin monitor learns of users while it scans blocks it will not see again;
- candles go by the node's clock, trade histories by the users' clocks.

`PROJECT.json` lists these hazards at their lines with the properties that cover
them, and says of the few that no property covers why.

## The modules

`Orders` (what an order is, dictionaries) <- `Market` <- `Accounts` <- `Zex` <-
`ZexProperties` <- `ZexRefinement` (with `Exchange`) <- `MCZex`; `DepthFeed`
extends `Zex`; `MCDepthFeed` instantiates it. `Recovery` extends `ZexProperties`;
`MCRecovery` instantiates it. `Transmit` stands alone below `BtcMonitor`. `Delivery` and `Candles`
stand alone: the first takes the batches, the second the trades of the engine as given.

The proofs: `SumProofs` (sums over finite sets) <- `ZexProofs` <- `AccountProofs`
prove about `ZexProperties`; `ObserverProofs` extends `ZexProofs`, `DepthFeed` and
`ZexRefinement`; `RecoveryProofs` extends `AccountProofs` and `Recovery`; `MonitorProofs`
(of `Transmit` and `BtcMonitor`), `DeliveryProofs` and `CandleProofs` prove about the modules they are named for.

**Market.tla** is the matching engine. All markets are in one state, indexed by
pair, because they share the balances. Each operator that changes state is one
method, or one iteration of its `while` loop, since readers may look between two
iterations:

- `MatchInstantly` is the start of a match (the head of the other heap crosses
  and the balance suffices); `taker` and `remaining` are the order in the loop and
  its local variable `amount`;
- `ExecuteTrade` is an iteration of the loop: the head's quantity, its level, its
  registries if it is filled, the balances of both, two event ids;
- `ExecuteTradeFault` is the same iteration when the level is not in the book: the
  `KeyError` comes after the heap is popped and before anything else is updated;
- `FinishMatch` is the end of the loop, with what remains put to rest;
- `Place`, `Refused`, `Cancel` and `GetOrderBookUpdate` are the methods of those
  names. `Cancel` refunds before it looks the level up, so its `KeyError` branch
  leaves the refund in place.

Quantities and prices are integers for the code's decimals, in units of the last
place in use. What is added to a price level or taken from it goes through `Rounded`,
which does what the decimal context does: a result up to `Exact` is kept, a larger one
is rounded, half to even, to a multiple of `Coarse`. Levels are rounded because their
comparison with an order decides whether a level is deleted. Balances, costs and what
is left of an order are exact in the model, and rounded in the code; what is said of
funds is said of exact arithmetic. The code's context has `Exact` 10^28 and `Coarse` 10
for results of one digit more; a level has no second step of coarseness in the model.

Orders of one price and index a heap takes in the order of their bytes, which are the
operator `TxBytes`, a constant: the Zex runs give all orders the same number, so that
any of them may be first, `Recovery` gives different orders different ones. Order data
is a record; it stands for the transaction's bytes, which are the key of the code's
dictionaries. The buy and the sell half of the code, which
mirror each other, are one operator with the side as a field.

**Accounts.tla** is the rest of `Zex`: each handler with its early returns and the
`KeyError`s it can raise. A deposit transaction with several deposits is as many
transactions of one.

**Zex.tla** is `process`. A transaction is handled when no match is running and
nothing has failed. The content of a batch is chosen transaction by transaction;
`EndBatch` makes the events, `AbortBatch` is the `ValueError` that `process_loop`
logs. `fault` is the `KeyError` that it does not catch: after it nothing happens.
That, and the bound on nonces, is why the runs do not check for deadlock.

**Exchange.tla** is what the exchange promises its users, with no books and no
loop: an accepted order takes its whole cost out of the free balance; trades move
funds at a price within both limits and give back what a better price saves; a
cancel gives back exactly what is still held. **ZexRefinement.tla** maps the engine
to it: the free balance is the balance less what the order in the matching loop
may still cost, and that order is open with what remains of it.

**DepthFeed.tla** adds two clients: one that has subscribed from the start, and one
that takes a snapshot at any moment, in the middle of a match too, and applies the
events made after the copy. It assumes that events arrive in order and are not
lost; what the sending tasks make of that order is in `Delivery`. The id a snapshot carries is read after the copy,
outside the lock; the model's client goes by the moment of the copy and not by
that id, so nothing here shows that the id is right (it need not be: see the
hazard at `zex.py:729`).

**Recovery.tla** is a node over its lifetime: `process_loop` on a growing log of
batches, `save_state`, a crash at any step, `initialize_zex`. Here the content of a
batch is fixed when it is finalized, so that a replay runs the same transactions:
`Handle` gives a transaction to the action of `Zex` its kind calls for, or to the
early return. `FinishBatch` is the end of `process` with its decision to save,
`OpenFile` and `WriteFile` the two halves of the save, `FailBatch` a `ValueError`.
A node that is up starts from nothing (`StartFresh`: no source, an answer other than
200, an empty file) or from its file (`LoadState`). `ToProtobuf` and the `Load...`
operators name every field, because what a save forgets is what goes wrong:
the pending levels and `saved_state_index` are not in the file. A write that a crash
cuts short leaves a file the parser refuses, unless the cut falls between two
fields; then the node comes up on part of a state (`LoadCutFile`), and no property
speaks of it any more. `results` (the state after each batch when it was first
reached) and `unsaved` are history variables. The sequencer is external here, and the
node is its own state source; the redis stand-in, which trims its list, is in
`Transmit`.

**Transmit.tla** is everything between a POST and `process`. `Post` extends
`zseq_deque`; `Take`, `Verify` and `Send` are one round of `transmit_tx` (all that
waits is popped under the lock; chunks go to the workers and the verdicts come back
in one row; one `rpush`); `Fetch`, `Apply` and `Trim` are one round of
`MockZellular.batches` with `process_loop` around it. `Trim` is written as the code
has it: `lpop` of `after` elements, the number of batches ever taken, from a list
that earlier trims have shortened, while `Fetch` counts from `after - offset`.
`EndSender` and `EndReader` are the exceptions that end either thread alone, `Crash`
and `Start` the node: the list and the file stay, the deque, the offset and what is
in hand are lost. `pushed`, `removed`, `lost` and `misplaced` are history variables,
and `Place` says which of all batches the reader really has in hand.

**BtcMonitor.tla** composes that node with `run_monitor_btc`: `AskCount` (only a block
with its confirmations), `AskUsers` (`/users/latest-id`, which the node answers from
the registrations it has applied), `ScanBlock` (`processed` moves on at once),
`PostDeposits` (a `Post` of `Transmit`, whose answer is not looked at), `BlockFails`,
`EndMonitor`, `StartMonitor` (from the start block, with no addresses). The chain is
external: it grows by a block, or a branch as long as what it replaces takes fewer
blocks back than the confirmations; new blocks pay to users whose ids are out.
The node does not know the monitor; each crashes and starts without the other, and
either thread of the node may end alone while the API goes on answering (`NodeFails`).

**Delivery.tla** is the way of an event to the clients. The main thread runs the
endpoint (`Connect`, `Subscribe`, `Unsubscribe`, `Leave`, and `Break`, the exceptions
after which nothing is removed). The process thread makes tasks (`Batch`), which
run in the pass of the loop at `sleep(0)`: `StartTask` copies the dict of
subscriptions, whose sets are the live ones, `NextChannel` passes over the entries that
are not its event's and copies the next set, `Send`,
`SendWaits` and `SendFails` are the outcomes of awaiting a send, `Resume` and
`ResumeFails` the end of one that waited, `EndPass` the return to the blocking wait.
`ConnectionManager.remove` can be in progress in both threads: each container is
looked at in one step (`RemoveLook`) and taken from in another (`RemoveDrop`), where
it may raise. `owed` and `gone`, fixed when a task starts, are what it owes to whom.

**Candles.tla** is what a market remembers of its trades: `_update_kline`, column by
column as the frame is written (`WriteColumn`), `_record_trade` and its pruning, the
clock, the state file and a restart, and as operators what the API computes from
the frame: the day's statistics, the pages of the klines route, the report of
`user_trades`. A reader may come between any two writes.

A definition named `X__Defect` is `X` with a plausible bug; nothing uses it. Put
in the place of `X` it shows that a property notices.

## The properties

In `ZexProperties` (and `DepthFeed`, `ZexRefinement`):

- `TypeOK`; among others, what is left of a resting order is never negative.
- `Conservation`: free plus locked funds equal deposits minus withdrawals, in every
  token, at every step of a match and after a fault.
- `Solvency`: no balance is negative, and the order in the loop is paid for to its
  last unit.
- `OneRegistry`: `amounts`, `orders` and the heaps hold the same orders, unless a
  `KeyError` in a trade has ended the thread.
- `LevelsAreSums`: a price level is the sum of the orders resting at it, and orders
  rest without a level only if nothing is left of them, as long as `LevelsFit` has held:
  the orders of no price have ever added up to more than the decimal context tells
  apart. Beyond that the code gives no such sums: a level that was rounded once stays
  wrong, in memory, in events and in the state file, and may be deleted under an order.
- `Uncrossed`: no buy rests at or above a sell.
- `OneOrderPerNonce`: no two live orders of a user share a nonce and none has a
  nonce still to come, so the slice `cancel` searches for names one order.
- `MatchEnds`: a match that has begun ends.
- `EventIdsAdvance`: an event covers at least one id of its own.
- `CreditedOnce`, `TokensApart`, `WithdrawalsNumbered`: deposits, token ids and the
  four records of withdrawals.
- `KeepsPromise`: `Zex` implements `Exchange`.
- `FeedComplete`, `SnapshotCatchesUp`: a client's book and the levels waiting to be
  sent give the exchange's book.

In `Recovery`:

- `ReplayAgrees`: between two batches a node has the state its first run had there,
  and a batch that was once handled does not end the thread when it is replayed.
- `StaysSound`: a node that is up, after whatever crashes and starts, guards all that
  `ZexProperties` says of the exchange in one state: funds, registries, crossing,
  nonces, event ids, credits, withdrawals, token ids. The state file has no part of a transaction in it, and what
  relates its lists to each other is not lost on the way through it.
- `LevelsSurvive`: the levels, which the file has beside the orders they add up, tell
  what is left of these, as long as they fitted the decimal context whenever a node
  was up, in an earlier life too.
- `ReplayBounded`: a node is at most `state_save_frequency` batches ahead of its file.
- `CatchesUp`: a node that stays up, on a log that does not end its thread, handles
  all of it.
- `SavedEveryN`: what the comment on `save_frequency` says (`zex.py:50`), and the
  code does not do: it saves after N + 1 batches, whatever they hold.

In `Transmit`:

- `TypeOK`: the phases of the two threads, what they hold, and that the batch in
  the reader's hand is the one its index means.
- `LogIsPosted`: log, hand and deque, one behind the other, are in the order of the
  posts, the log holds only genuine transactions, and a genuine one is missing exactly
  if it was in memory in a failure.
- `NoGap`: the first batches make the state, until the list has come to twice the
  threshold or a node started on a trimmed list. Both exceptions are the code's: the
  second trim drops `after` elements, batches nobody has read among them, and a new
  `MockZellular` takes the trimmed list for the whole one.
- `NothingTwice`: whatever is skipped, nothing is applied twice or out of order.
- `PostedIsApplied`: a transaction whose POST was answered gets into the state, if
  no failure hits it and the list is in step.

In `BtcMonitor`:

- `ReportedIsFinal`: no reorganization takes back a block whose outputs were reported.
- `NoneOverlooked`: a running monitor has reported every output of every block it
  has passed, though users register all the while; the exception is a node that,
  after a restart, told it of fewer users than it once had.
- `RestartMakesGood`: once a monitor has begun on a node that is up to date, and both
  go on with the list in step (`InStep`, as in `NoGap`), every final output gets into
  the state, including what was lost before: with a node, with a thread of it that
  ended alone, or with a post that failed. The premise about the list is needed: after
  a start on a trimmed list, or a second trim, a batch with a report may be passed over
  unread while monitor and node go on as if nothing had happened.

In `Delivery`:

- `TypeOK`: among others, a task runs exactly when it has the thread.
- `LateOnlyIfWaited`: on one channel a client gets events in order and once; an event
  comes late only if its task has waited in a send.
- `OthersServed`: a task that ends has sent its event to every client that was
  subscribed when it began and stayed, whatever happened to the others; only clients
  a send to which has raised go without.
- `EndedForgotten`: a connection that ended is out of a channel's set by the time
  the next event of the channel is done, though the endpoint may never remove it.
- `EventsGoOut`: as long as batches come, every task ends.
- `SubscribedIsServed`: what the repository's README says of a subscription, and the
  code does not do: a client whose send failed once, with its connection open, is out
  of `active_connections` for good, and a new subscription is answered but not served.

In `Candles`:

- `CandlesTell`: unless the clock was set back, there is one candle per minute with
  trades, with exactly that minute's prices, volume and count, also after a restart.
- `CandleBounds`: whatever the clock does and between any two writes, a reader sees
  no two candles of a minute, no open or close outside the extremes, and no more
  volume than was traded.
- `DayCovered`: the statistics of the day leave out no trade of the last 24 hours,
  count at most one older candle, and go by the same candles.
- `PagesMeet`: a chart that pages back reads every candle once.
- `FillsReported`: a user's order is reported with all its trades until a later trade
  of his carries a time that makes one of them too old.

## The runs

| run | instance | shows |
|---|---|---|
| `trade` | 2 users with 3 units of 2 tokens, one pair, amounts and prices 1 and 2, 2 orders each | funds, crossing, nonces and event ids, with cancels and batch ends anywhere |
| `edge` | 1 user, 4 orders of amount 0 or 1 at price 1, or 1 or 3 at price 0; levels exact up to 3 and then rounded to threes | zero amounts and prices, levels that were rounded, the `KeyError`s both cause, the registries and the sums at the levels up to them; matches end |
| `promise` | 2 users, sells at 1 and 2, buys of 2 at 2, refused orders | the refinement over matches of several trades at several prices |
| `accounts` | an empty node, 2 users, 3 tokens, 5 deposit reports, withdrawals, orders on two pairs, one of them USDT against itself | registration, deposits and withdrawals in every order; unknown users and tokens; the refinement again |
| `feed` | 2 users, 4 order payloads, one of amount 0 | both clients of `DepthFeed`, snapshots at any moment |
| `recovery` | 2 users, one pair, 7 batches, logs of up to 3 of them in any order, save frequency 1 | crashes at every step, both kinds of start, replay, failed batches, a batch that ends the thread; the invariants of the exchange and its levels through all of it |
| `save_comment` | the same, save frequency 2 | a violation: two transactions in one batch, and no save |
| `transmit` | requests of one and of three transactions (one refused), 5 in all, 2 crashes, 2 workers, threshold 2, 2 elements per fetch | the way into the state, trims right and wrong, crashes at every step |
| `btc` | 1 user, 3 blocks with 2 confirmations, 5 posts, threshold 2, one end of the node or of one of its threads, one new start of the monitor | what is reported, overlooked and made good, with trims and a start on a trimmed list |
| `delivery` | 2 clients, a pair, its depth channel, 2 tasks, 2 requests | who gets what in which order, removals in both threads |
| `delivery_readme` | 1 client, its two channels and one without a second part | a violation: a client that subscribed again is not served |
| `candles` | 2 users, 4 kinds of trades, steps of 40 seconds, a day of 2 minutes, 3 trades, one time the clock is set back | candles, statistics, pages and histories between any two writes, with restarts |

Why these bounds are enough. A match needs at most a taker and two resting orders
to have a partial fill, a full fill, a price improvement, a remainder and a shared
level; two users with two orders each give four, and all of these happen (TLC
reports every action taken in them). Two amounts and two prices give every
comparison of the code both outcomes and equality. In `edge` the numbers are so small
that four orders do what 1e20 and 1e-10 do: 1 beside 3 is absorbed, the cancel of 3
deletes the level, and the cancel of 1 dies of it with no empty order resting. The
other runs have `Exact` and `Coarse` of 2 or more, and in `recovery` too levels come
to be rounded. `MaxNonce` and `MaxWithdraws`
bound the number of orders and withdrawals; `MaxTokenId` the ids of a chain.
`MaxBatches` bounds the log: with a save frequency of 1 the second batch is saved,
the third is replayed after a start from the file and saved over it, and three
batches are what it takes to let an order for nothing lose its level and a cancel
die of it. Two of the orders have one price and one index, so that their bytes decide
which is traded first, in the replay too. Crashes are not bounded there.
In `transmit` the threshold of 2 makes both trims happen, the right one and the one
that drops unread batches; a fetch of 2 makes a batch wait while others are pushed;
3 transactions on 2 workers give chunks of unlike sizes; the second crash hits a node
that began on a trimmed list. In `btc` 3 blocks with 2 confirmations give a block to
scan, one to overlook and a tip to replace; a second user adds states and no case. Its
threshold of 2 makes the list trimmed while the monitor goes on, and lets a node start
on the trimmed list, which breaks `RestartMakesGood` without its premise; 5 posts are
not enough for a report to be lost in a second trim, which `transmit` has. In
`delivery` two tasks are what can overtake each other, two clients what one client's
failure can do to another; two requests are a subscription of each, or a subscription
and its end while a task is at work. In `candles` a day of two minutes has candles
before, in and after the 24 hours of three trades. The proofs below need no bound:
they hold for every one.

Fairness. `MatchEnds` assumes weak fairness of the matching loop's steps only: the
thread inside the loop neither waits nor yields. `CatchesUp` assumes it of the
process thread's steps together: the generator polls the sequencer for ever, and
nothing in the handling of a batch or in a save waits for anyone. `PostedIsApplied`
assumes it of the rounds of each of the two threads, which are loops that sleep and
poll. `EventsGoOut` assumes that the process thread does not stop in a pass, that a
removal goes on, and, by strong fairness of each task's waking, that every send ends
although its task may miss any number of passes; that batches come is its premise, not
an assumption. `RestartMakesGood` assumes it of the node's threads and of each request
of the monitor; the request for a block may fail again and again, but succeeds some
time if it is made for ever (strong fairness of `ScanBlock`). Nothing is assumed about
users, requests, batches, blocks, crashes or starts.

## The proofs

`ZexProofs` proves, from the named assumptions on the constants (markets are pairs
of tokens; token ids are in range and configured ids distinct; offers have integer
amounts and prices; `Exact` is a multiple of `Coarse`; users are finitely many, since
a public key has 33 bytes), that
`IInv` is an invariant of `Spec`:

    IInv == EngineInv /\ AccountTypeOK /\ modified \subseteq Markets
    EngineInv == EngineTypeOK /\ RestingPrices /\ TakerPrice /\ OneRegistry /\ Solvency

`Solvency` alone is not inductive. After a trade the taker can pay for the rest
only because the head's price is within its limit, which is positive
(`TakerPrice`); the head is an order of that market and side, with a known
quantity, only because the registries agree (`OneRegistry`); a cancel's refund is
not negative only because resting prices are not (`RestingPrices`). There is one
lemma per operation (`PlaceKeeps`, `ExecuteTradeKeeps`, ...), lemmas for the book's
operators and for the settlement below them, and one lemma per transaction above.

- `TypeCorrect`, `SolvencyHolds`, `RegistryHolds` follow from `IInv`.
- In its second half, about the book: `NoncesHold` and `UncrossedHolds` are inductive next to `IInv`;
  `EventIdsHold` needs `IdsInv`: the end of a match adds to the book without using
  an event id, and the event is nevertheless numbered anew because the match
  traded first. `TradesFirst` says so: the order in the loop has either traded or
  still faces an order it crosses.
  `LevelsAreSumsHolds` needs `BookAgrees`: a level and the sum of what rests there
  agree at every price, also where nothing rests, so that no level is left behind to
  be added to later. It is kept by a step before and after which the levels fit
  (`LevelsStep`), since only then is nothing rounded (`RoundedFacts`), and so is an
  invariant of the behaviours in which they always do (`LevelsInvariant`). Without any
  premise there is `AmountsInv`: the order in the loop does not rest (`TakerRestsNot`),
  so that what remains of it is added to a level once.
  `FaultNeedsEmptyOrderHolds` is a theorem under the same premise, and not a property of
  the code: a level that is missing under a resting order is then a sum of 0, which no
  order with something left can be part of (`PartOfDepth`). Without the premise the
  `KeyError` has a second cause, rounding, and `edge` has states where it strikes with
  no empty order resting.
- `SumProofs` is what these sums rest on: how a sum over a finite set changes when a
  member comes, goes or gets another value, when all members but one stay, and that
  of two sets together or of a set under an injective function. There
  is no induction theorem to cite without an operator; the lemmas are proved from the
  least number of elements of a set that would contradict them (`LeastExists`).
- `AccountProofs`: `ConservationHolds` (`FundsInv`). Every operation of the engine
  moves between a balance and what an order holds exactly the cost of a quantity
  (`RestMoves`, `TradeMoves`, `CancelMoves`), also when buyer and seller are one user,
  when one token is both sides' currency and when the level is missing, since the
  refund of `Cancel` and the fault of a trade come where both sides of the sum agree.
  `CreditedOnceHolds` (`CreditsInv`): the number of keys of a chain is the number of
  entries of that chain in all users' lists together, and a report is credited only
  with a new key. `WithdrawalsNumberedHolds` (`WithdrawsInv`): a user's own entries of
  the log come in the order of their nonces, and each is in the user's list at the
  place of its nonce and nowhere else (`Numbered`); so the selection of them from the
  log is that list.
  `TokensApartHolds`: `TokensInv` adds to `IInv` that ids never pass the chain's last
  one, so that the next is new (`IdsApart`), and that what an order holds was taken
  from a balance: its token has a contract unless it holds nothing (`LockedInNamed`,
  `TakerPays`), and a trade pays nobody in a token without one (`TradeInNamed`).
- `RecoveryProofs`: `ReplayBoundedHolds`. By itself the bound is not inductive: a
  batch that is not saved is measured against `saved_state_index`, and only
  `SavedInFile` (that index is never ahead of the file, and is the batch just
  completed while the save is under way) says what that has to do with the file.
  `ReplayAgreesHolds` compares two runs of every handler, the first and the replay, so
  what a handler does is restated as a relation between two values (`Step`, on what is
  saved of a node and what `process` keeps besides), the actions are shown to be steps
  of it (`StepIs`, a lemma per handler), and a step to have one outcome (`StepOnce`). It
  has one because a heap gives one order, the least in price, index and bytes
  (`HeadIs`), and because the id of the next user is the largest there is, in memory
  and after `from_protobuf` alike (`CountsMax`). Steps that lead from one node to the
  end of a batch are then the same steps (`PathOnce`), and the batch has one end
  (`HandledOnce`). `ReplayInv`: each state in the history is what its batch makes of the
  one before (`HistoryInv`), the file holds one of them (`FileInv`), and a node that is
  up is at one of them or on its way from one through the batch in hand (`NodeInv`),
  whether for the first time or again.
  `LogDecidesHolds`: the states of this node are those of any other that reads the
  log, at the batches both have handled, each with crashes and starts of its own.
  `StaysSoundHolds`: all the invariants above of `Zex` together (`ZexInv`) are kept by
  whatever a batch holds (`HandleIsStep`). Between two transactions they relate saved
  values only, since no order is in the loop and the id of the last user is the
  largest there is (from `ReplayInv`). `Sound` says them of a state file, field by
  field: what is saved is sound (`SaveIsSound`), and a node that begins with a sound
  file, its pending levels empty and no market modified, has them all again
  (`LoadIsSound`).
  `LevelsSurviveHolds`: `LevelsKept` says of the state file and of a node that is up that
  levels and orders agree (`LevelsSaved`, `BookAgrees`). A step of a node that is up
  keeps it where the levels fit, a save takes it into the file (`LevelsOfFile`) and a
  start out of it (`LevelsLoaded`).
  Assumed of the batches: each transaction is one of those of `Zex`, with the arguments
  of its kind, and two orders differ in some byte.
- `ObserverProofs`: `PromiseKept`, that `Zex` implements `Exchange`: the initial
  states map to initial states, and each step to a step of the promise or a stutter,
  with a lemma per operation (`OrderPromised`, `TradePromised`, `CancelPromised`,
  `DepositPromised`, ...). Two facts carry it. The mapping counts the order in the
  loop apart from those that rest, so it must not rest too: `TakerRestsNot` holds
  because no two orders of a user share a nonce (`OneOrderPerNonce`). And a trade at
  a price better than the buyer's limit gives back exactly the difference
  (`PriceSaved`), also when both sides are one user and one token. And every step
  changes the book by setting or deleting one level and records it (`LevelStep`), so
  clients stay in step (`FeedCompleteHolds`, `SnapshotHolds`).
- `MonitorProofs`: `TransmitTypes`, `NothingTwiceHolds`, `NoGapHolds` and
  `LogIsPostedHolds`. `StateInv`
  says that the list is the end of what was ever pushed and that what the reader has
  fetched still lies where its index says. `OrderInv` bounds what has been applied by
  the place the reader is at (`removed + after - offset`), and what the file has by
  the place a start would read from: nothing is applied twice even where the index is
  wrong. `GapInv`: until the second trim the offset is what was removed, and a trim
  removes at least a threshold, so a second trim needs a list of twice the threshold.
  `LogIsPosted` needs what `verify` does to a list of any length in any number of
  processes: the chunks cover it (`ChunkNumbers`: `len // n + 1` leaves no empty chunk
  and no rest), parts that follow each other flatten to the whole (`FlattenParts`), so
  each transaction gets its own verdict (`VerdictsAre`), and what is kept of a list that
  rises still rises (`KeptRises`). The invariant `PostInv` then says of every list in
  the line, not of the log alone, that it rises and lies before the ones behind it.
  Of `BtcMonitor`, `ReportedIsFinalHolds` and `NoneOverlookedHolds`, from the node's
  operations in `Transmit`. A branch never reaches a final block (`ExtendKeepsFinal`);
  the monitor asks for users only when the next block is already final, so that block
  pays to nobody who registers after the answer (`UsersKnown`).
- `DeliveryProofs`: four invariants, each from the ones before it. The values and who
  has the process thread (`Values`, `Control`) give `DeliveryTypesHold`. `Manager` is
  what the two threads leave of `ConnectionManager` between them: a channel has one
  entry, nobody is removed who has not left or failed, and an open connection is
  active unless a send to it failed. `Before` is what a task still has before it, and
  needs all of this: a client that is owed the event has got it, has failed, or is in
  the set the task is at or in a later entry of its copy whose set is the dict's
  (`OwedCome`); a connection that had ended and is still in a set of the channel is
  yet to be come to, or is being removed by this task, and a set that the removal has
  seen stays without it (`GoneMet`). At the end nothing is before a task:
  `OthersServedHold` and `EndedForgottenHold`. `Order` says that a task that has not
  waited runs before every later one begins (`InTurn`), and that what a client got of
  a task is not before that task again (`GotOnce`): `LateOnlyIfWaitedHolds`.
- `CandleProofs`: `CandleInv` relates the frame to the log of trades, in memory and
  in the state file. Every row but the last is finished; the last one, in the middle
  of an update, is short of the newest trade in the columns that are still to be
  written (`Pending`). In this form one lemma on a write (`WriteTold`, `WriteWithin`)
  does for all five. `RowsBounded` holds whatever the clock does, since a trade whose
  minute is not the last row's adds a row or replaces one by a row of its own alone:
  `CandleBoundsHolds`. `RowsExact`, that the rows tell all the trades of their
  minutes, needs a clock that was not set back: `CandlesTellHolds`. With `Minutes`
  (candles open at whole minutes, so one closes before the next opens) a page is a
  part of the frame without a gap, and two parts that meet are one (`PartsMeet`):
  `PagesMeetHolds`. `DayCoveredHolds` adds up the rows that the statistics begin with
  at the padded index: the trades of those rows, and of no older row but one.
  `ListsInv` says of every user's list, in memory and in the file, that it is an
  injective listing of his trades, and that each one it lacks has a later trade which
  left it further behind than the time to live; `FillsReportedHolds` follows, a sum
  over entries being the sum over the trades they stand for (`SumImage`).

Only model-checked: `MatchEnds`, `CatchesUp`, `PostedIsApplied`, `RestartMakesGood` and
`EventsGoOut`, which are liveness and out of the prover's reach.

## Not modelled

- In the engine: logging, formatting, signatures, the byte layout of transactions and
  the width of their fields (an order's index is unsigned there and signed in the
  state file); light and benchmark mode.
- The rounding of balances, costs and what is left of an order to 28 digits: of funds,
  `Conservation`, `Solvency` and `KeepsPromise` speak in exact arithmetic.
- The id a snapshot reads after its copy (`zex.py:729`), and what a node does on a state
  file that was cut between two fields.
- A transaction that ends the process thread at every replay: `Recovery` has such logs,
  but a way out would be the operator's.
- The blocking form of `send`, which nothing calls; a real sequencer's protocol; the
  orderly stop of `main.py`, which is a crash to the models.
- In the candles: the 7 day change, which is a fraction when a week of candles is there
  and a difference of prices when not, so that nothing can be stated of it; the row
  that the change in percent is taken from (`iloc[-prev_24h_index]` counts from the
  wrong end), of which `DayCovered` says only when it agrees with the change; the
  rounding of floats.
- In the Bitcoin monitor: the truncation of `int(value * 10**8)`, the packing of the
  output's number into one byte, and the derivation of addresses.
- The API's other handlers, which format one dictionary and change nothing; the database
  of chart drawings; the bot, whose transactions are among those the models' users
  send; vendored code.

## What is left

The API's readers as steps of their own thread over `Zex`: the id of a snapshot,
`user_trades` while its deque is appended to.
