------------------------------ MODULE Recovery ------------------------------
(***************************************************************************)
(* A node over its lifetime: process_loop of app/api/routes/system.py      *)
(* taking batch after batch, the state file Zex.process saves, crashes,    *)
(* and initialize_zex of app/__init__.py, which starts again from the file *)
(* or from nothing and then reads the batches after last_tx_index.         *)
(*                                                                         *)
(* The sequencer is external: a log of finalized batches which only grows  *)
(* and which every reader sees alike.  (The stand-in that keeps the log in *)
(* a redis list, and trims it, is not this sequencer.)  The node is its    *)
(* own state source: what it fetches at a start is the file it wrote.      *)
(*                                                                         *)
(* A transaction the verifier refuses does nothing and is left out of its  *)
(* batch.  A bad batch is one whose transactions run, if it has any, and   *)
(* which then raises a ValueError (or is no JSON to begin with).           *)
(***************************************************************************)
EXTENDS ZexProperties

CONSTANTS
    Batches,         \* batches that may be finalized
    MaxBatches,      \* bound on the length of the log
    SaveFrequency    \* settings.zex.state_save_frequency

\* The transactions of a batch that are orders, or cancel one.
OrdersOf(b) == {b.txs[i].order : i \in {j \in DOMAIN b.txs :
                                           b.txs[j].kind \in {"order", "cancel"}}}

BatchOrders == UNION {OrdersOf(b) : b \in Batches}

OfferOf(o) == [side |-> o.side, market |-> o.market, amount |-> o.amount,
               price |-> o.price, index |-> o.index]

\* A transaction, with the argument of its kind.
IsTransaction(tx) ==
    \/ tx.kind = "register" /\ tx.user \in Users
    \/ tx.kind = "deposit"  /\ tx.deposit \in Deposits
    \/ tx.kind = "withdraw" /\ tx.withdraw \in Withdrawals
    \/ /\ tx.kind \in {"order", "cancel"}
       /\ tx.order \in Order /\ OfferOf(tx.order) \in Offers

\* Two orders differ in some byte.
ASSUME RecoveryAssumption ==
    /\ MaxBatches \in Nat
    /\ SaveFrequency \in Nat
    /\ \A b \in Batches :
           /\ b.bad \in BOOLEAN
           /\ Len(b.txs) \in Nat /\ DOMAIN b.txs = 1 .. Len(b.txs)
           /\ \A i \in DOMAIN b.txs : IsTransaction(b.txs[i])
    /\ \A x, y \in BatchOrders :
           TxBytes(x) \in Nat /\ (TxBytes(x) = TxBytes(y) => x = y)

VARIABLES
    log,           \* the finalized batches
    node,          \* "up", "down", or "damaged": up on a file that was cut
    phase,         \* of the process thread: "wait", "txs", "open", "write"
    after,         \* batches taken from the sequencer
    pos,           \* transactions begun of the batch in hand
    lastTxIndex,   \* last_tx_index
    savedIndex,    \* saved_state_index
    file,          \* what is in state_dest
    results,       \* history: the state after each batch when first reached
    unsaved        \* history: transactions run since the last save or start

loopVars     == <<log, node, phase, after, pos, lastTxIndex, savedIndex>>
historyVars  == <<results, unsaved>>
recoveryVars == <<zexVars, loopVars, file, historyVars>>

-----------------------------------------------------------------------------
(* The state file *)

\* to_protobuf after the batch index.  The pending levels and saved_state_index
\* are not part of it.
ToProtobuf(index) ==
    [lastTxIndex |-> index,
     assets |-> assets, amounts |-> amounts, orders |-> orders,
     heap |-> heap, book |-> book,
     firstId |-> firstId, finalId |-> finalId, lastUpdateId |-> lastUpdateId,
     publicToId |-> publicToId, idToPublic |-> idToPublic, nonces |-> nonces,
     listed |-> listed, markets |-> markets,
     contractToId |-> contractToId, lastTokenId |-> lastTokenId,
     decimals |-> decimals,
     deposits |-> deposits, userDeposits |-> userDeposits,
     withdraws |-> withdraws, userWithdraws |-> userWithdraws,
     withdrawNonce |-> withdrawNonce, userWithdrawNonce |-> userWithdrawNonce]

\* What a node that has processed nothing would save.
FreshState ==
    [lastTxIndex |-> 0,
     assets |-> InitialAssets, amounts |-> <<>>,
     orders |-> [u \in Users |-> {}],
     heap |-> [m \in Markets |-> [s \in Sides |-> {}]],
     book |-> [m \in Markets |-> [s \in Sides |-> <<>>]],
     firstId |-> NoEvents, finalId |-> NoEvents, lastUpdateId |-> NoEvents,
     publicToId |-> InitialIds, idToPublic |-> InitialUsers,
     nonces |-> [u \in Users |-> 0],
     listed |-> {USDT} \cup TestTokens, markets |-> {},
     contractToId |-> VerifiedTokens,
     lastTokenId |-> [c \in Chains |-> LastVerified(c)],
     decimals |-> DefaultDecimals,
     deposits |-> [c \in Chains |-> {}],
     userDeposits |-> [u \in Users |-> <<>>],
     withdraws |-> [c \in Chains |-> <<>>],
     userWithdraws |-> [c \in Chains |-> [u \in Users |-> <<>>]],
     withdrawNonce |-> [c \in Chains |-> 0],
     userWithdrawNonce |-> [c \in Chains |-> [u \in Users |-> 0]]]

LoadMarkets__AmountsOfBytes(s) ==
    /\ assets' = s.assets /\ orders' = s.orders
    /\ amounts' = [o \in DOMAIN s.amounts |-> o.amount]
    /\ heap' = s.heap /\ book' = s.book
    /\ updates' = [m \in Markets |-> [side \in Sides |-> <<>>]]
    /\ firstId' = s.firstId /\ finalId' = s.finalId
    /\ lastUpdateId' = s.lastUpdateId

\* from_protobuf, in four parts.  The pending levels start empty.
LoadMarkets(s) ==
    /\ assets' = s.assets /\ amounts' = s.amounts /\ orders' = s.orders
    /\ heap' = s.heap /\ book' = s.book
    /\ updates' = [m \in Markets |-> [side \in Sides |-> <<>>]]
    /\ firstId' = s.firstId /\ finalId' = s.finalId
    /\ lastUpdateId' = s.lastUpdateId

LoadChains(s) ==
    /\ deposits' = s.deposits /\ userDeposits' = s.userDeposits
    /\ withdraws' = s.withdraws /\ userWithdraws' = s.userWithdraws
    /\ withdrawNonce' = s.withdrawNonce
    /\ userWithdrawNonce' = s.userWithdrawNonce

LoadUsers__NoncesForgotten(s) ==
    /\ publicToId' = s.publicToId /\ idToPublic' = s.idToPublic
    /\ lastUserId' = Max({0} \cup Range(s.publicToId))
    /\ nonces' = [u \in Users |-> 0]

\* last_user_id is the largest id there is.
LoadUsers(s) ==
    /\ publicToId' = s.publicToId /\ idToPublic' = s.idToPublic
    /\ lastUserId' = Max({0} \cup Range(s.publicToId))
    /\ nonces' = s.nonces

LoadTokens(s) ==
    /\ listed' = s.listed /\ markets' = s.markets
    /\ contractToId' = s.contractToId /\ lastTokenId' = s.lastTokenId
    /\ decimals' = s.decimals

FromProtobuf(s) ==
    /\ LoadMarkets(s) /\ LoadChains(s) /\ LoadUsers(s) /\ LoadTokens(s)
    /\ taker' = NoTaker /\ remaining' = 0 /\ fault' = "none"
    /\ modified' = {}

NoFile    == [kind |-> "none"]
EmptyFile == [kind |-> "empty"]
CutFile   == [kind |-> "cut"]
Saved(s)  == [kind |-> "saved", state |-> s]

-----------------------------------------------------------------------------
(* The transactions of the batch in hand *)

TakeOrder(o) ==
    IF o.user \in Registered /\ o.nonce = nonces[o.user]
      THEN ProcessOrder(o.user, o)
      ELSE ProcessBadNonce(o.user, o.market)

\* cancel finds no order of the user with this slice and returns False.
CancelIgnored(o) == Idle /\ o \notin orders[o.user] /\ UNCHANGED zexVars

\* The market and the user's orders are looked up first.
TakeCancel(o) ==
    IF o.market \in markets /\ o.user \in Registered
      THEN ProcessCancel(o) \/ CancelIgnored(o)
      ELSE ProcessCancelFault(o.user, o.market)

DepositReturns(d) == Idle /\ DepositIgnored(d) /\ UNCHANGED zexVars

WithdrawReturns(w) == Idle /\ WithdrawIgnored(w) /\ UNCHANGED zexVars

Handle(tx) ==
    \/ tx.kind = "register" /\ ProcessRegister(tx.user)
    \/ tx.kind = "deposit"  /\ (ProcessDeposit(tx.deposit)
                                    \/ DepositReturns(tx.deposit))
    \/ tx.kind = "withdraw" /\ (ProcessWithdraw(tx.withdraw)
                                    \/ WithdrawReturns(tx.withdraw))
    \/ tx.kind = "order"    /\ TakeOrder(tx.order)
    \/ tx.kind = "cancel"   /\ TakeCancel(tx.order)

-----------------------------------------------------------------------------
RecoveryInit ==
    /\ Init
    /\ log = <<>>
    /\ node = "up" /\ phase = "wait"
    /\ after = 0 /\ pos = 0
    /\ lastTxIndex = 0 /\ savedIndex = 0
    /\ file = NoFile
    /\ results = <<>> /\ unsaved = 0

\* The sequencer, external.
Finalize(b) ==
    /\ Len(log) < MaxBatches
    /\ log' = Append(log, b)
    /\ UNCHANGED <<zexVars, node, phase, after, pos, lastTxIndex, savedIndex,
                   file, historyVars>>

Running(p) == node = "up" /\ phase = p

\* The generator yields the next batch and process begins with it.
TakeBatch ==
    /\ Running("wait")
    /\ after < Len(log)
    /\ after' = after + 1
    /\ phase' = "txs"
    /\ pos' = 0
    /\ UNCHANGED <<zexVars, log, node, lastTxIndex, savedIndex, file,
                   historyVars>>

HandleTransaction ==
    /\ Running("txs")
    /\ pos < Len(log[after].txs)
    /\ Handle(log[after].txs[pos + 1])
    /\ pos' = pos + 1
    /\ unsaved' = unsaved + 1
    /\ UNCHANGED <<log, node, phase, after, lastTxIndex, savedIndex, file,
                   results>>

ContinueMatch ==
    /\ Running("txs")
    /\ Match
    /\ UNCHANGED <<loopVars, file, historyVars>>

AllHandled == Running("txs") /\ Idle /\ pos = Len(log[after].txs)

\* The state after this batch, when no run of the node has come so far before.
Record(index) ==
    results' = IF after > Len(results)
                 THEN Append(results, ToProtobuf(index)')
                 ELSE results

SaveDue__OneBatchLate(index) == savedIndex + SaveFrequency < index - 1

SaveDue(index) == savedIndex + SaveFrequency < index

\* The events go out and last_tx_index moves on; it may be time to save.
FinishBatch ==
    /\ AllHandled /\ ~ log[after].bad
    /\ EndBatch
    /\ lastTxIndex' = after
    /\ IF SaveDue(after)
         THEN savedIndex' = after /\ phase' = "open"
         ELSE savedIndex' = savedIndex /\ phase' = "wait"
    /\ UNCHANGED <<log, node, after, pos, file, unsaved>>
    /\ Record(after)

FailBatch__Again ==
    /\ AllHandled /\ log[after].bad
    /\ AbortBatch
    /\ UNCHANGED <<loopVars, file, unsaved>>
    /\ Record(lastTxIndex)

\* process_loop logs the ValueError and takes the next batch.
FailBatch ==
    /\ AllHandled /\ log[after].bad
    /\ AbortBatch
    /\ phase' = "wait"
    /\ UNCHANGED <<log, node, after, pos, lastTxIndex, savedIndex, file,
                   unsaved>>
    /\ Record(lastTxIndex)

-----------------------------------------------------------------------------
(* save_state *)

\* open(state_dest, "wb") leaves an empty file.
OpenFile ==
    /\ Running("open")
    /\ file' = EmptyFile
    /\ phase' = "write"
    /\ UNCHANGED <<zexVars, log, node, after, pos, lastTxIndex, savedIndex,
                   historyVars>>

WriteFile ==
    /\ Running("write")
    /\ file' = Saved(ToProtobuf(lastTxIndex))
    /\ phase' = "wait"
    /\ unsaved' = 0
    /\ UNCHANGED <<zexVars, log, node, after, pos, lastTxIndex, savedIndex,
                   results>>

-----------------------------------------------------------------------------
(* Crashes and starts *)

\* At any moment.  A write under way may have put out part of its bytes.
Crash ==
    /\ node = "up"
    /\ node' = "down"
    /\ file' \in IF phase = "write" THEN {file, CutFile} ELSE {file}
    /\ UNCHANGED <<zexVars, log, phase, after, pos, lastTxIndex, savedIndex,
                   historyVars>>

\* What a start sets, the state apart.
Begin(index) ==
    /\ node = "down" /\ node' = "up"
    /\ phase' = "wait"
    /\ after' = index /\ pos' = 0
    /\ lastTxIndex' = index /\ savedIndex' = 0
    /\ unsaved' = 0
    /\ UNCHANGED <<log, file, results>>

\* There is no source, or no answer with a state in it.
StartFresh == FromProtobuf(FreshState) /\ Begin(0)

LoadState ==
    /\ file.kind = "saved"
    /\ FromProtobuf(file.state)
    /\ Begin(file.state.lastTxIndex)

\* The parser refuses most of the files that were cut short, and the node stays
\* down.  It accepts one that was cut between two fields, and the node comes up
\* without the rest: nothing more is said of such a node.
LoadCutFile ==
    /\ node = "down"
    /\ file = CutFile
    /\ node' = "damaged"
    /\ UNCHANGED <<zexVars, log, phase, after, pos, lastTxIndex, savedIndex,
                   file, historyVars>>

-----------------------------------------------------------------------------
Process == \/ TakeBatch \/ HandleTransaction \/ ContinueMatch \/ FinishBatch
           \/ FailBatch \/ OpenFile \/ WriteFile

RecoveryNext ==
    \/ \E b \in Batches : Finalize(b)
    \/ Process
    \/ Crash \/ StartFresh \/ LoadState \/ LoadCutFile

\* process_loop never stops asking for batches, nor waits while it handles one.
RecoverySpec ==
    RecoveryInit /\ [][RecoveryNext]_recoveryVars /\ WF_recoveryVars(Process)

-----------------------------------------------------------------------------
\* What a node may lose in a crash it gets back: between two batches its state
\* is the one the first run reached there, whether it came by a save, by a
\* replay of the batches since, or by a replay from the beginning, in the course
\* of however many crashes, some in the middle of a match or of a write, and
\* with batches that failed half way.  A batch that was once handled does not
\* end the thread when it comes again.
ReplayAgrees ==
    /\ Running("wait") =>
           ToProtobuf(lastTxIndex) =
               IF after = 0 THEN FreshState ELSE results[after]
    /\ node = "up" /\ after \in 1 .. Len(results) => fault = "none"

\* A crash at any moment, between two iterations of a match too, loses whole
\* batches and never a part of one: the exchange that comes up with the file,
\* whose lists from_protobuf reads one by one and never compares, guards funds,
\* orders, nonces, event numbers, credits and withdrawals as if it had never
\* stopped.
StaysSound ==
    node = "up" =>
        /\ Conservation /\ Solvency /\ OneRegistry /\ Uncrossed
        /\ OneOrderPerNonce /\ EventIdsAdvance
        /\ CreditedOnce /\ TokensApart /\ WithdrawalsNumbered

\* The price levels, which the file has beside the orders they add up, tell what
\* is left of those as long as they never were too much for the decimal context,
\* in this life of the node or in an earlier one.
LevelsSurvive ==
    [](node = "up" => LevelsFit) => [](node = "up" => LevelsTell)

FileIndex == IF file.kind = "saved" THEN file.state.lastTxIndex ELSE 0

\* While the node takes and handles batches, those it would have to handle again
\* after a crash, from the last that was completed back to the saved state, are
\* never more than the save frequency, however it came up.
ReplayBounded ==
    node = "up" /\ phase \in {"wait", "txs"} =>
        lastTxIndex <= FileIndex + SaveFrequency

\* A node that stays up, on a log that does not end its thread, handles the
\* whole log.
CatchesUp ==
    <>[](node = "up" /\ fault = "none") =>
        <>[](phase = "wait" /\ after = Len(log))

\* The comment on save_frequency: save state every N transactions.
SavedEveryN == Running("wait") => unsaved < SaveFrequency
=============================================================================
