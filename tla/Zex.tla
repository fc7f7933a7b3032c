-------------------------------- MODULE Zex ---------------------------------
(***************************************************************************)
(* The exchange: Zex.process of app/zex.py handling the transactions of    *)
(* one batch after another, over the engine of Market.tla and the accounts *)
(* of Accounts.tla.                                                        *)
(*                                                                         *)
(* One thread runs process, so transactions are handled one at a time.     *)
(* While an order is in its matching loop (taker # NoTaker) nothing else   *)
(* is handled, and after a KeyError, which process_loop does not catch,    *)
(* nothing ever is.  A batch is any finite sequence of transactions; its   *)
(* content is chosen one transaction at a time.                            *)
(***************************************************************************)
EXTENDS Accounts, FiniteSets, FiniteSetsExt

CONSTANTS
    InitialUsers,      \* the users initialize_test_mode registers, in order
    InitialBalance,    \* what it gives them in every verified token
    Offers,            \* order payloads: everything but the user and nonce
    Deposits,          \* deposits the monitors may report
    WithdrawAmounts,   \* amounts users may ask to withdraw
    MaxNonce,          \* bound on the order nonces of a user
    MaxWithdraws       \* bound on the withdrawals of a chain

ASSUME ZexAssumption ==
    /\ InitialUsers \in Seq(Users)
    /\ \A i, j \in DOMAIN InitialUsers :
           InitialUsers[i] = InitialUsers[j] => i = j
    /\ InitialBalance \in Nat
    /\ Offers \subseteq [side : Sides, market : Markets, amount : Int,
                         price : Int, index : Nat]
    /\ \A d \in Deposits :
           /\ d.chain \in Chains
           /\ d.amount \in Nat
           /\ d.user \in Nat
    /\ WithdrawAmounts \subseteq Int
    /\ MaxNonce \in Nat
    /\ MaxWithdraws \in Nat

\* A public key is 33 bytes long.
ASSUME UsersAreFinite == IsFiniteSet(Users)

VARIABLE modified    \* modified_pairs, local to process

zexVars == <<engineVars, accountVars, modified>>

-----------------------------------------------------------------------------
(* A fresh node: Zex.__init__, and initialize_test_mode when InitialUsers   *)
(* is not empty.                                                            *)

InitialSet == {InitialUsers[i] : i \in DOMAIN InitialUsers}

VerifiedOf(c) == {<<c, VerifiedTokens[c][x]>> : x \in DOMAIN VerifiedTokens[c]}

LastVerified(c) ==
    Max({0} \cup {VerifiedTokens[c][x] : x \in DOMAIN VerifiedTokens[c]})

ASSUME LastVerifiedIsAnId ==
    \A c \in Chains : LastVerified(c) \in 0 .. MaxTokenId

TestTokens == IF InitialSet = {} THEN {}
                                 ELSE UNION {VerifiedOf(c) : c \in Chains}

InitialAssets == [t \in Tokens |-> [u \in Users |->
    IF t \in TestTokens /\ u \in InitialSet THEN InitialBalance ELSE 0]]

InitialIds == [u \in InitialSet |->
                   CHOOSE i \in DOMAIN InitialUsers : InitialUsers[i] = u]

NoEvents == [m \in Markets |-> 0]

InitMarkets ==
    /\ assets = InitialAssets
    /\ amounts = <<>>
    /\ orders  = [u \in Users |-> {}]
    /\ heap    = [m \in Markets |-> [s \in Sides |-> {}]]
    /\ book    = [m \in Markets |-> [s \in Sides |-> <<>>]]
    /\ updates = [m \in Markets |-> [s \in Sides |-> <<>>]]
    /\ firstId = NoEvents
    /\ finalId = NoEvents
    /\ lastUpdateId = NoEvents
    /\ taker = NoTaker
    /\ remaining = 0
    /\ fault = "none"

InitAccounts ==
    /\ publicToId = InitialIds
    /\ idToPublic = InitialUsers
    /\ lastUserId = Len(InitialUsers)
    /\ nonces = [u \in Users |-> 0]
    /\ listed = {USDT} \cup TestTokens
    /\ markets = {}
    /\ deposits = [c \in Chains |-> {}]
    /\ userDeposits = [u \in Users |-> <<>>]
    /\ contractToId = VerifiedTokens
    /\ lastTokenId = [c \in Chains |-> LastVerified(c)]
    /\ decimals = DefaultDecimals
    /\ withdraws = [c \in Chains |-> <<>>]
    /\ userWithdraws = [c \in Chains |-> [u \in Users |-> <<>>]]
    /\ withdrawNonce = [c \in Chains |-> 0]
    /\ userWithdrawNonce = [c \in Chains |-> [u \in Users |-> 0]]

Init == InitMarkets /\ InitAccounts /\ modified = {}

-----------------------------------------------------------------------------
(* The transactions of a batch *)

Idle == taker = NoTaker /\ fault = "none"

ProcessRegister(u) == Idle /\ Register(u) /\ UNCHANGED modified

ProcessDeposit(d) == Idle /\ Deposit(d) /\ UNCHANGED modified

ProcessWithdraw(w) ==
    /\ Idle
    /\ Len(withdraws[ChainOf(w.token)]) < MaxWithdraws
    /\ Withdraw(w) \/ WithdrawFault(w)
    /\ UNCHANGED modified

\* An order makes the pair and the dictionaries of its tokens exist before its
\* nonce is looked at.
Create(m) ==
    /\ markets' = markets \cup {m}
    /\ listed'  = listed \cup {Base(m), Quote(m)}

OrderOf(f, u) == [side |-> f.side, market |-> f.market, amount |-> f.amount,
                  price |-> f.price, index |-> f.index,
                  user |-> u, nonce |-> nonces[u]]

\* validate_nonce refuses, or fails for a public key it does not know.
ProcessBadNonce(u, m) ==
    /\ Idle
    /\ Create(m)
    /\ fault' = IF u \in Registered THEN fault ELSE "key"
    /\ UNCHANGED <<assets, bookkeeping, userVars, nonces, depositVars,
                   withdrawVars, modified>>

UseNonce__Kept(u) == UNCHANGED nonces

UseNonce(u) == nonces' = [nonces EXCEPT ![u] = @ + 1]

\* validate_nonce accepts and uses up the nonce; then the order is matched,
\* placed or refused.
ProcessOrder(u, f) ==
    LET o == OrderOf(f, u)
    IN  /\ Idle
        /\ u \in Registered
        /\ nonces[u] < MaxNonce
        /\ Create(f.market)
        /\ UseNonce(u)
        /\ \/ MatchInstantly(o) /\ UNCHANGED modified
           \/ Place(o) /\ modified' = modified \cup {f.market}
           \/ /\ Refused(o)
              /\ UNCHANGED <<engineVars, modified>>
        /\ UNCHANGED <<userVars, depositVars, withdrawVars>>

ProcessTrade ==
    /\ taker # NoTaker /\ fault = "none"
    /\ \E h \in heap[taker.market][Other(taker.side)] :
           ExecuteTrade(h) \/ ExecuteTradeFault(h)
    /\ UNCHANGED <<accountVars, modified>>

ProcessMatched ==
    /\ taker # NoTaker /\ fault = "none"
    /\ FinishMatch
    /\ modified' = modified \cup {taker.market}
    /\ UNCHANGED accountVars

\* The slice of a cancel transaction holds the order's market, side, amount,
\* price and nonce.  One that names no resting order of the user changes
\* nothing.
ProcessCancel(o) ==
    /\ Idle
    /\ Cancel(o)
    /\ modified' = IF fault' = "none" THEN modified \cup {o.market} ELSE modified
    /\ UNCHANGED accountVars

\* Its market was never created, or its public key never registered.
ProcessCancelFault(u, m) ==
    /\ Idle
    /\ m \notin markets \/ u \notin Registered
    /\ KeyFault
    /\ UNCHANGED modified

-----------------------------------------------------------------------------
(* The end of a batch *)

\* A depth event goes out for every modified pair.
EndBatch ==
    /\ Idle
    /\ GetOrderBookUpdate(modified)
    /\ modified' = {}
    /\ UNCHANGED accountVars

\* A ValueError, which process_loop logs, ends the batch without its events.
AbortBatch ==
    /\ Idle
    /\ modified' = {}
    /\ UNCHANGED <<engineVars, accountVars>>

-----------------------------------------------------------------------------
Withdrawals == [token : Tokens, amount : WithdrawAmounts,
                nonce : 0 .. MaxWithdraws, user : Users]

ProcessTransaction ==
    \/ \E u \in Users : ProcessRegister(u)
    \/ \E d \in Deposits : ProcessDeposit(d)
    \/ \E w \in Withdrawals : ProcessWithdraw(w)
    \/ \E u \in Users, f \in Offers : ProcessOrder(u, f)
    \/ \E u \in Users, f \in Offers : ProcessBadNonce(u, f.market)
    \/ \E u \in Users : \E o \in orders[u] : ProcessCancel(o)
    \/ \E u \in Users, f \in Offers : ProcessCancelFault(u, f.market)

Match == ProcessTrade \/ ProcessMatched

Next == ProcessTransaction \/ Match \/ EndBatch \/ AbortBatch

\* The thread that runs process never waits inside the matching loop, so a
\* match that has begun goes on.
Spec == Init /\ [][Next]_zexVars /\ WF_zexVars(Match)
=============================================================================
