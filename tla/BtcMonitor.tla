----------------------------- MODULE BtcMonitor -----------------------------
(***************************************************************************)
(* The Bitcoin deposit monitor, wallet/deposit.py, beside the node it asks *)
(* for users and posts deposits to: users register through the node, pay   *)
(* to the address made from their id, and the monitor reports what it      *)
(* finds in confirmed blocks.  Node and monitor crash and start again on   *)
(* their own; the monitor keeps nothing and begins with its start block.   *)
(*                                                                         *)
(* The chain is external: it grows, and loses blocks that do not have the  *)
(* confirmations yet.  An output is a block and the user it pays to; its   *)
(* amount is left out, and so is what Zex.deposit makes of an output that  *)
(* is reported twice (Accounts.tla).                                       *)
(***************************************************************************)
EXTENDS Transmit

CONSTANTS
    MaxUsers,          \* bound on the users that register
    MaxBlocks,         \* bound on the blocks ever mined
    MaxMonitorStarts,  \* bound on the starts of the monitor after the first
    Confirmations      \* blocks_confirmation

ASSUME BtcMonitorAssumption ==
    /\ MaxUsers \in Nat /\ MaxBlocks \in Nat /\ MaxMonitorStarts \in Nat
    /\ Confirmations \in Nat \ {0}

VARIABLES
    chain,       \* the blocks [id, pays], the ones from start_block on
    mined,       \* blocks ever mined
    monitor,     \* "count", "users", "block", "post", or "ended"
    processed,   \* processed_block
    addresses,   \* the monitor has the addresses of the users up to this id
    found,       \* the outputs found in the block just scanned
    starts,      \* starts of the monitor after the first
    assigned,    \* history: the highest user id the node ever gave
    blind,       \* history: blocks this monitor scanned after the node, working
                 \* its way back through the log, had told it of too few users
    fresh        \* history: the monitor began on a node that was up to date,
                 \* and both threads of the node have lived since

chainVars   == <<chain, mined>>
monitorVars == <<monitor, processed, addresses, found, starts>>
btcHistory  == <<assigned, blind, fresh>>
btcVars     == <<transmitVars, chainVars, monitorVars, btcHistory>>

-----------------------------------------------------------------------------
RegisterTx    == [kind |-> "register"]
DepositTx(os) == [kind |-> "deposit", outputs |-> os]

\* The transactions the node's state is made of.
InState == UNION {ToSet(pushed[applied[i]]) : i \in DOMAIN applied}

\* What /users/latest-id says.
LastUserId ==
    Cardinality({n \in DOMAIN posted \cap InState : posted[n].kind = "register"})

Up == sender # "down"

\* A node whose threads work; the API answers also when one has ended.
Alive == {sender, reader} \cap {"ended", "down"} = {}

Outputs(block) == {block.id} \X block.pays

-----------------------------------------------------------------------------
(* Users, and the chain *)

Registrations == Cardinality({n \in DOMAIN posted : posted[n].kind = "register"})

Register ==
    /\ Registrations < MaxUsers
    /\ Post(<<RegisterTx>>)
    /\ UNCHANGED <<chainVars, monitorVars, btcHistory>>

\* New blocks pay to users who have been told their ids.
Extend(kept, n) ==
    /\ mined + n <= MaxBlocks
    /\ mined' = mined + n
    /\ \E paid \in [1 .. n -> SUBSET (1 .. assigned)] :
           chain' = SubSeq(chain, 1, kept) \o
                        [i \in 1 .. n |-> [id |-> mined + i, pays |-> paid[i]]]
    /\ UNCHANGED <<transmitVars, monitorVars, btcHistory>>

Mine == Extend(Len(chain), 1)

\* A branch replaces another when it is as long, or longer.
Reorganize ==
    \E depth \in 1 .. Len(chain) :
        depth < Confirmations /\ Extend(Len(chain) - depth, depth)

-----------------------------------------------------------------------------
(* run_monitor_btc *)

Confirmed__OneShort(latest) == processed < latest - (Confirmations - 1) + 1

Confirmed(latest) == processed < latest - (Confirmations - 1)

\* getblockcount.  A request that fails, or no new block, is tried again.
AskCount ==
    /\ monitor = "count"
    /\ Confirmed(Len(chain))
    /\ monitor' = "users"
    /\ UNCHANGED <<transmitVars, chainVars, processed, addresses, found, starts,
                   btcHistory>>

Learned__FirstRoundOnly(id) == IF processed = 0 THEN id ELSE addresses

\* Addresses are added for new ids, and none is ever taken away.
Learned(id) == Max({addresses, id})

AskUsers ==
    /\ monitor = "users" /\ Up
    /\ addresses' = Learned(LastUserId)
    /\ blind' = IF LastUserId < assigned THEN blind \cup {processed + 1}
                ELSE blind
    /\ monitor' = "block"
    /\ UNCHANGED <<transmitVars, chainVars, processed, found, starts, assigned,
                   fresh>>

\* getblockhash and getblock.  The block counts as processed before its
\* deposits are posted.
ScanBlock ==
    /\ monitor = "block" /\ processed < Len(chain)
    /\ found' = {o \in Outputs(chain[processed + 1]) : o[2] <= addresses}
    /\ processed' = processed + 1
    /\ monitor' = IF found' = {} THEN "count" ELSE "post"
    /\ UNCHANGED <<transmitVars, chainVars, addresses, starts, btcHistory>>

\* A request for the block that fails begins the round again.
BlockFails ==
    /\ monitor = "block"
    /\ monitor' = "count"
    /\ UNCHANGED <<transmitVars, chainVars, processed, addresses, found, starts,
                   btcHistory>>

\* One transaction for the whole block, and no look at the answer.
PostDeposits ==
    /\ monitor = "post" /\ Up
    /\ Post(<<DepositTx(found)>>)
    /\ found' = {}
    /\ monitor' = "count"
    /\ UNCHANGED <<chainVars, processed, addresses, starts, btcHistory>>

\* The node cannot be reached, or the monitor is stopped at any time.
EndMonitor ==
    /\ monitor # "ended"
    /\ monitor' = "ended" /\ found' = {} /\ fresh' = FALSE
    /\ UNCHANGED <<transmitVars, chainVars, processed, addresses, starts,
                   assigned, blind>>

StartMonitor__KeepsPlace ==
    /\ monitor = "ended" /\ starts < MaxMonitorStarts
    /\ starts' = starts + 1
    /\ monitor' = "count"
    /\ addresses' = 0 /\ blind' = {}
    /\ fresh' = (Alive /\ LastUserId = assigned)
    /\ UNCHANGED <<transmitVars, chainVars, processed, found, assigned>>

StartMonitor ==
    /\ monitor = "ended" /\ starts < MaxMonitorStarts
    /\ starts' = starts + 1
    /\ monitor' = "count"
    /\ processed' = 0 /\ addresses' = 0 /\ blind' = {}
    /\ fresh' = (Alive /\ LastUserId = assigned)
    /\ UNCHANGED <<transmitVars, chainVars, found, assigned>>

-----------------------------------------------------------------------------
(* The node.  The id of a user is given when the registration is applied. *)

SenderWorks == Transmitter /\ UNCHANGED <<chainVars, monitorVars, btcHistory>>

ReaderWorks ==
    /\ Reader
    /\ assigned' = Max({assigned, LastUserId'})
    /\ UNCHANGED <<chainVars, monitorVars, blind, fresh>>

\* The node dies, or one of its threads does and the API goes on answering.
NodeFails ==
    /\ Crash \/ EndSender \/ EndReader
    /\ fresh' = FALSE
    /\ UNCHANGED <<chainVars, monitorVars, assigned, blind>>

NodeStarts == Start /\ UNCHANGED <<chainVars, monitorVars, btcHistory>>

-----------------------------------------------------------------------------
BtcInit ==
    /\ TransmitInit
    /\ chain = <<>> /\ mined = 0
    /\ monitor = "count" /\ processed = 0 /\ addresses = 0 /\ found = {}
    /\ starts = 0 /\ assigned = 0 /\ blind = {} /\ fresh = TRUE

Monitor == AskCount \/ AskUsers \/ ScanBlock \/ PostDeposits

BtcNext ==
    \/ Register
    \/ Mine \/ Reorganize
    \/ Monitor \/ BlockFails \/ EndMonitor \/ StartMonitor
    \/ SenderWorks \/ ReaderWorks \/ NodeFails \/ NodeStarts

\* Node and monitor work as long as they run; the requests to the Bitcoin node
\* are answered some time.  Nobody has to start either again.
BtcSpec ==
    /\ BtcInit /\ [][BtcNext]_btcVars
    /\ WF_btcVars(SenderWorks) /\ WF_btcVars(ReaderWorks)
    /\ WF_btcVars(AskCount) /\ WF_btcVars(AskUsers) /\ SF_btcVars(ScanBlock)
    /\ WF_btcVars(PostDeposits)

-----------------------------------------------------------------------------
Reported == UNION {posted[n].outputs :
                      n \in {m \in DOMAIN posted : posted[m].kind = "deposit"}}

CreditedOutputs ==
    UNION {posted[n].outputs : n \in {m \in InState : posted[m].kind = "deposit"}}

FinalBlocks == {chain[h] : h \in 1 .. Len(chain) - (Confirmations - 1)}

\* What is reported stays in the chain: the block is scanned only when no
\* reorganization can take it back, with blocks coming and going while the
\* monitor is between its requests.
ReportedIsFinal ==
    Reported \cup found \subseteq UNION {Outputs(b) : b \in FinalBlocks}

\* A monitor that runs reports every output of every block it has passed,
\* although it never looks at a block again and users register all the while.
\* Only a node that works its way back through the log after a restart, and
\* knows of fewer users than it once did, makes it pass over outputs.
NoneOverlooked ==
    monitor # "ended" =>
        \A h \in 1 .. processed : h \notin blind =>
            Outputs(chain[h]) \subseteq Reported \cup found

\* Everything is made good by starting the monitor again: once it has begun on
\* a node that is up to date, and both go on with the list in step, every output
\* that is final gets into the state, also those whose report was lost with an
\* earlier node or in a thread that ended, or which an earlier monitor overlooked
\* or died with.  Where the list is out of step nothing is promised: a report may
\* be trimmed or skipped unread while monitor and node go on as if it had come in.
RestartMakesGood ==
    <>[](fresh /\ InStep) =>
        <>[](\A b \in FinalBlocks : Outputs(b) \subseteq CreditedOutputs)
=============================================================================
