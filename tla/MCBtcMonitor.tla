--------------------------- MODULE MCBtcMonitor ---------------------------
(* One user and up to three blocks, the last of which may be replaced. *)
EXTENDS BtcMonitor

MonitorTxs ==
    {RegisterTx} \cup
        {DepositTx(os) : os \in SUBSET ((1 .. MaxBlocks) \X (1 .. MaxUsers))}
=============================================================================
