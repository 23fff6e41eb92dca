----------------------------- MODULE MCCmdItf3 -----------------------------
(***************************************************************************)
(* Instances of CmdItf3 for TLC.  Version 3 uses the tables of version 1,  *)
(* without overwriting and with infinite retry; the timeouts are scaled    *)
(* down.                                                                   *)
(***************************************************************************)
EXTENDS CmdItf3Props

WithAckQueue(low, timeout) ==
    [type |-> "WITHACK", lowPrio |-> low, ackTimeout |-> timeout, maxRate |-> 0]
NoAckQueue(rate) ==
    [type |-> "NOACK", lowPrio |-> FALSE, ackTimeout |-> 0, maxRate |-> rate]

AckOnly == <<WithAckQueue(FALSE, 1)>>

Device == <<WithAckQueue(FALSE, 2), NoAckQueue(1), WithAckQueue(TRUE, 2)>>
=============================================================================
