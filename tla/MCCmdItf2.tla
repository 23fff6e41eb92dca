----------------------------- MODULE MCCmdItf2 -----------------------------
(***************************************************************************)
(* The controller's two queues, with the acknowledgement timeout of 150 ms *)
(* scaled down.  Two commands of size 1 share a pack of 6 bytes, a third   *)
(* one needs another, and a command of size 5 fits in none.                *)
(***************************************************************************)
EXTENDS CmdItf2Props

Controller == <<[type |-> "NOACK", lowPrio |-> FALSE, ackTimeout |-> 0],
                [type |-> "WITHACK", lowPrio |-> FALSE, ackTimeout |-> 1]>>
=============================================================================
