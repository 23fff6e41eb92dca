--------------------------- MODULE CmdItf3Props ---------------------------
(***************************************************************************)
(* What the command interface of protocol version 3 promises.  Comments    *)
(* quoted below are those of the source.                                   *)
(***************************************************************************)
EXTENDS CmdItf3

PendingIn(q) == {tx[q].entries[i].n : i \in DOMAIN tx[q].entries}
Pending == UNION {PendingIn(q) : q \in Queues}

(* arsdk_cmd_itf.h: "The flag done at 1 indicates the last call."  Every   *)
(* accepted command is either queued, with nothing final said of it, or    *)
(* was reported done exactly once, however it was packed, cut, sent again, *)
(* acknowledged or cancelled.                                              *)
DoneOnce ==
    \A n \in Cmds :
        /\ n \in Pending => done[n] = <<>>
        /\ n \in 1..sent /\ n \notin Pending => Len(done[n]) = 1
        /\ n > sent => done[n] = <<>>

(* That, with all variables of their types (arsdk_cmd_itf3.c).             *)
Accounted == TypeOK /\ DoneOnce

(* check_tx_queue: "We should NEVER set next_timeout_ms to zero here, as   *)
(* it would deactivate the pomp_timer".  While a queue has something to    *)
(* send, the timer all queues share is armed, in time for it; a pack that  *)
(* the socket refused excepted, which waits for the next event.            *)
WakeUp(q) == IF tx[q].pack.waiting THEN Info[q].ackTimeout - tx[q].pack.age
             ELSE Info[q].maxRate - tx[q].txAge
Refused(q) == tx[q].pack.cmds # 0 /\ ~tx[q].pack.waiting
QueuesWatched ==
    \A q \in Queues :
        tx[q].entries # <<>> /\ ~Refused(q) => timer # Off /\ timer <= WakeUp(q)

-----------------------------------------------------------------------------
(* The event loop serves an expired timer, time passes, and a datagram     *)
(* sent again and again gets through eventually.  TimerCb and the receipts *)
(* can be taken whenever the timer has expired or a datagram is there, so  *)
(* that their weak and strong fairness read as follows.                    *)
FairTimer == []<>(timer # 0) /\ WF_vars(Tick)
FairLink ==
    \A q \in Queues :
        /\ []<>(data[q] # <<>>) => []<><<RecvData(q, FALSE)>>_vars
        /\ []<>(acks[q] # <<>>) => []<><<RecvAck(q, FALSE)>>_vars
LinkSpec == Spec /\ FairTimer /\ FairLink

(* The sender is eventually told what became of each accepted command,     *)
(* though a command may need several packs and packs several sendings.     *)
EventuallyDone == \A n \in Cmds : (n <= sent) ~> (done[n] # <<>>)

(* A single acknowledged queue implements the abstract channel: packing    *)
(* and cutting the commands does not show.  Commands are given whole, in   *)
(* the order they were sent and once, whatever is lost, duplicated or sent *)
(* again between the packs that hold their parts ("It is the following of  *)
(* a partial command"), and acknowledged only when the last byte is there. *)
Channel == INSTANCE CmdChannel WITH
    open <- up,
    received <- Len(delivered[1]),
    verdict <- [n \in Cmds |-> IF done[n] = <<>> THEN "none" ELSE Head(done[n])]
ImplementsChannel == Channel!Spec
=============================================================================
