--------------------------- MODULE CmdItf2Props ---------------------------
(***************************************************************************)
(* What the command interface of protocol version 2 promises.  Comments    *)
(* quoted below are those of the source.                                   *)
(***************************************************************************)
EXTENDS CmdItf2

PendingIn(q) == {tx[q].entries[i].n : i \in DOMAIN tx[q].entries}
Pending == UNION {PendingIn(q) : q \in Queues}

(* arsdk_cmd_itf.h: "The flag done at 1 indicates the last call."  Every   *)
(* accepted command is either queued, with nothing final said of it, or    *)
(* was reported done exactly once, also when the socket refuses the pack   *)
(* of a queue without acknowledgement and the interface is stopped next.   *)
DoneOnce ==
    \A n \in Cmds :
        /\ n \in Pending => done[n] = <<>>
        /\ n \in 1..sent /\ n \notin Pending => Len(done[n]) = 1
        /\ n > sent => done[n] = <<>>

(* The commands an acknowledgement completes are those that the pack held  *)
(* when it was sent, though others were queued between its sendings: a     *)
(* command is reported ACK_RECEIVED only if the peer's application got it. *)
AckSound ==
    (\A q \in Queues : synced[q]) =>
        \A n \in Cmds : done[n] = <<"ACK_RECEIVED">> =>
            \E q \in Queues : Contains(delivered[q], n)

(* "If the sequence number was already handled, stop processing here": the *)
(* peer's application gets the commands of a queue in the order they were  *)
(* sent and none twice, whatever is lost, duplicated or sent again.        *)
InOrderOnce ==
    \A q \in Queues : \A i, j \in DOMAIN delivered[q] :
        i < j => delivered[q][i] < delivered[q][j]

(* What stays in a queue is a pack that waits for its acknowledgement,     *)
(* with the timer all queues share armed in time for it, or a pack that    *)
(* the socket refused ("We should NEVER set next_timeout_ms to zero here,  *)
(* as it would deactivate the pomp_timer").                                *)
QueuesWatched ==
    \A q \in Queues : tx[q].entries # <<>> /\ ~tx[q].refused =>
        /\ tx[q].pack.waiting
        /\ timer # Off /\ timer <= Info[q].ackTimeout - tx[q].pack.age

(* All the variables have their types, and a command is told its end once, *)
(* or waits and is watched (check_tx_queue, recv_ack, arsdk_cmd_itf2_stop). *)
Accounted == TypeOK /\ DoneOnce /\ QueuesWatched

(* Both: what is acknowledged was given to the peer's application, which   *)
(* got it in order and once (recv_ack, recv_data).                         *)
Delivered == AckSound /\ InOrderOnce

-----------------------------------------------------------------------------
(* The event loop serves an expired timer, time passes, and a datagram     *)
(* sent again and again gets through eventually.                           *)
FairTimer == []<>(timer # 0) /\ WF_vars(Tick)
FairLink ==
    \A q \in {p \in Queues : WithAck(p)} :
        /\ []<>(data[q] # <<>>) => []<><<RecvData(q, FALSE)>>_vars
        /\ []<>(acks[q] # <<>>) => []<><<RecvAck(q, FALSE)>>_vars
LinkSpec == Spec /\ FairTimer /\ FairLink

(* What may hold command n back for ever: a pack the socket refused, which *)
(* waits for the next event, or a command too large for a pack, itself or  *)
(* before it.                                                              *)
HeldBack(n) ==
    \E q \in Queues :
        /\ n \in PendingIn(q)
        /\ tx[q].refused \/ \E c \in ToSet(tx[q].entries) : c.n <= n /\ TooLarge(c.size)

(* Otherwise the sender is eventually told what became of each command.    *)
EventuallyDone == \A n \in Cmds : (n <= sent) ~> (done[n] # <<>> \/ HeldBack(n))
=============================================================================
