--------------------------- MODULE CmdItf1Props ---------------------------
(***************************************************************************)
(* What the command interface of protocol version 1 promises.  Comments    *)
(* quoted below are those of the source.                                   *)
(***************************************************************************)
EXTENDS CmdItf1

PendingIn(q) == {tx[q].entries[i].n : i \in DOMAIN tx[q].entries}
Pending == UNION {PendingIn(q) : q \in Queues}
Given == UNION {Range(delivered[q]) : q \in Queues}

(* arsdk_cmd_itf.h: "The flag done at 1 indicates the last call."  Every   *)
(* accepted command is either queued, with nothing final said of it, or    *)
(* was reported done exactly once: overwriting, retries, give-ups, stale   *)
(* acknowledgements and stop neither lose a command nor report it twice.   *)
DoneOnce ==
    \A n \in Cmds :
        /\ n \in Pending => done[n] = <<>>
        /\ n \in 1..sent /\ n \notin Pending => Len(done[n]) = 1
        /\ n > sent => done[n] = <<>>

(* A command is reported ACK_RECEIVED only if the peer's application got   *)
(* it: no stale, duplicated or late acknowledgement is taken for another   *)
(* command's, and none is sent for a command that was filtered out.  This  *)
(* needs the numbers to stay unambiguous (synced).                         *)
AckSound ==
    (\A q \in Queues : synced[q]) =>
        \A n \in Cmds : done[n] = <<"ACK_RECEIVED">> => n \in Given

(* The peer's application sees the commands of a queue that does not       *)
(* overwrite in the order they were sent and none twice, whatever is lost, *)
(* duplicated, refused or sent again, on a link that keeps the order of    *)
(* datagrams (should_process_data).                                        *)
InOrderOnce ==
    MaxReorder = 0 => \A q \in Queues : ~Info[q].overwrite =>
        \A i, j \in DOMAIN delivered[q] : i < j => delivered[q][i] < delivered[q][j]

(* Both: what is acknowledged was given to the peer's application, which   *)
(* got it in order and once (recv_ack, recv_data).                         *)
Delivered == AckSound /\ InOrderOnce

-----------------------------------------------------------------------------
(* The event loop serves an expired timer, and time passes.  TimerCb can   *)
(* be taken whenever the timer has expired: this is its weak fairness.     *)
FairTimer == []<>(timer # 0) /\ WF_vars(Tick)
TimerSpec == Spec /\ FairTimer

(* Besides, a datagram sent again and again gets through eventually: the   *)
(* strong fairness of the receipts, possible whenever there is a datagram. *)
FairLink ==
    \A q \in Queues :
        /\ []<>(data[q] # <<>>) =>
               []<><<\E i \in Arriving(data[q]) : RecvData(q, i, FALSE)>>_vars
        /\ []<>(acks[q] # <<>>) =>
               []<><<\E i \in Arriving(acks[q]) : RecvAck(q, i, FALSE)>>_vars
LinkSpec == Spec /\ FairTimer /\ FairLink

(* The sender is eventually told what became of each accepted command: no  *)
(* command waits for ever because the timer was not armed for it           *)
(* (check_tx_queue: "We should NEVER set next_timeout_ms to zero here, as  *)
(* it would deactivate the pomp_timer").                                   *)
EventuallyDone ==
    \A n \in Cmds : (n <= sent) ~> (done[n] # <<>>)

(* What stops the timer all queues share, with a command still to be sent: *)
(* the socket refused a datagram, for which no timeout is asked, or a      *)
(* queue asked for the time since its last datagram, and no time was.      *)
Stalled == timer = Off /\ \E q \in Queues : Unsent(tx[q])

(* The application asked that this command be sent until acknowledged.     *)
Insists == \E q \in Queues : WithAck(q) /\ tx[q].entries # <<>>
                                /\ MaxRetry(q, Head(tx[q].entries)) = IntMax

(* Even on a link that loses everything, next to a rate limited queue and  *)
(* with datagrams refused, each command is given up in the end: otherwise  *)
(* the timer was stopped as above and nothing happened since, or the queue *)
(* stays behind a command that is never given up (check_tx_queues).        *)
EventuallyGivenUp == <>[](Stalled \/ Insists) \/ EventuallyDone

(* A single queue that never gives up implements the abstract channel.     *)
Channel == INSTANCE CmdChannel WITH
    open <- up,
    received <- Len(delivered[1]),
    verdict <- [n \in Cmds |-> IF done[n] = <<>> THEN "none" ELSE Head(done[n])]
ImplementsChannel == Channel!Spec
=============================================================================
