------------------------------ MODULE CmdItf1 ------------------------------
(***************************************************************************)
(* The command interface of protocol version 1                            *)
(* (libarsdk/src/cmd_itf/arsdk_cmd_itf1.c): the transmit queues of one     *)
(* peer, the receiving side of the other peer and the datagram link        *)
(* between them.                                                           *)
(*                                                                         *)
(* A queue of type WITHACK is a stop-and-wait channel: only its head is    *)
(* ever in flight, and it is retransmitted until its acknowledgement comes *)
(* or it runs out of retries.  A queue of type NOACK sends and forgets.    *)
(* All the queues share a single one-shot timer.                           *)
(*                                                                         *)
(* Time is counted in milliseconds, like the interface's own arithmetic,   *)
(* and two events of the same millisecond see an elapsed time of zero.     *)
(* Application callbacks run inside the steps below and do not call back   *)
(* into the interface.                                                     *)
(***************************************************************************)
EXTENDS Integers, Sequences, SequencesExt, FiniteSetsExt

CONSTANTS
    Info,         \* Info[i]: the arsdk_cmd_queue_info of queue i
    Kinds,        \* full command identifiers
    RetryKinds,   \* the commands whose description has the RETRY timeout policy
    SeqSize,      \* sequence numbers are counted modulo SeqSize (2^8)
    Window,       \* how far behind an old number may be (10)
    RetryCap,     \* bound: entry.retry_count saturates here
    MaxCmds,      \* bound: commands the application sends
    MaxFlight,    \* bound: datagrams of one queue and direction in the network
    MaxReorder,   \* bound: datagrams that may overtake one datagram
    RefuseUntil   \* bound: the socket may refuse a datagram (EAGAIN) until a
                  \* queue has used this many numbers; 0 when it never does

Queues == 1..Len(Info)
Cmds == 1..MaxCmds
BufferTypes == {"NON_ACK", "ACK", "LOW_PRIO", "HIGH_PRIO"}
FinalStatus == {"PACKED", "ACK_RECEIVED", "TIMEOUT", "CANCELED"}
Off == -1          \* the timer is not armed; also "no timeout wanted"
IntMax == RetryCap + 1   \* INT32_MAX, a retry count never reached

QueueInfo == [type : {"NOACK", "WITHACK"}, lowPrio : BOOLEAN, ackTimeout : Nat,
              maxRate : Nat, overwrite : BOOLEAN, maxRetry : -1..IntMax]

ASSUME InfoAssumption == Info \in Seq(QueueInfo)
ASSUME TimeoutAssumption ==
    \A i \in 1..Len(Info) : Info[i].type = "WITHACK" => Info[i].ackTimeout > 0
ASSUME KindsAssumption == RetryKinds \subseteq Kinds
ASSUME SeqAssumption == SeqSize \in Nat /\ Window \in Nat /\ SeqSize > Window + 1
ASSUME BoundsAssumption ==
    /\ RetryCap \in Nat /\ RetryCap > 0
    /\ MaxCmds \in Nat /\ MaxFlight \in Nat /\ MaxReorder \in Nat
    /\ RefuseUntil \in Nat

VARIABLES
    tx,          \* tx[q]: the sender's queue q
    timer,       \* milliseconds before the shared timer expires, or Off
    up,          \* self->transport is not NULL
    sent,        \* history: how many commands were accepted; the last one's name
    done,        \* history: done[n], the done notifications of command n
    data,        \* data[q]: frames of queue q in the network, oldest first
    acks,        \* acks[q]: acknowledgements of queue q in the network
    recv,        \* recv[q]: the receiver's recv_seq for queue q
    delivered,   \* history: the commands of q given to the peer's application
    rserial,     \* history: the serial number behind recv[q]
    synced       \* history: has the serial number lag stayed within the window?

vars == <<tx, timer, up, sent, done, data, acks, recv, delivered, rserial, synced>>
receiver == <<recv, delivered, rserial>>

Entry == [n : Cmds, kind : Kinds, seq : 0..(SeqSize - 1), waiting : BOOLEAN,
          retry : 0..RetryCap, age : Nat]
(* serial is a history: the number of increments of seq, not reduced.      *)
Queue == [entries : Seq(Entry), seq : 0..(SeqSize - 1), txAge : Nat, serial : Nat]
Datagram == [seq : 0..(SeqSize - 1), n : Cmds, serial : Nat, late : Nat]

TypeOK ==
    /\ tx \in [Queues -> Queue]
    /\ timer \in Nat \cup {Off}
    /\ up \in BOOLEAN
    /\ sent \in 0..MaxCmds
    /\ done \in [Cmds -> Seq(FinalStatus)]
    /\ data \in [Queues -> Seq(Datagram)]
    /\ acks \in [Queues -> Seq(Datagram)]
    /\ recv \in [Queues -> 0..(SeqSize - 1)]
    /\ delivered \in [Queues -> Seq(Cmds)]
    /\ rserial \in [Queues -> Nat]
    /\ synced \in [Queues -> BOOLEAN]

-----------------------------------------------------------------------------
(* Queues *)

WithAck(q) == Info[q].type = "WITHACK"
(* Mutant: the number is not wrapped to its width.                        *)
SeqnumUnwrapped(s, k) == s + k

Seqnum(s, k) == (s + k) % SeqSize

NewQueue(q) ==
    [entries |-> <<>>, seq |-> SeqSize - 1, txAge |-> Info[q].maxRate, serial |-> 0]

NewEntry(n, kind) ==
    [n |-> n, kind |-> kind, seq |-> 0, waiting |-> FALSE, retry |-> 0, age |-> 0]

MaxRetry(q, e) == IF e.kind \in RetryKinds THEN IntMax ELSE Info[q].maxRetry

(* The queues that carry a buffer type; find_tx_queue takes the first.     *)
Suitable(bt) ==
    {q \in Queues :
        \/ bt = "NON_ACK" /\ ~WithAck(q)
        \/ bt = "ACK" /\ WithAck(q) /\ ~Info[q].lowPrio
        \/ bt = "LOW_PRIO" /\ WithAck(q) /\ Info[q].lowPrio
        \/ bt = "HIGH_PRIO" /\ WithAck(q) /\ Info[q].maxRetry = IntMax}
IsTxQueue(q, bt) == q \in Suitable(bt) /\ \A p \in Suitable(bt) : q <= p

Note(n, status) == [n |-> n, status |-> status]
Notify(d, notes) ==
    [n \in Cmds |-> IF \E x \in notes : x.n = n
                    THEN Append(d[n], (CHOOSE x \in notes : x.n = n).status)
                    ELSE d[n]]

(* Where an overwriting queue replaces an entry instead of growing: the    *)
(* first entry of the same command that is not in flight.                  *)
Replaceable(q, qu, kind) ==
    {i \in DOMAIN qu.entries : /\ Info[q].overwrite
                               /\ ~qu.entries[i].waiting
                               /\ qu.entries[i].kind = kind
                               /\ \A j \in 1..(i - 1) : qu.entries[j].waiting
                                                        \/ qu.entries[j].kind # kind}

(* Mutant: the replaced command is not reported.                           *)
QueueAddSilently(q, qu, n, kind) ==
    [queue |-> IF Replaceable(q, qu, kind) = {}
               THEN [qu EXCEPT !.entries = Append(@, NewEntry(n, kind))]
               ELSE [qu EXCEPT !.entries[CHOOSE i \in Replaceable(q, qu, kind) : TRUE]
                                   = NewEntry(n, kind)],
     notes |-> {}]

QueueAdd(q, qu, n, kind) ==
    IF Replaceable(q, qu, kind) = {}
    THEN [queue |-> [qu EXCEPT !.entries = Append(@, NewEntry(n, kind))],
          notes |-> {}]
    ELSE LET i == CHOOSE i \in Replaceable(q, qu, kind) : TRUE
         IN  [queue |-> [qu EXCEPT !.entries[i] = NewEntry(n, kind)],
              notes |-> {Note(qu.entries[i].n, "CANCELED")}]

QueuePop(qu) == [qu EXCEPT !.entries = Tail(@)]

-----------------------------------------------------------------------------
(* check_tx_queue: what one pass over queue q does when the socket takes   *)
(* `ok' datagrams and refuses the next.  The pass leaves a queue, sends    *)
(* frames, makes done notifications and wants to run again in `timeout'.   *)

Pass(qu, frames, notes, timeout) ==
    [queue |-> qu, frames |-> frames, notes |-> notes, timeout |-> timeout]

Unsent(qu) == qu.entries # <<>> /\ ~Head(qu.entries).waiting
InFlight(qu) == qu.entries # <<>> /\ Head(qu.entries).waiting
AckPending(q, qu) == InFlight(qu) /\ Head(qu.entries).age < Info[q].ackTimeout
GivesUp(q, e) == MaxRetry(q, e) > 0 /\ e.retry >= MaxRetry(q, e)

Retried(e) ==
    [e EXCEPT !.waiting = FALSE, !.age = 0,
              !.retry = IF @ < RetryCap THEN @ + 1 ELSE @]

(* The acknowledgement of the head is overdue: drop it or send it again.   *)
Expire(q, qu) ==
    IF ~InFlight(qu) THEN qu
    ELSE IF GivesUp(q, Head(qu.entries)) THEN QueuePop(qu)
    ELSE [qu EXCEPT !.entries[1] = Retried(@)]
(* Mutant: a command that runs out of retries is dropped silently.         *)
ExpireSilently(q, qu) == {}

ExpireNotes(q, qu) ==
    IF InFlight(qu) /\ GivesUp(q, Head(qu.entries))
    THEN {Note(Head(qu.entries).n, "TIMEOUT")}
    ELSE {}

(* Mutant: every transmission takes a number, retries included.            *)
NumberedAlways(qu) == [qu EXCEPT !.seq = Seqnum(@, 1), !.serial = @ + 1]

(* A new head takes the next number, a retry keeps the last one.           *)
Numbered(qu) ==
    IF Head(qu.entries).retry = 0
    THEN [qu EXCEPT !.seq = Seqnum(@, 1), !.serial = @ + 1]
    ELSE qu

Frame(qu, i, k) ==
    [seq |-> Seqnum(qu.seq, k), n |-> qu.entries[i].n, serial |-> qu.serial + k,
     late |-> 0]

(* Mutant: the acknowledgement timeout is not accounted for.               *)
TransmitUnwatched(q, qu, ok) ==
    LET num == Numbered(qu)
    IN  IF ok = 0
        THEN Pass(num, <<>>, {}, Off)
        ELSE Pass([num EXCEPT !.txAge = 0,
                              !.entries[1].seq = num.seq,
                              !.entries[1].waiting = TRUE],
                  <<Frame(num, 1, 0)>>, {}, Off)

TransmitHead(q, qu, ok) ==
    LET num == Numbered(qu)
    IN  IF ok = 0
        THEN Pass(num, <<>>, {}, Off)
        ELSE Pass([num EXCEPT !.txAge = 0,
                              !.entries[1].seq = num.seq,
                              !.entries[1].waiting = TRUE,
                              !.entries[1].age = 0],
                  <<Frame(num, 1, 0)>>, {}, Info[q].ackTimeout)

(* The whole queue goes, or one entry when the rate is limited: then the   *)
(* next is too soon, by an elapsed time of 0 that is also its timeout.     *)
TransmitAll(q, qu, ok) ==
    LET burst == IF Info[q].maxRate > 0 THEN 1 ELSE Len(qu.entries)
        k     == IF ok < burst THEN ok ELSE burst
        tried == IF ok < burst THEN ok + 1 ELSE burst
    IN  Pass([qu EXCEPT !.entries = SubSeq(@, k + 1, Len(@)),
                        !.seq = Seqnum(@, tried),
                        !.serial = @ + tried,
                        !.txAge = IF k > 0 THEN 0 ELSE @],
             [i \in 1..k |-> Frame(qu, i, i)],
             {Note(qu.entries[i].n, "PACKED") : i \in 1..k},
             IF k = burst /\ k < Len(qu.entries) THEN 0 ELSE Off)

TooSoon(q, qu) == qu.txAge < Info[q].maxRate

Transmit(q, qu, ok) ==
    CASE qu.entries = <<>>                       -> Pass(qu, <<>>, {}, Off)
      [] Unsent(qu) /\ TooSoon(q, qu)            -> Pass(qu, <<>>, {}, qu.txAge)
      [] Unsent(qu) /\ ~TooSoon(q, qu) /\ WithAck(q)  -> TransmitHead(q, qu, ok)
      [] Unsent(qu) /\ ~TooSoon(q, qu) /\ ~WithAck(q) -> TransmitAll(q, qu, ok)
      [] OTHER                                   -> Pass(qu, <<>>, {}, Off)

CheckTxQueue(q, qu, ok) ==
    IF AckPending(q, qu)
    THEN Pass(qu, <<>>, {}, Info[q].ackTimeout - Head(qu.entries).age)
    ELSE LET sending == Transmit(q, Expire(q, qu), ok)
         IN  [sending EXCEPT !.notes = @ \cup ExpireNotes(q, qu)]

-----------------------------------------------------------------------------
(* The network: a datagram that finds its channel full is lost.            *)

Put(channel, frames) ==
    IF Len(channel) + Len(frames) <= MaxFlight THEN channel \o frames ELSE channel
Arriving(channel) ==
    {i \in DOMAIN channel : \A j \in 1..(i - 1) : channel[j].late < MaxReorder}
Overtake(channel, i) ==
    [j \in DOMAIN channel |->
        IF j < i THEN [channel[j] EXCEPT !.late = @ + 1] ELSE channel[j]]
Taken(channel, i, copy) ==
    IF copy THEN Overtake(channel, i) ELSE RemoveAt(Overtake(channel, i), i)

(* How far the sender's numbers are ahead of what the receiver, or any     *)
(* datagram in the network, still knows.  Beyond it numbers are ambiguous. *)
InWindow(q) ==
    /\ tx[q].serial - rserial[q] < SeqSize - Window
    /\ \A i \in DOMAIN data[q] : tx[q].serial - data[q][i].serial < SeqSize - Window
    /\ \A i \in DOMAIN acks[q] : tx[q].serial - acks[q][i].serial < SeqSize - Window
Watch == synced' = [q \in Queues |-> synced[q] /\ InWindow(q)']

-----------------------------------------------------------------------------
(* check_tx_queues, on queues already changed to t, after notifications.   *)

Budget(t) ==
    {ok \in [Queues -> 0..MaxCmds] :
        \A q \in Queues : t[q].serial >= RefuseUntil => ok[q] = MaxCmds}

NextTimer(timeouts) ==
    IF timeouts \subseteq {Off} \/ 0 \in timeouts THEN Off ELSE Min(timeouts \ {Off})

CheckTxQueues(t, notes) ==
    \E ok \in Budget(t) :
        LET pass == [q \in Queues |-> CheckTxQueue(q, t[q], ok[q])]
        IN  /\ tx' = [q \in Queues |-> pass[q].queue]
            /\ data' = [q \in Queues |-> Put(data[q], pass[q].frames)]
            /\ done' = Notify(done, notes \cup UNION {pass[q].notes : q \in Queues})
            /\ timer' = NextTimer({pass[q].timeout : q \in Queues})

Init ==
    /\ tx = [q \in Queues |-> NewQueue(q)]
    /\ timer = Off
    /\ up = TRUE
    /\ sent = 0
    /\ done = [n \in Cmds |-> <<>>]
    /\ data = [q \in Queues |-> <<>>]
    /\ acks = [q \in Queues |-> <<>>]
    /\ recv = [q \in Queues |-> SeqSize - 1]
    /\ delivered = [q \in Queues |-> <<>>]
    /\ rserial = [q \in Queues |-> 0]
    /\ synced = [q \in Queues |-> TRUE]

(* arsdk_cmd_itf1_send: queue the command, then transmit what can be.      *)
Send(bt, kind) ==
    /\ up
    /\ sent < MaxCmds
    /\ sent' = sent + 1
    /\ \E q \in Queues :
        /\ IsTxQueue(q, bt)
        /\ LET added == QueueAdd(q, tx[q], sent + 1, kind)
           IN  CheckTxQueues([tx EXCEPT ![q] = added.queue], added.notes)
    /\ UNCHANGED <<up, acks, receiver>>
    /\ Watch

(* timer_cb: the one-shot timer has expired; it may be served late.        *)
TimerCb ==
    /\ timer = 0
    /\ CheckTxQueues(tx, {})
    /\ UNCHANGED <<up, sent, acks, receiver>>
    /\ Watch

(* Mutant: any acknowledgement is taken for the head's.                    *)
AcknowledgesAny(a, qu) == InFlight(qu)

(* recv_ack accepts only the number of the head in flight; every           *)
(* acknowledgement, stale or not, makes the queues be checked.             *)
Acknowledges(a, qu) == InFlight(qu) /\ Head(qu.entries).seq = a.seq

RecvAck(q, i, copy) ==
    /\ acks' = [acks EXCEPT ![q] = Taken(@, i, copy)]
    /\ IF ~up THEN UNCHANGED <<tx, data, done, timer>>
       ELSE IF Acknowledges(acks[q][i], tx[q])
       THEN CheckTxQueues([tx EXCEPT ![q] = QueuePop(@)],
                          {Note(Head(tx[q].entries).n, "ACK_RECEIVED")})
       ELSE CheckTxQueues(tx, {})
    /\ UNCHANGED <<up, sent, receiver>>
    /\ Watch

(* arsdk_cmd_itf1_stop: cancel whatever is queued; the timer is left alone. *)
Stop ==
    /\ up
    /\ up' = FALSE
    /\ done' = Notify(done, UNION {{Note(tx[q].entries[i].n, "CANCELED") :
                                      i \in DOMAIN tx[q].entries} : q \in Queues})
    /\ tx' = [q \in Queues |-> [tx[q] EXCEPT !.entries = <<>>]]
    /\ UNCHANGED <<timer, sent, data, acks, receiver>>
    /\ Watch

(* Mutant: the last number is taken as newer than itself.                  *)
ShouldProcessAgain(prev, seq) == seq - prev >= 0 \/ seq - prev < -Window

(* should_process_data: a number above the last one is newer, and one more *)
(* than Window below it comes from after the wrap.                         *)
ShouldProcess(prev, seq) == seq - prev > 0 \/ seq - prev < -Window

(* arsdk_cmd_itf1_recv_data at the other peer: acknowledge, filter, give   *)
(* to the application.                                                     *)
RecvData(q, i, copy) ==
    LET f == data[q][i]
    IN  /\ data' = [data EXCEPT ![q] = Taken(@, i, copy)]
        /\ acks' = [acks EXCEPT ![q] = IF WithAck(q) THEN Put(@, <<[f EXCEPT !.late = 0]>>) ELSE @]
        /\ IF ShouldProcess(recv[q], f.seq)
           THEN /\ recv' = [recv EXCEPT ![q] = f.seq]
                /\ rserial' = [rserial EXCEPT ![q] = f.serial]
                /\ delivered' = [delivered EXCEPT ![q] = Append(@, f.n)]
           ELSE UNCHANGED receiver
        /\ UNCHANGED <<tx, timer, up, sent, done>>
        /\ Watch

LoseData(q, i) ==
    /\ data' = [data EXCEPT ![q] = RemoveAt(@, i)]
    /\ UNCHANGED <<tx, timer, up, sent, done, acks, receiver, synced>>

LoseAck(q, i) ==
    /\ acks' = [acks EXCEPT ![q] = RemoveAt(@, i)]
    /\ UNCHANGED <<tx, timer, up, sent, done, data, receiver, synced>>

(* A millisecond passes.  An age that no comparison can tell from a larger *)
(* one stays where it is.                                                  *)
Older(age, limit) == IF age < limit THEN age + 1 ELSE age
AgedEntry(q, e) ==
    IF e.waiting THEN [e EXCEPT !.age = Older(@, Info[q].ackTimeout)] ELSE e
Aged(q, qu) ==
    [qu EXCEPT !.txAge = Older(@, Info[q].maxRate),
               !.entries = [i \in DOMAIN qu.entries |-> AgedEntry(q, qu.entries[i])]]
Tick ==
    /\ timer' = IF timer > 0 THEN timer - 1 ELSE timer
    /\ tx' = [q \in Queues |-> Aged(q, tx[q])]
    /\ UNCHANGED <<up, sent, done, data, acks, receiver, synced>>

Next ==
    \/ \E bt \in BufferTypes, kind \in Kinds : Send(bt, kind)
    \/ TimerCb
    \/ \E q \in Queues, copy \in BOOLEAN : \E i \in Arriving(acks[q]) : RecvAck(q, i, copy)
    \/ Stop
    \/ \E q \in Queues, copy \in BOOLEAN : \E i \in Arriving(data[q]) : RecvData(q, i, copy)
    \/ \E q \in Queues : \E i \in DOMAIN data[q] : LoseData(q, i)
    \/ \E q \in Queues : \E i \in DOMAIN acks[q] : LoseAck(q, i)
    \/ Tick

Spec == Init /\ [][Next]_vars
=============================================================================
