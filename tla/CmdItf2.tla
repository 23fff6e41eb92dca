------------------------------ MODULE CmdItf2 ------------------------------
(***************************************************************************)
(* The command interface of protocol version 2                            *)
(* (libarsdk/src/cmd_itf/arsdk_cmd_itf2.c): the transmit queues of one     *)
(* peer, the receiving side of the other peer and the link between them.   *)
(*                                                                         *)
(* A queue packs as many of its commands as fit into one payload of at     *)
(* most PackMax bytes, each behind its size on two; a command is never     *)
(* cut.  With acknowledgement, a pack is sent again as it is until it is   *)
(* acknowledged, whatever the queue got since; without, its commands are   *)
(* done once the socket took it.  A command larger than a pack stays at    *)
(* the head of its queue: the packs sent from then on are empty.           *)
(*                                                                         *)
(* Commands are named by the order they were sent in.  The link loses and  *)
(* duplicates datagrams, and keeps their order.                            *)
(***************************************************************************)
EXTENDS Integers, Sequences, SequencesExt, FiniteSetsExt

CONSTANTS
    Info,         \* Info[i]: what is used of the arsdk_cmd_queue_info of queue i
    Sizes,        \* sizes of commands
    PackMax,      \* ARSDK_PACK_MAX_SIZE
    SeqSize,      \* sequence numbers are counted modulo SeqSize (2^16)
    Window,       \* how far behind an old number may be (10)
    MaxCmds,      \* bound: commands the application sends
    MaxFlight,    \* bound: datagrams of one queue and direction in the network
    MaxRefused,   \* bound: packs the socket refuses
    MaxNumbers    \* bound: time stops once a queue has used this many numbers; only
                  \* one that a command too large blocks goes on beyond MaxCmds

Queues == 1..Len(Info)
Cmds == 1..MaxCmds
BufferTypes == {"NON_ACK", "ACK", "LOW_PRIO"}
FinalStatus == {"PACKED", "ACK_RECEIVED", "CANCELED"}
Off == -1

QueueInfo == [type : {"NOACK", "WITHACK"}, lowPrio : BOOLEAN, ackTimeout : Nat]

ASSUME InfoAssumption == Info \in Seq(QueueInfo)
ASSUME TimeoutAssumption ==
    \A i \in 1..Len(Info) : Info[i].type = "WITHACK" => Info[i].ackTimeout > 0
ASSUME SizeAssumption == Sizes \subseteq Nat \ {0} /\ PackMax \in Nat \ {0}
ASSUME SeqAssumption == SeqSize \in Nat /\ Window \in Nat /\ SeqSize > Window + 1
ASSUME BoundsAssumption ==
    /\ MaxCmds \in Nat /\ MaxFlight \in Nat /\ MaxRefused \in Nat
    /\ MaxNumbers \in Nat /\ MaxNumbers > MaxCmds

VARIABLES
    tx,          \* tx[q]: the sender's queue q
    timer,       \* ticks before the shared timer expires, or Off
    up,          \* self->transport is not NULL
    sent,        \* history: how many commands were accepted; the last one's name
    done,        \* history: done[n], the done notifications of command n
    refusals,    \* history: packs the socket refused
    data,        \* data[q]: packs of queue q in the network, oldest first
    acks,        \* acks[q]: acknowledgements of queue q in the network
    recv,        \* recv[q]: the receiver's recv_seq for queue q
    delivered,   \* history: the commands of q given to the peer's application
    rserial,     \* history: the serial number behind recv[q]
    synced       \* history: have numbers stayed unambiguous on queue q?

vars == <<tx, timer, up, sent, done, refusals, data, acks, recv, delivered, rserial,
          synced>>
receiver == <<recv, delivered, rserial>>

Command == [n : Cmds, size : Sizes]

(* buf is the payload of the pack, cmds its count of commands; refused is  *)
(* a ghost: the last pass ended at a refusal.                              *)
Pack == [buf : Seq(Command), cmds : Nat, waiting : BOOLEAN, age : Nat]
Queue == [entries : Seq(Command), seq : 0..(SeqSize - 1), pack : Pack,
          last : 0..(SeqSize - 1), serial : Nat, refused : BOOLEAN]
Datagram == [seq : 0..(SeqSize - 1), buf : Seq(Command), serial : Nat]

TypeOK ==
    /\ tx \in [Queues -> Queue]
    /\ timer \in Nat \cup {Off}
    /\ up \in BOOLEAN
    /\ sent \in 0..MaxCmds /\ refusals \in 0..MaxRefused
    /\ done \in [Cmds -> Seq(FinalStatus)]
    /\ data \in [Queues -> Seq(Datagram)]
    /\ acks \in [Queues -> Seq(Datagram)]
    /\ recv \in [Queues -> 0..(SeqSize - 1)]
    /\ delivered \in [Queues -> Seq(Cmds)]
    /\ rserial \in [Queues -> Nat]
    /\ synced \in [Queues -> BOOLEAN]

-----------------------------------------------------------------------------
(* Queues and packs *)

WithAck(q) == Info[q].type = "WITHACK"

(* Mutant: the number is wider than the 16 bits of the header.             *)
SeqnumWide(s) == s + 1

Seqnum(s) == (s + 1) % SeqSize

(* queue_new: rate limit, overwriting and retry count of the table are     *)
(* replaced by none, none and for ever.                                    *)
NewQueue ==
    [entries |-> <<>>, seq |-> SeqSize - 1, last |-> SeqSize - 1, serial |-> 0,
     pack |-> [buf |-> <<>>, cmds |-> 0, waiting |-> FALSE, age |-> 0],
     refused |-> FALSE]

Suitable(bt) ==
    {q \in Queues :
        \/ bt = "NON_ACK" /\ ~WithAck(q)
        \/ bt = "ACK" /\ WithAck(q) /\ ~Info[q].lowPrio
        \/ bt = "LOW_PRIO" /\ WithAck(q) /\ Info[q].lowPrio}
IsTxQueue(q, bt) == q \in Suitable(bt) /\ \A p \in Suitable(bt) : q <= p

(* A command that no pack can hold.  In a queue without acknowledgement it *)
(* would keep check_tx_queue in its loop for ever.                         *)
TooLarge(size) == size + 2 > PackMax

NamesOf(cmds) == {cmds[i].n : i \in DOMAIN cmds}
Notify(d, names, status) ==
    [n \in Cmds |-> IF n \in names THEN Append(d[n], status) ELSE d[n]]

(* pack_len after each of the entries.                                     *)
PackedLen(entries) ==
    LET len[i \in 0..Len(entries)] == IF i = 0 THEN 0 ELSE len[i - 1] + entries[i].size + 2
    IN  len

(* queue_pack_cmds: the entries, up to the first that does not fit.        *)
PackCmds(entries) ==
    SubSeq(entries, 1, Max({i \in 0..Len(entries) : PackedLen(entries)[i] <= PackMax}))

(* Mutant: a retry packs the commands that came since.                     *)
PackedAgain(qu) ==
    LET buf == PackCmds(qu.entries)
    IN  [qu EXCEPT !.seq = IF qu.pack.cmds = 0 THEN Seqnum(@) ELSE @,
                   !.serial = IF qu.pack.cmds = 0 THEN @ + 1 ELSE @,
                   !.pack.buf = buf, !.pack.cmds = Len(buf)]

(* If it is not a retry, take a number and pack new commands.              *)
Packed(qu) ==
    IF qu.pack.cmds # 0 THEN qu
    ELSE LET buf == PackCmds(qu.entries)
         IN  [qu EXCEPT !.seq = Seqnum(@), !.serial = @ + 1,
                        !.pack.buf = buf, !.pack.cmds = Len(buf)]

-----------------------------------------------------------------------------
(* check_tx_queue: what one pass over a queue does when the socket takes   *)
(* `ok' packs and refuses the next.                                        *)

(* PackedDone names the commands told PACKED for the last time.            *)
Pass(qu, frames, packedDone, timeout) ==
    [queue |-> qu, frames |-> frames, packedDone |-> packedDone, timeout |-> timeout]

AckPending(q, qu) == qu.pack.waiting /\ qu.pack.age < Info[q].ackTimeout
Expire(qu) == [qu EXCEPT !.pack.waiting = FALSE, !.pack.age = 0]
Frame(qu) == [seq |-> qu.seq, buf |-> qu.pack.buf, serial |-> qu.serial]
Refused(qu) == [qu EXCEPT !.refused = TRUE]

(* Mutants: the timeout is not accounted for; a command is told done once  *)
(* it is packed.                                                           *)
SendPackUnwatched(q, qu, ok) ==
    IF ok = 0 THEN Pass(Refused(qu), <<>>, {}, Off)
    ELSE Pass([qu EXCEPT !.pack.waiting = TRUE, !.refused = FALSE],
              <<Frame(qu)>>, {}, Off)
SendPackDone(q, qu, ok) ==
    IF ok = 0 THEN Pass(Refused(qu), <<>>, {}, Off)
    ELSE Pass([qu EXCEPT !.pack.waiting = TRUE, !.refused = FALSE],
              <<Frame(qu)>>, NamesOf(qu.pack.buf), Info[q].ackTimeout)

SendPack(q, qu, ok) ==
    IF ok = 0 THEN Pass(Refused(qu), <<>>, {}, Off)
    ELSE Pass([qu EXCEPT !.pack.waiting = TRUE, !.refused = FALSE],
              <<Frame(qu)>>, {}, Info[q].ackTimeout)

(* Without acknowledgement: the commands are told done and popped once the *)
(* pack is sent.                                                           *)
Flushed(qu) ==
    [qu EXCEPT !.entries = SubSeq(@, qu.pack.cmds + 1, Len(@)), !.refused = FALSE,
               !.pack.buf = <<>>, !.pack.cmds = 0]
FlushPack(before, ok) ==
    LET qu == Packed(before.queue)
    IN  IF ok = 0 THEN Pass(Refused(qu), before.frames, before.packedDone, Off)
        ELSE Pass(Flushed(qu), Append(before.frames, Frame(qu)),
                  before.packedDone \cup NamesOf(SubSeq(qu.entries, 1, qu.pack.cmds)), Off)

(* Pack after pack, as long as there are entries and the socket takes them.*)
SendPacks(qu, ok) ==
    LET burst[k \in 0..(MaxCmds + 1)] ==
          IF k = 0 THEN Pass(qu, <<>>, {}, Off)
          ELSE LET before == burst[k - 1]
               IN  IF before.queue.entries = <<>> \/ k > ok + 1 THEN before
                   ELSE FlushPack(before, ok + 1 - k)
    IN  burst[MaxCmds + 1]

CheckTxQueue(q, qu, ok) ==
    CASE qu.entries = <<>> -> Pass([qu EXCEPT !.refused = FALSE], <<>>, {}, Off)
      [] qu.entries # <<>> /\ AckPending(q, qu) ->
             Pass(qu, <<>>, {}, Info[q].ackTimeout - qu.pack.age)
      [] qu.entries # <<>> /\ ~AckPending(q, qu) /\ WithAck(q) ->
             SendPack(q, Packed(Expire(qu)), ok)
      [] OTHER -> SendPacks(qu, ok)

-----------------------------------------------------------------------------
(* The network, and the distance between the numbers it holds.             *)

Put(channel, frames) ==
    IF Len(channel) + Len(frames) <= MaxFlight THEN channel \o frames ELSE channel
Taken(channel, copy) == IF copy THEN channel ELSE Tail(channel)

InWindow(q) ==
    /\ tx[q].serial - rserial[q] < SeqSize - Window
    /\ \A i \in DOMAIN data[q] : tx[q].serial - data[q][i].serial < SeqSize - Window
    /\ \A i \in DOMAIN acks[q] : tx[q].serial - acks[q][i].serial < SeqSize - Window
Watch == synced' = [q \in Queues |-> synced[q] /\ InWindow(q)']

-----------------------------------------------------------------------------
(* What the socket takes: everything, or nothing more after some packs.    *)
Budgets == IF refusals < MaxRefused THEN [Queues -> 0..MaxCmds] ELSE [Queues -> {MaxCmds}]

NextTimer(timeouts) ==
    IF \A q \in Queues : timeouts[q] = Off THEN Off
    ELSE Min({timeouts[q] : q \in Queues} \ {Off})

(* check_tx_queues, over the queues t with d already told.                 *)
CheckTxQueues(t, d) ==
    \E ok \in Budgets :
        LET pass == [q \in Queues |-> CheckTxQueue(q, t[q], ok[q])]
            told == UNION {pass[q].packedDone : q \in Queues}
        IN  /\ tx' = [q \in Queues |-> pass[q].queue]
            /\ refusals' = refusals + (IF \E q \in Queues : pass[q].queue.refused THEN 1 ELSE 0)
            /\ data' = [q \in Queues |-> Put(data[q], pass[q].frames)]
            /\ done' = Notify(d, told, "PACKED")
            /\ timer' = NextTimer([q \in Queues |-> pass[q].timeout])

Init ==
    /\ tx = [q \in Queues |-> NewQueue]
    /\ timer = Off
    /\ up = TRUE
    /\ sent = 0 /\ refusals = 0
    /\ done = [n \in Cmds |-> <<>>]
    /\ data = [q \in Queues |-> <<>>]
    /\ acks = [q \in Queues |-> <<>>]
    /\ recv = [q \in Queues |-> SeqSize - 1]
    /\ delivered = [q \in Queues |-> <<>>]
    /\ rserial = [q \in Queues |-> 0]
    /\ synced = [q \in Queues |-> TRUE]

(* arsdk_cmd_itf2_send *)
Send(bt, size) ==
    /\ up
    /\ sent < MaxCmds
    /\ sent' = sent + 1
    /\ \E q \in Queues :
        /\ IsTxQueue(q, bt)
        /\ WithAck(q) \/ ~TooLarge(size)
        /\ CheckTxQueues([tx EXCEPT ![q].entries = Append(@, [n |-> sent + 1, size |-> size])],
                         done)
    /\ UNCHANGED <<up, acks, receiver>>
    /\ Watch

TimerCb ==
    /\ timer = 0
    /\ CheckTxQueues(tx, done)
    /\ UNCHANGED <<up, sent, acks, receiver>>
    /\ Watch

(* recv_ack: neither the last pack's, nor another number's.                *)
Acknowledges(a, qu) ==
    /\ a.seq # qu.last
    /\ a.seq = qu.seq
    /\ qu.pack.waiting
    /\ qu.entries # <<>>

(* The commands of the pack leave the queue; the pack is reset, but for    *)
(* waiting_ack and sent_ts.                                                *)
Acknowledged(qu) ==
    [qu EXCEPT !.entries = SubSeq(@, qu.pack.cmds + 1, Len(@)), !.last = qu.seq,
               !.pack.buf = <<>>, !.pack.cmds = 0]

RecvAck(q, copy) ==
    /\ acks[q] # <<>>
    /\ acks' = [acks EXCEPT ![q] = Taken(@, copy)]
    /\ IF ~up THEN UNCHANGED <<tx, data, done, refusals, timer>>
       ELSE IF Acknowledges(Head(acks[q]), tx[q])
       THEN CheckTxQueues([tx EXCEPT ![q] = Acknowledged(@)],
                          Notify(done, NamesOf(SubSeq(tx[q].entries, 1, tx[q].pack.cmds)),
                                 "ACK_RECEIVED"))
       ELSE CheckTxQueues(tx, done)
    /\ UNCHANGED <<up, sent, receiver>>
    /\ Watch

(* arsdk_cmd_itf2_stop: the entries are cancelled, the pack is left as is. *)
Stop ==
    /\ up
    /\ up' = FALSE
    /\ done' = Notify(done, UNION {NamesOf(tx[q].entries) : q \in Queues}, "CANCELED")
    /\ tx' = [q \in Queues |-> [tx[q] EXCEPT !.entries = <<>>]]
    /\ UNCHANGED <<timer, sent, refusals, data, acks, receiver>>
    /\ Watch

-----------------------------------------------------------------------------
(* The receiver *)

(* Mutant: a number is taken as newer than itself.                         *)
ShouldProcessAgain(prev, seq) == seq - prev >= 0 \/ seq - prev < -Window

ShouldProcess(prev, seq) == seq - prev > 0 \/ seq - prev < -Window

(* unpack_cmds: the commands of a payload; an empty one is an error.       *)
Unpack(buf) == [i \in DOMAIN buf |-> buf[i].n]

(* arsdk_cmd_itf2_recv_data at the other peer, send_ack.                   *)
RecvData(q, copy) ==
    /\ data[q] # <<>>
    /\ data' = [data EXCEPT ![q] = Taken(@, copy)]
    /\ LET f == Head(data[q])
       IN  /\ acks' = [acks EXCEPT ![q] =
                         IF WithAck(q) THEN Put(@, <<[f EXCEPT !.buf = <<>>]>>) ELSE @]
           /\ IF ShouldProcess(recv[q], f.seq)
              THEN /\ recv' = [recv EXCEPT ![q] = f.seq]
                   /\ rserial' = [rserial EXCEPT ![q] = f.serial]
                   /\ delivered' = [delivered EXCEPT ![q] = @ \o Unpack(f.buf)]
              ELSE UNCHANGED receiver
    /\ UNCHANGED <<tx, timer, up, sent, done, refusals>>
    /\ Watch

LoseData(q) ==
    /\ data[q] # <<>>
    /\ data' = [data EXCEPT ![q] = Tail(@)]
    /\ UNCHANGED <<tx, timer, up, sent, done, refusals, acks, receiver, synced>>

LoseAck(q) ==
    /\ acks[q] # <<>>
    /\ acks' = [acks EXCEPT ![q] = Tail(@)]
    /\ UNCHANGED <<tx, timer, up, sent, done, refusals, data, receiver, synced>>

Older(age, limit) == IF age < limit THEN age + 1 ELSE age
Tick ==
    /\ IF \A q \in Queues : tx[q].serial < MaxNumbers
       THEN /\ timer' = IF timer > 0 THEN timer - 1 ELSE timer
            /\ tx' = [q \in Queues |->
                        [tx[q] EXCEPT !.pack.age = IF tx[q].pack.waiting
                                                   THEN Older(@, Info[q].ackTimeout) ELSE @]]
       ELSE UNCHANGED <<tx, timer>>
    /\ UNCHANGED <<up, sent, done, refusals, data, acks, receiver, synced>>

Next ==
    \/ \E bt \in BufferTypes, size \in Sizes : Send(bt, size)
    \/ TimerCb
    \/ \E q \in Queues, copy \in BOOLEAN : RecvAck(q, copy) \/ RecvData(q, copy)
    \/ Stop
    \/ \E q \in Queues : LoseData(q) \/ LoseAck(q)
    \/ Tick

Spec == Init /\ [][Next]_vars
=============================================================================
