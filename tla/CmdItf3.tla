------------------------------ MODULE CmdItf3 ------------------------------
(***************************************************************************)
(* The command interface of protocol version 3                            *)
(* (libarsdk/src/cmd_itf/arsdk_cmd_itf3.c): the transmit queues of one     *)
(* peer, the receiving side of the other peer and the datagram link        *)
(* between them.                                                           *)
(*                                                                         *)
(* A queue packs its commands, each behind its size, into one payload of   *)
(* at most PackMax bytes.  With acknowledgement, a command that does not   *)
(* fit is cut and goes on in the next pack, and a pack is sent again until *)
(* it is acknowledged; without, it waits for a pack of its own.            *)
(*                                                                         *)
(* A command is named by the order it was sent in and has a size; the      *)
(* bytes of its payload are k = 1..size, and its encoded size, one byte    *)
(* here, is k = 0.  Time and the network are those of CmdItf1, on a link   *)
(* that keeps the order of datagrams.                                      *)
(***************************************************************************)
EXTENDS Integers, Sequences, SequencesExt, FiniteSetsExt

CONSTANTS
    Info,         \* Info[i]: the arsdk_cmd_queue_info of queue i
    Sizes,        \* sizes of commands
    PackMax,      \* ARSDK_PACK_MAX_SIZE
    SeqSize,      \* sequence numbers are counted modulo SeqSize (2^16)
    Window,       \* how far behind an old number may be (10)
    MaxCmds,      \* bound: commands the application sends
    MaxFlight,    \* bound: datagrams of one queue and direction in the network
    RefuseUntil   \* bound: the socket may refuse a datagram until a queue has
                  \* used this many numbers; 0 when it never does

Queues == 1..Len(Info)
Cmds == 1..MaxCmds
BufferTypes == {"NON_ACK", "ACK", "LOW_PRIO"}
FinalStatus == {"PACKED", "ACK_RECEIVED", "CANCELED"}
Off == -1

QueueInfo == [type : {"NOACK", "WITHACK"}, lowPrio : BOOLEAN, ackTimeout : Nat,
              maxRate : Nat]

ASSUME InfoAssumption == Info \in Seq(QueueInfo)
ASSUME TimeoutAssumption ==
    \A i \in 1..Len(Info) : Info[i].type = "WITHACK" => Info[i].ackTimeout > 0
ASSUME SizeAssumption == Sizes \subseteq Nat \ {0} /\ PackMax \in Nat \ {0}
ASSUME SeqAssumption == SeqSize \in Nat /\ Window \in Nat /\ SeqSize > Window + 1
ASSUME BoundsAssumption == MaxCmds \in Nat /\ MaxFlight \in Nat /\ RefuseUntil \in Nat

VARIABLES
    tx,          \* tx[q]: the sender's queue q
    timer,       \* milliseconds before the shared timer expires, or Off
    up,          \* self->transport is not NULL
    sent,        \* history: how many commands were accepted; the last one's name
    done,        \* history: done[n], the done notifications of command n
    data,        \* data[q]: packs of queue q in the network, oldest first
    acks,        \* acks[q]: acknowledgements of queue q in the network
    recv,        \* recv[q]: the receiver's recv_seq for queue q
    partial,     \* partial[q]: the receiver's partial_cmd_buf for queue q
    delivered,   \* history: the commands of q given to the peer's application
    rserial,     \* history: the serial number behind recv[q]
    synced       \* history: has the serial number lag stayed within the window?

vars == <<tx, timer, up, sent, done, data, acks, recv, partial, delivered,
          rserial, synced>>
receiver == <<recv, partial, delivered, rserial>>

Command == [n : Cmds, size : Sizes]
Byte == [n : Cmds, size : Sizes, k : Nat]
Pack == [bytes : Seq(Byte), cmds : Nat, remaining : Nat, waiting : BOOLEAN,
         age : Nat]
Queue == [entries : Seq(Command), seq : 0..(SeqSize - 1), txAge : Nat, pack : Pack,
          last : [seq : 0..(SeqSize - 1), remaining : Nat], serial : Nat]
Datagram == [seq : 0..(SeqSize - 1), bytes : Seq(Byte), serial : Nat]
Garbled == 0       \* stands for a command not made of one command's bytes
Partial == [need : Nat, got : Seq(Byte)]

TypeOK ==
    /\ tx \in [Queues -> Queue]
    /\ timer \in Nat \cup {Off}
    /\ up \in BOOLEAN
    /\ sent \in 0..MaxCmds
    /\ done \in [Cmds -> Seq(FinalStatus)]
    /\ data \in [Queues -> Seq(Datagram)]
    /\ acks \in [Queues -> Seq(Datagram)]
    /\ recv \in [Queues -> 0..(SeqSize - 1)]
    /\ partial \in [Queues -> Partial]
    /\ delivered \in [Queues -> Seq(Cmds \cup {Garbled})]
    /\ rserial \in [Queues -> Nat]
    /\ synced \in [Queues -> BOOLEAN]

-----------------------------------------------------------------------------
(* Queues and packs *)

WithAck(q) == Info[q].type = "WITHACK"

(* Mutant: the number is wider than the 16 bits of the header.             *)
SeqnumWide(s, k) == s + k

Seqnum(s, k) == (s + k) % SeqSize

NewPack == [bytes |-> <<>>, cmds |-> 0, remaining |-> 0, waiting |-> FALSE, age |-> 0]
NewQueue(q) ==
    [entries |-> <<>>, seq |-> SeqSize - 1, txAge |-> Info[q].maxRate, pack |-> NewPack,
     last |-> [seq |-> SeqSize - 1, remaining |-> 0], serial |-> 0]

Suitable(bt) ==
    {q \in Queues :
        \/ bt = "NON_ACK" /\ ~WithAck(q)
        \/ bt = "ACK" /\ WithAck(q) /\ ~Info[q].lowPrio
        \/ bt = "LOW_PRIO" /\ WithAck(q) /\ Info[q].lowPrio}
IsTxQueue(q, bt) == q \in Suitable(bt) /\ \A p \in Suitable(bt) : q <= p

(* A command of a queue without acknowledgement must fit in a pack: one    *)
(* that does not would keep check_tx_queue in its loop for ever.           *)
Fits(q, size) == WithAck(q) \/ size < PackMax

Note(c, status) == [n |-> c.n, status |-> status]
Notify(d, notes) ==
    [n \in Cmds |-> IF \E x \in notes : x.n = n
                    THEN Append(d[n], (CHOOSE x \in notes : x.n = n).status)
                    ELSE d[n]]
Notes(cmds, status) == {Note(cmds[i], status) : i \in DOMAIN cmds}

(* A command as it is sent: its size, then its payload.                    *)
Encoded(c) == [k \in 1..(c.size + 1) |-> [n |-> c.n, size |-> c.size, k |-> k - 1]]
Rest(c, len) == SubSeq(Encoded(c), c.size + 2 - len, c.size + 1)

(* What each entry still has to send: all of it, or what the last          *)
(* acknowledged pack has left of the first.                                *)
Chunks(qu) ==
    [i \in DOMAIN qu.entries |->
        IF i = 1 /\ qu.last.remaining # 0
        THEN Rest(qu.entries[1], qu.last.remaining)
        ELSE Encoded(qu.entries[i])]
First(qu, i) == FlattenSeq(SubSeq(Chunks(qu), 1, i))
Lead(bytes, len) == SubSeq(bytes, 1, Min({len, Len(bytes)}))

(* queue_pack_cmds with acknowledgement: fill the pack, cutting the last   *)
(* command; without: stop at the first command that does not fit, but its  *)
(* size may already be in the pack.                                        *)
PackWithAck(qu) ==
    LET bytes == Lead(First(qu, Len(qu.entries)), PackMax)
        count == Cardinality({b.n : b \in Range(bytes)})
    IN  [qu.pack EXCEPT !.bytes = bytes, !.cmds = count,
                        !.remaining = Len(First(qu, count)) - Len(bytes)]
PackNoAck(qu) ==
    LET count == Max({i \in 0..Len(qu.entries) : Len(First(qu, i)) <= PackMax})
        next  == IF count < Len(qu.entries)
                 THEN Lead(Encoded(qu.entries[count + 1]), 1) ELSE <<>>
    IN  [qu.pack EXCEPT !.bytes = Lead(First(qu, count) \o next, PackMax),
                        !.cmds = count]

(* If it is not a retry, take a number and pack new commands.              *)
Packed(q, qu) ==
    IF qu.pack.cmds # 0 THEN qu
    ELSE [qu EXCEPT !.seq = Seqnum(@, 1), !.serial = @ + 1,
                    !.pack = IF WithAck(q) THEN PackWithAck(qu) ELSE PackNoAck(qu)]

PackedCmds(qu) == SubSeq(qu.entries, 1, qu.pack.cmds)

-----------------------------------------------------------------------------
(* check_tx_queue: what one pass over queue q does when the socket takes   *)
(* `ok' packs and refuses the next.                                        *)

Pass(qu, frames, notes, timeout) ==
    [queue |-> qu, frames |-> frames, notes |-> notes, timeout |-> timeout]

AckPending(q, qu) == qu.pack.waiting /\ qu.pack.age < Info[q].ackTimeout
Expire(qu) == [qu EXCEPT !.pack.waiting = FALSE, !.pack.age = 0]
Frame(qu) == [seq |-> qu.seq, bytes |-> qu.pack.bytes, serial |-> qu.serial]

(* Mutant: the acknowledgement timeout is not accounted for.               *)
SendPackUnwatched(q, qu, ok) ==
    LET packed == Packed(q, qu)
    IN  IF ok = 0
        THEN Pass(packed, <<>>, {}, Off)
        ELSE Pass([packed EXCEPT !.txAge = 0, !.pack.waiting = TRUE, !.pack.age = 0],
                  <<Frame(packed)>>, {}, Off)

(* Mutant: a packed command is done, as without acknowledgement.           *)
SendPackDone(q, qu, ok) ==
    LET packed == Packed(q, qu)
        notes  == Notes(SubSeq(packed.entries, 1, packed.pack.cmds), "PACKED")
    IN  IF ok = 0
        THEN Pass(packed, <<>>, notes, Off)
        ELSE Pass([packed EXCEPT !.txAge = 0, !.pack.waiting = TRUE, !.pack.age = 0],
                  <<Frame(packed)>>, notes, Info[q].ackTimeout)

SendPack(q, qu, ok) ==
    LET packed == Packed(q, qu)
    IN  IF ok = 0
        THEN Pass(packed, <<>>, {}, Off)
        ELSE Pass([packed EXCEPT !.txAge = 0, !.pack.waiting = TRUE, !.pack.age = 0],
                  <<Frame(packed)>>, {}, Info[q].ackTimeout)

(* Without acknowledgement: the commands are done when they are packed,    *)
(* and popped when the pack is sent.                                       *)
Flushed(qu) ==
    [qu EXCEPT !.txAge = 0,
               !.entries = SubSeq(@, qu.pack.cmds + 1, Len(@)),
               !.pack.bytes = <<>>, !.pack.cmds = 0]
FlushPack(q, pass, ok) ==
    LET packed == Packed(q, pass.queue)
        notes  == IF pass.queue.pack.cmds = 0
                  THEN Notes(PackedCmds(packed), "PACKED") ELSE {}
    IN  IF ok = 0
        THEN Pass(packed, pass.frames, pass.notes \cup notes, Off)
        ELSE Pass(Flushed(packed), Append(pass.frames, Frame(packed)),
                  pass.notes \cup notes,
                  IF Info[q].maxRate > 0 THEN Info[q].maxRate ELSE Off)

(* Pack after pack, as long as there are entries, the socket takes them    *)
(* and the rate is not limited.                                            *)
SendPacks(q, qu, ok) ==
    LET burst[k \in 0..MaxCmds] ==
          IF k = 0 THEN Pass(qu, <<>>, {}, Off)
          ELSE LET before == burst[k - 1]
               IN  IF \/ before.queue.entries = <<>>
                      \/ k > ok + 1
                      \/ k > 1 /\ Info[q].maxRate > 0
                   THEN before
                   ELSE FlushPack(q, before, ok + 1 - k)
        last == burst[MaxCmds]
    IN  IF last.queue.entries = <<>> THEN [last EXCEPT !.timeout = Off] ELSE last

(* Mutant: the rate limit asks for the elapsed time, as in version 1.      *)
SendLaterElapsed(q, qu) == Pass(qu, <<>>, {}, qu.txAge)

SendLater(q, qu) == Pass(qu, <<>>, {}, Info[q].maxRate - qu.txAge)

TooSoon(q, qu) == qu.txAge < Info[q].maxRate

CheckTxQueue(q, qu, ok) ==
    LET expired == Expire(qu)
    IN  CASE qu.entries = <<>>   -> Pass(qu, <<>>, {}, Off)
          [] qu.entries # <<>> /\ AckPending(q, qu)
                 -> Pass(qu, <<>>, {}, Info[q].ackTimeout - qu.pack.age)
          [] qu.entries # <<>> /\ ~AckPending(q, qu) /\ TooSoon(q, qu)
                 -> SendLater(q, expired)
          [] qu.entries # <<>> /\ ~AckPending(q, qu) /\ ~TooSoon(q, qu) /\ WithAck(q)
                 -> SendPack(q, expired, ok)
          [] OTHER -> SendPacks(q, expired, ok)

-----------------------------------------------------------------------------
(* The network, and the distance between the numbers it holds.             *)

Put(channel, frames) ==
    IF Len(channel) + Len(frames) <= MaxFlight THEN channel \o frames ELSE channel
Taken(channel, copy) == IF copy THEN channel ELSE Tail(channel)

InWindow(q) ==
    /\ tx[q].serial - rserial[q] < SeqSize - Window
    /\ \A i \in DOMAIN data[q] : tx[q].serial - data[q][i].serial < SeqSize - Window
    /\ \A i \in DOMAIN acks[q] : tx[q].serial - acks[q][i].serial < SeqSize - Window
Watch == synced' = [q \in Queues |-> synced[q] /\ InWindow(q)']

-----------------------------------------------------------------------------
Budget(t) ==
    {ok \in [Queues -> 0..MaxCmds] :
        \A q \in Queues : t[q].serial >= RefuseUntil => ok[q] = MaxCmds}

NextTimer(timeouts) ==
    IF timeouts \subseteq {Off} \/ 0 \in timeouts THEN Off ELSE Min(timeouts \ {Off})

(* What a check of all the queues t can do, depending on the socket.       *)
Passes(t) == {[q \in Queues |-> CheckTxQueue(q, t[q], ok[q])] : ok \in Budget(t)}

CheckTxQueues(t, notes) ==
    \E pass \in Passes(t) :
        /\ tx' = [q \in Queues |-> pass[q].queue]
        /\ data' = [q \in Queues |-> Put(data[q], pass[q].frames)]
        /\ done' = Notify(Notify(done, notes), UNION {pass[q].notes : q \in Queues})
        /\ timer' = NextTimer({pass[q].timeout : q \in Queues})

Init ==
    /\ tx = [q \in Queues |-> NewQueue(q)]
    /\ timer = Off
    /\ up = TRUE
    /\ sent = 0
    /\ done = [n \in Cmds |-> <<>>]
    /\ data = [q \in Queues |-> <<>>]
    /\ acks = [q \in Queues |-> <<>>]
    /\ recv = [q \in Queues |-> SeqSize - 1]
    /\ partial = [q \in Queues |-> [need |-> 0, got |-> <<>>]]
    /\ delivered = [q \in Queues |-> <<>>]
    /\ rserial = [q \in Queues |-> 0]
    /\ synced = [q \in Queues |-> TRUE]

(* arsdk_cmd_itf3_send *)
Send(bt, size) ==
    /\ up
    /\ sent < MaxCmds
    /\ sent' = sent + 1
    /\ \E q \in Queues :
        /\ IsTxQueue(q, bt)
        /\ Fits(q, size)
        /\ CheckTxQueues([tx EXCEPT ![q].entries = Append(@, [n |-> sent + 1, size |-> size])],
                         {})
    /\ UNCHANGED <<up, acks, receiver>>
    /\ Watch

TimerCb ==
    /\ timer = 0
    /\ CheckTxQueues(tx, {})
    /\ UNCHANGED <<up, sent, acks, receiver>>
    /\ Watch

(* Mutant: a command partially sent is taken for sent.                     *)
SentWholeAll(qu) == qu.pack.cmds

(* How many commands the pack completes.                                   *)
SentWhole(qu) == IF qu.pack.remaining = 0 THEN qu.pack.cmds ELSE qu.pack.cmds - 1

(* recv_ack: neither the last pack's, nor another number's.                *)
Acknowledges(a, qu) ==
    /\ a.seq # qu.last.seq
    /\ a.seq = qu.seq
    /\ qu.pack.waiting
    /\ qu.entries # <<>>

(* Mutant: what is left of a command partially sent is forgotten.          *)
AcknowledgedWhole(qu) ==
    [qu EXCEPT !.entries = SubSeq(@, SentWhole(qu) + 1, Len(@)),
               !.last = [seq |-> qu.seq, remaining |-> 0],
               !.pack.bytes = <<>>, !.pack.cmds = 0, !.pack.remaining = 0]

(* The pack is reset, but for waiting_ack and sent_ts.                     *)
Acknowledged(qu) ==
    [qu EXCEPT !.entries = SubSeq(@, SentWhole(qu) + 1, Len(@)),
               !.last = [seq |-> qu.seq, remaining |-> qu.pack.remaining],
               !.pack.bytes = <<>>, !.pack.cmds = 0, !.pack.remaining = 0]

RecvAck(q, copy) ==
    /\ acks[q] # <<>>
    /\ acks' = [acks EXCEPT ![q] = Taken(@, copy)]
    /\ IF ~up THEN UNCHANGED <<tx, data, done, timer>>
       ELSE IF Acknowledges(Head(acks[q]), tx[q])
       THEN CheckTxQueues([tx EXCEPT ![q] = Acknowledged(@)],
                          Notes(SubSeq(tx[q].entries, 1, SentWhole(tx[q])), "ACK_RECEIVED"))
       ELSE CheckTxQueues(tx, {})
    /\ UNCHANGED <<up, sent, receiver>>
    /\ Watch

(* arsdk_cmd_itf3_stop: the entries are cancelled, the pack is left as is. *)
Stop ==
    /\ up
    /\ up' = FALSE
    /\ done' = Notify(done, UNION {Notes(tx[q].entries, "CANCELED") : q \in Queues})
    /\ tx' = [q \in Queues |-> [tx[q] EXCEPT !.entries = <<>>]]
    /\ UNCHANGED <<timer, sent, data, acks, receiver>>
    /\ Watch

-----------------------------------------------------------------------------
(* The receiver *)

ShouldProcess(prev, seq) == seq - prev > 0 \/ seq - prev < -Window

(* The command a buffer holds, if it is the payload of one.                *)
Decoded(buf) ==
    IF \A i \in DOMAIN buf : buf[i].n = buf[1].n /\ buf[i].k = i
    THEN buf[1].n ELSE Garbled

(* unpack_cmds, a byte at a time.  out: the commands given to the          *)
(* application.  A size read from anything but a size is not followed.     *)
Idle(st) == st.need = 0
UnpackByte(st, b) ==
    CASE st.lost              -> st
      [] ~st.lost /\ Idle(st) /\ b.k = 0 -> [st EXCEPT !.need = b.size]
      [] ~st.lost /\ Idle(st) /\ b.k # 0 -> [st EXCEPT !.lost = TRUE,
                                                       !.out = Append(@, Garbled)]
      [] ~st.lost /\ st.need = 1 -> [st EXCEPT !.need = 0, !.got = <<>>,
                                         !.out = Append(@, Decoded(Append(st.got, b)))]
      [] OTHER -> [st EXCEPT !.need = @ - 1, !.got = Append(@, b)]
Unpack(from, bytes) ==
    FoldLeft(UnpackByte, [need |-> from.need, got |-> from.got, lost |-> FALSE,
                          out |-> <<>>], bytes)

(* A cut command is kept for the next pack of an acknowledged queue only.  *)
Kept(q, st) ==
    IF WithAck(q) /\ ~st.lost THEN [need |-> st.need, got |-> st.got]
    ELSE [need |-> 0, got |-> <<>>]

(* arsdk_cmd_itf3_recv_data at the other peer.                             *)
RecvData(q, copy) ==
    /\ data[q] # <<>>
    /\ data' = [data EXCEPT ![q] = Taken(@, copy)]
    /\ LET f  == Head(data[q])
           st == Unpack(partial[q], f.bytes)
       IN  /\ acks' = [acks EXCEPT ![q] =
                         IF WithAck(q) THEN Put(@, <<[f EXCEPT !.bytes = <<>>]>>) ELSE @]
           /\ IF ShouldProcess(recv[q], f.seq)
              THEN /\ recv' = [recv EXCEPT ![q] = f.seq]
                   /\ rserial' = [rserial EXCEPT ![q] = f.serial]
                   /\ partial' = [partial EXCEPT ![q] = Kept(q, st)]
                   /\ delivered' = [delivered EXCEPT ![q] = @ \o st.out]
              ELSE UNCHANGED receiver
    /\ UNCHANGED <<tx, timer, up, sent, done>>
    /\ Watch

LoseData(q) ==
    /\ data[q] # <<>>
    /\ data' = [data EXCEPT ![q] = Tail(@)]
    /\ UNCHANGED <<tx, timer, up, sent, done, acks, receiver, synced>>

LoseAck(q) ==
    /\ acks[q] # <<>>
    /\ acks' = [acks EXCEPT ![q] = Tail(@)]
    /\ UNCHANGED <<tx, timer, up, sent, done, data, receiver, synced>>

Older(age, limit) == IF age < limit THEN age + 1 ELSE age
Tick ==
    /\ timer' = IF timer > 0 THEN timer - 1 ELSE timer
    /\ tx' = [q \in Queues |->
                [tx[q] EXCEPT !.txAge = Older(@, Info[q].maxRate),
                              !.pack.age = IF tx[q].pack.waiting
                                           THEN Older(@, Info[q].ackTimeout) ELSE @]]
    /\ UNCHANGED <<up, sent, done, data, acks, receiver, synced>>

Next ==
    \/ \E bt \in BufferTypes, size \in Sizes : Send(bt, size)
    \/ TimerCb
    \/ \E q \in Queues, copy \in BOOLEAN : RecvAck(q, copy) \/ RecvData(q, copy)
    \/ Stop
    \/ \E q \in Queues : LoseData(q) \/ LoseAck(q)
    \/ Tick

Spec == Init /\ [][Next]_vars
=============================================================================
