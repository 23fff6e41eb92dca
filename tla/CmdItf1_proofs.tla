-------------------------- MODULE CmdItf1_proofs --------------------------
(***************************************************************************)
(* Theorems about CmdItf1, for every table of queues, every width of the   *)
(* sequence numbers and every bound.                                       *)
(***************************************************************************)
EXTENDS CmdItf1Props, TLAPS, SequenceTheorems, FiniteSetTheorems, WellFoundedInduction

Notes == [n : Cmds, status : FinalStatus]
PassResult == [queue : Queue, frames : Seq(Datagram), notes : SUBSET Notes,
               timeout : Nat \cup {Off}]

(***************************************************************************)
(* Types of the operators                                                  *)
(***************************************************************************)

LEMMA SeqnumType ==
  ASSUME NEW s \in Nat, NEW k \in Nat
  PROVE  Seqnum(s, k) \in 0..(SeqSize - 1)
  BY SeqAssumption DEF Seqnum

LEMMA QueueInfoType ==
  ASSUME NEW q \in Queues
  PROVE  /\ Info[q] \in QueueInfo
         /\ Info[q].ackTimeout \in Nat /\ Info[q].maxRate \in Nat
         /\ Info[q].overwrite \in BOOLEAN
<1>1. Info[q] \in QueueInfo
  BY InfoAssumption, ElementOfSeq DEF Queues
<1>. QED  BY <1>1 DEF QueueInfo

LEMMA QueueType ==
  ASSUME NEW qu \in Queue
  PROVE  /\ qu.entries \in Seq(Entry) /\ qu.seq \in 0..(SeqSize - 1)
         /\ qu.txAge \in Nat /\ qu.serial \in Nat
         /\ qu.entries # <<>> => /\ Head(qu.entries) \in Entry
                                 /\ Head(qu.entries) = qu.entries[1]
                                 /\ 1 \in DOMAIN qu.entries
         /\ DOMAIN qu.entries = 1..Len(qu.entries) /\ Len(qu.entries) \in Nat
         /\ \A i \in DOMAIN qu.entries : qu.entries[i] \in Entry
  BY DEF Queue

LEMMA NewEntryType ==
  ASSUME NEW n \in Cmds, NEW kind \in Kinds
  PROVE  NewEntry(n, kind) \in Entry
  BY SeqAssumption, BoundsAssumption DEF NewEntry, Entry

LEMMA QueuePopType ==
  ASSUME NEW qu \in Queue, qu.entries # <<>>
  PROVE  /\ QueuePop(qu) \in Queue
         /\ QueuePop(qu).entries = Tail(qu.entries)
  BY HeadTailProperties DEF QueuePop, Queue

LEMMA RetriedType ==
  ASSUME NEW e \in Entry
  PROVE  /\ Retried(e) \in Entry
         /\ Retried(e).n = e.n /\ Retried(e).waiting = FALSE
         /\ Retried(e).retry > 0
<1>. DEFINE r == IF e.retry < RetryCap THEN e.retry + 1 ELSE e.retry
<1>1. r \in 0..RetryCap /\ r > 0
  BY BoundsAssumption DEF Entry
<1>2. Retried(e) = [e EXCEPT !.waiting = FALSE, !.age = 0, !.retry = r]
  BY DEF Retried
<1>3. \A x \in 0..RetryCap :
         LET f == [e EXCEPT !.waiting = FALSE, !.age = 0, !.retry = x]
         IN  f \in Entry /\ f.n = e.n /\ f.waiting = FALSE /\ f.retry = x
  BY DEF Entry
<1>. HIDE DEF r
<1>. QED  BY <1>1, <1>2, <1>3

LEMMA ReplaceEntry ==
  ASSUME NEW qu \in Queue, NEW i \in DOMAIN qu.entries, NEW e \in Entry
  PROVE  LET new == [qu EXCEPT !.entries[i] = e]
         IN  /\ new \in Queue
             /\ DOMAIN new.entries = DOMAIN qu.entries
             /\ Len(new.entries) = Len(qu.entries)
             /\ \A j \in DOMAIN qu.entries :
                   new.entries[j] = IF j = i THEN e ELSE qu.entries[j]
  BY ExceptSeq DEF Queue

LEMMA ExpireType ==
  ASSUME NEW q \in Queues, NEW qu \in Queue
  PROVE  /\ Expire(q, qu) \in Queue
         /\ ExpireNotes(q, qu) \in SUBSET Notes
<1>1. CASE ~InFlight(qu)
  BY <1>1 DEF Expire, ExpireNotes
<1>2. CASE InFlight(qu) /\ GivesUp(q, Head(qu.entries))
  <2>1. /\ qu.entries # <<>>
        /\ Expire(q, qu) = QueuePop(qu)
        /\ ExpireNotes(q, qu) = {Note(Head(qu.entries).n, "TIMEOUT")}
    BY <1>2 DEF Expire, ExpireNotes, InFlight
  <2>2. Expire(q, qu) \in Queue /\ Expire(q, qu).entries = Tail(qu.entries)
    BY <2>1, QueuePopType
  <2>3. ExpireNotes(q, qu) \in SUBSET Notes
    BY <2>1, QueueType DEF Notes, Note, FinalStatus, Entry
  <2>. QED  BY <2>2, <2>3
<1>3. CASE InFlight(qu) /\ ~GivesUp(q, Head(qu.entries))
  <2>1. /\ qu.entries # <<>> /\ 1 \in DOMAIN qu.entries
        /\ qu.entries[1] \in Entry
        /\ Expire(q, qu) = [qu EXCEPT !.entries[1] = Retried(qu.entries[1])]
        /\ ExpireNotes(q, qu) = {}
    BY <1>3, QueueType DEF Expire, ExpireNotes, InFlight
  <2>2. Retried(qu.entries[1]) \in Entry
    BY <2>1, RetriedType
  <2>3. [qu EXCEPT !.entries[1] = Retried(qu.entries[1])] \in Queue
    BY <2>1, <2>2, ReplaceEntry
  <2>. QED  BY <2>1, <2>3
<1>. QED  BY <1>1, <1>2, <1>3

LEMMA NumberedType ==
  ASSUME NEW qu \in Queue, qu.entries # <<>>
  PROVE  /\ Numbered(qu) \in Queue
         /\ Numbered(qu).entries = qu.entries
<1>1. qu.seq \in Nat /\ qu.serial \in Nat
  BY QueueType, SeqAssumption
<1>2. Seqnum(qu.seq, 1) \in 0..(SeqSize - 1)
  BY <1>1, SeqnumType
<1>3. qu.serial + 1 \in Nat
  BY <1>1
<1>. QED  BY <1>2, <1>3 DEF Numbered, Queue

LEMMA FrameType ==
  ASSUME NEW qu \in Queue, NEW i \in DOMAIN qu.entries, NEW k \in Nat
  PROVE  Frame(qu, i, k) \in Datagram
<1>1. qu.seq \in Nat /\ qu.serial \in Nat
  BY QueueType, SeqAssumption
<1>2. Seqnum(qu.seq, k) \in 0..(SeqSize - 1)
  BY <1>1, SeqnumType
<1>3. qu.serial + k \in Nat
  BY <1>1
<1>4. qu.entries[i].n \in Cmds
  BY QueueType DEF Entry
<1>. QED  BY <1>2, <1>3, <1>4 DEF Frame, Datagram

(***************************************************************************)
(* Names of commands: a pass over a queue neither invents, loses nor       *)
(* doubles any.                                                            *)
(***************************************************************************)

Names(qu) == {qu.entries[i].n : i \in DOMAIN qu.entries}
Noted(notes) == {x.n : x \in notes}
Distinct(qu) ==
    \A i, j \in DOMAIN qu.entries : qu.entries[i].n = qu.entries[j].n => i = j
Accounts(qu, queue, notes) ==
    /\ Names(queue) \cup Noted(notes) = Names(qu)
    /\ Distinct(qu) => Distinct(queue) /\ Names(queue) \cap Noted(notes) = {}

LEMMA SameNames ==
  ASSUME NEW qu \in Queue, NEW new \in Queue,
         DOMAIN new.entries = DOMAIN qu.entries,
         \A j \in DOMAIN qu.entries : new.entries[j].n = qu.entries[j].n
  PROVE  /\ Accounts(qu, new, {}) /\ Names(new) = Names(qu)
         /\ Distinct(qu) => Distinct(new)
  BY DEF Accounts, Names, Noted, Distinct

LEMMA PopNames ==
  ASSUME NEW qu \in Queue, qu.entries # <<>>, NEW status
  PROVE  Accounts(qu, QueuePop(qu), {Note(Head(qu.entries).n, status)})
<1>1. /\ QueuePop(qu).entries = Tail(qu.entries)
      /\ QueuePop(qu).entries \in Seq(Entry)
  BY QueuePopType, QueueType
<1>2. /\ Len(qu.entries) \in Nat /\ Len(qu.entries) >= 1
      /\ DOMAIN qu.entries = 1..Len(qu.entries)
      /\ DOMAIN QueuePop(qu).entries = 1..(Len(qu.entries) - 1)
      /\ \A i \in 1..(Len(qu.entries) - 1) : QueuePop(qu).entries[i] = qu.entries[i + 1]
      /\ Head(qu.entries) = qu.entries[1]
  BY <1>1, QueueType, HeadTailProperties, LenProperties, EmptySeq
<1>3. Noted({Note(Head(qu.entries).n, status)}) = {qu.entries[1].n}
  BY <1>2 DEF Noted, Note
<1>4. ASSUME NEW x
      PROVE  x \in Names(QueuePop(qu)) <=> \E i \in 2..Len(qu.entries) : x = qu.entries[i].n
  <2>1. ASSUME NEW i \in 2..Len(qu.entries), x = qu.entries[i].n
        PROVE  x \in Names(QueuePop(qu))
    <3>1. i - 1 \in 1..(Len(qu.entries) - 1) /\ (i - 1) + 1 = i
      BY <1>2
    <3>2. i - 1 \in DOMAIN QueuePop(qu).entries /\ QueuePop(qu).entries[i - 1].n = x
      BY <3>1, <2>1, <1>2
    <3>. QED  BY <3>2 DEF Names
  <2>2. ASSUME NEW i \in DOMAIN QueuePop(qu).entries, x = QueuePop(qu).entries[i].n
        PROVE  \E j \in 2..Len(qu.entries) : x = qu.entries[j].n
    <3>1. i + 1 \in 2..Len(qu.entries) /\ x = qu.entries[i + 1].n
      BY <2>2, <1>2
    <3>. QED  BY <3>1
  <2>. QED  BY <2>1, <2>2 DEF Names
<1>5. ASSUME NEW x
      PROVE  x \in Names(qu) <=> x \in Names(QueuePop(qu)) \/ x = qu.entries[1].n
  <2>1. x \in Names(qu) <=> \E i \in 1..Len(qu.entries) : x = qu.entries[i].n
    BY <1>2 DEF Names
  <2>2. ASSUME NEW i \in 1..Len(qu.entries)
        PROVE  i = 1 \/ i \in 2..Len(qu.entries)
    BY <1>2
  <2>. QED  BY <2>1, <2>2, <1>4, <1>2
<1>6. ASSUME Distinct(qu)
      PROVE  Distinct(QueuePop(qu)) /\ qu.entries[1].n \notin Names(QueuePop(qu))
  <2>1. Distinct(QueuePop(qu))
    <3>1. SUFFICES ASSUME NEW i \in 1..(Len(qu.entries) - 1), NEW j \in 1..(Len(qu.entries) - 1),
                          qu.entries[i + 1].n = qu.entries[j + 1].n
                   PROVE  i = j
      BY <1>2 DEF Distinct
    <3>2. i + 1 \in DOMAIN qu.entries /\ j + 1 \in DOMAIN qu.entries
      BY <1>2
    <3>3. i + 1 = j + 1
      BY <3>1, <3>2, <1>6 DEF Distinct
    <3>. QED  BY <3>3
  <2>2. ASSUME NEW i \in 2..Len(qu.entries)
        PROVE  qu.entries[1].n # qu.entries[i].n
    <3>1. i \in DOMAIN qu.entries /\ 1 \in DOMAIN qu.entries /\ i # 1
      BY <1>2
    <3>. QED  BY <3>1, <1>6 DEF Distinct
  <2>. QED  BY <2>1, <2>2, <1>4
<1>. QED  BY <1>3, <1>5, <1>6 DEF Accounts

LEMMA ExpireNames ==
  ASSUME NEW q \in Queues, NEW qu \in Queue
  PROVE  Accounts(qu, Expire(q, qu), ExpireNotes(q, qu))
<1>1. CASE ~InFlight(qu)
  <2>1. Accounts(qu, qu, {})
    BY SameNames
  <2>. QED  BY <1>1, <2>1 DEF Expire, ExpireNotes
<1>2. CASE InFlight(qu) /\ GivesUp(q, Head(qu.entries))
  BY <1>2, PopNames DEF Expire, ExpireNotes, InFlight
<1>3. CASE InFlight(qu) /\ ~GivesUp(q, Head(qu.entries))
  <2>1. /\ 1 \in DOMAIN qu.entries /\ qu.entries[1] \in Entry
        /\ Expire(q, qu) = [qu EXCEPT !.entries[1] = Retried(qu.entries[1])]
        /\ ExpireNotes(q, qu) = {}
    BY <1>3, QueueType DEF Expire, ExpireNotes, InFlight
  <2>2. Retried(qu.entries[1]) \in Entry /\ Retried(qu.entries[1]).n = qu.entries[1].n
    BY <2>1, RetriedType
  <2>3. /\ Expire(q, qu) \in Queue
        /\ DOMAIN Expire(q, qu).entries = DOMAIN qu.entries
        /\ \A j \in DOMAIN qu.entries : Expire(q, qu).entries[j].n = qu.entries[j].n
    BY <2>1, <2>2, ReplaceEntry
  <2>. QED  BY <2>1, <2>3, SameNames
<1>. QED  BY <1>1, <1>2, <1>3

(***************************************************************************)
(* A pass of check_tx_queue                                                *)
(***************************************************************************)

Sound(qu, pass) == pass \in PassResult /\ Accounts(qu, pass.queue, pass.notes)

LEMMA IdlePass ==
  ASSUME NEW qu \in Queue, NEW timeout \in Nat \cup {Off}
  PROVE  Sound(qu, Pass(qu, <<>>, {}, timeout))
<1>1. Accounts(qu, qu, {})
  BY SameNames
<1>2. <<>> \in Seq(Datagram)
  OBVIOUS
<1>. QED  BY <1>1, <1>2 DEF Sound, Pass, PassResult

LEMMA TransmitHeadSound ==
  ASSUME NEW q \in Queues, NEW qu \in Queue, qu.entries # <<>>, NEW ok \in 0..MaxCmds
  PROVE  Sound(qu, TransmitHead(q, qu, ok))
<1>. DEFINE num == Numbered(qu)
            new == [num.entries[1] EXCEPT !.seq = num.seq, !.waiting = TRUE, !.age = 0]
            out == [num EXCEPT !.txAge = 0, !.entries[1] = new]
<1>1. /\ num \in Queue /\ num.entries = qu.entries /\ num.entries # <<>>
      /\ num.seq \in 0..(SeqSize - 1)
      /\ DOMAIN num.entries = DOMAIN qu.entries
      /\ 1 \in DOMAIN num.entries /\ num.entries[1] \in Entry
  BY NumberedType, QueueType
<1>2. Accounts(qu, num, {})
  BY <1>1, SameNames
<1>. HIDE DEF num
<1>3. CASE ok = 0
  <2>1. Sound(qu, Pass(num, <<>>, {}, Off))
    BY <1>1, <1>2 DEF Sound, Pass, PassResult, Off
  <2>. QED  BY <2>1, <1>3 DEF TransmitHead, num
<1>4. CASE ok # 0
  <2>1. new \in Entry /\ new.n = num.entries[1].n
    BY <1>1 DEF Entry
  <2>. HIDE DEF new
  <2>2. /\ out \in Queue
        /\ DOMAIN out.entries = DOMAIN qu.entries
        /\ \A j \in DOMAIN qu.entries : out.entries[j].n = qu.entries[j].n
    <3>. DEFINE base == [num EXCEPT !.txAge = 0]
    <3>1. base \in Queue /\ base.entries = num.entries
      BY <1>1 DEF Queue
    <3>2. out = [base EXCEPT !.entries[1] = new]
      OBVIOUS
    <3>. HIDE DEF out, base
    <3>3. 1 \in DOMAIN base.entries
      BY <1>1, <3>1
    <3>4. /\ out \in Queue
          /\ DOMAIN out.entries = DOMAIN base.entries
          /\ \A j \in DOMAIN base.entries :
                out.entries[j] = IF j = 1 THEN new ELSE base.entries[j]
      BY <2>1, <3>1, <3>2, <3>3, ReplaceEntry
    <3>. QED  BY <1>1, <2>1, <3>1, <3>4
  <2>3. Accounts(qu, out, {})
    BY <2>2, SameNames
  <2>4. <<Frame(num, 1, 0)>> \in Seq(Datagram)
    <3>1. Frame(num, 1, 0) \in Datagram
      BY <1>1, FrameType
    <3>. QED  BY <3>1
  <2>5. Info[q].ackTimeout \in Nat
    BY QueueInfoType
  <2>6. TransmitHead(q, qu, ok) = Pass(out, <<Frame(num, 1, 0)>>, {}, Info[q].ackTimeout)
    BY <1>4 DEF TransmitHead, num, new
  <2>. HIDE DEF out
  <2>. QED  BY <2>2, <2>3, <2>4, <2>5, <2>6 DEF Sound, Pass, PassResult
<1>. QED  BY <1>3, <1>4

LEMMA BurstNames ==
  ASSUME NEW qu \in Queue, NEW k \in 0..Len(qu.entries), NEW status, NEW new,
         new.entries = SubSeq(qu.entries, k + 1, Len(qu.entries))
  PROVE  /\ new.entries \in Seq(Entry)
         /\ Accounts(qu, new, {Note(qu.entries[i].n, status) : i \in 1..k})
<1>. DEFINE L == Len(qu.entries)
            notes == {Note(qu.entries[i].n, status) : i \in 1..k}
<1>1. /\ L \in Nat /\ DOMAIN qu.entries = 1..L
      /\ \A i \in 1..L : qu.entries[i] \in Entry
      /\ k \in 0..L /\ k \in Nat
  BY QueueType
<1>. HIDE DEF L
<1>2. new.entries = SubSeq(qu.entries, k + 1, L)
  BY DEF L
<1>3. /\ new.entries \in Seq(Entry)
      /\ Len(new.entries) = L - k
      /\ \A i \in 1..(L - k) : new.entries[i] = qu.entries[i + k]
  <2>1. /\ new.entries \in Seq(Entry)
        /\ Len(new.entries) = IF k + 1 <= L THEN L - (k + 1) + 1 ELSE 0
        /\ \A i \in 1..(L - (k + 1) + 1) : new.entries[i] = qu.entries[(k + 1) + i - 1]
    BY <1>1, <1>2, SubSeqProperties
  <2>2. L - (k + 1) + 1 = L - k /\ \A i \in Int : (k + 1) + i - 1 = i + k
    BY <1>1
  <2>. QED  BY <1>1, <2>1, <2>2
<1>4. DOMAIN new.entries = 1..(L - k)
  BY <1>1, <1>3, LenProperties
<1>5. ASSUME NEW x
      PROVE  x \in Names(new) <=> \E i \in (k + 1)..L : x = qu.entries[i].n
  <2>1. ASSUME NEW i \in (k + 1)..L, x = qu.entries[i].n
        PROVE  x \in Names(new)
    <3>1. i - k \in 1..(L - k) /\ (i - k) + k = i
      BY <1>1
    <3>2. i - k \in DOMAIN new.entries /\ new.entries[i - k].n = x
      BY <3>1, <2>1, <1>3, <1>4
    <3>. QED  BY <3>2 DEF Names
  <2>2. ASSUME NEW i \in 1..(L - k), x = new.entries[i].n
        PROVE  \E j \in (k + 1)..L : x = qu.entries[j].n
    <3>1. i + k \in (k + 1)..L /\ x = qu.entries[i + k].n
      BY <2>2, <1>1, <1>3
    <3>. QED  BY <3>1
  <2>. QED  BY <2>1, <2>2, <1>4 DEF Names
<1>6. ASSUME NEW x
      PROVE  x \in Noted(notes) <=> \E i \in 1..k : x = qu.entries[i].n
  <2>1. \A n : Note(n, status).n = n
    BY DEF Note
  <2>2. x \in Noted(notes) <=> \E y \in notes : x = y.n
    BY DEF Noted
  <2>3. x \in Noted(notes) <=> \E i \in 1..k : x = Note(qu.entries[i].n, status).n
    BY <2>2
  <2>. QED  BY <2>1, <2>3
<1>. HIDE DEF notes
<1>7. ASSUME NEW x
      PROVE  x \in Names(qu) <=> \E i \in 1..L : x = qu.entries[i].n
  BY <1>1 DEF Names
<1>8. \A i \in Int : i \in 1..L <=> i \in 1..k \/ i \in (k + 1)..L
  BY <1>1
<1>9. ASSUME Distinct(qu)
      PROVE  Distinct(new) /\ Names(new) \cap Noted(notes) = {}
  <2>1. ASSUME NEW i \in 1..(L - k), NEW j \in 1..(L - k),
               new.entries[i].n = new.entries[j].n
        PROVE  i = j
    <3>1. i + k \in DOMAIN qu.entries /\ j + k \in DOMAIN qu.entries
      BY <1>1
    <3>2. i + k = j + k
      BY <2>1, <3>1, <1>3, <1>9 DEF Distinct
    <3>. QED  BY <3>2, <1>1
  <2>2. ASSUME NEW i \in 1..k, NEW j \in (k + 1)..L
        PROVE  qu.entries[i].n # qu.entries[j].n
    <3>1. i \in DOMAIN qu.entries /\ j \in DOMAIN qu.entries /\ i # j
      BY <1>1
    <3>. QED  BY <3>1, <1>9 DEF Distinct
  <2>3. Distinct(new)
    BY <2>1, <1>4 DEF Distinct
  <2>4. \A x : ~(x \in Names(new) /\ x \in Noted(notes))
    BY <2>2, <1>5, <1>6
  <2>. QED  BY <2>3, <2>4
<1>10. Names(new) \cup Noted(notes) = Names(qu)
  BY <1>5, <1>6, <1>7, <1>8
<1>. QED  BY <1>3, <1>9, <1>10 DEF Accounts, notes

LEMMA TransmitAllSound ==
  ASSUME NEW q \in Queues, NEW qu \in Queue, qu.entries # <<>>, NEW ok \in 0..MaxCmds
  PROVE  Sound(qu, TransmitAll(q, qu, ok))
<1>. DEFINE burst == IF Info[q].maxRate > 0 THEN 1 ELSE Len(qu.entries)
            k     == IF ok < burst THEN ok ELSE burst
            tried == IF ok < burst THEN ok + 1 ELSE burst
            out   == [qu EXCEPT !.entries = SubSeq(@, k + 1, Len(@)),
                                !.seq = Seqnum(@, tried),
                                !.serial = @ + tried,
                                !.txAge = IF k > 0 THEN 0 ELSE @]
            frames == [i \in 1..k |-> Frame(qu, i, i)]
            notes == {Note(qu.entries[i].n, "PACKED") : i \in 1..k}
            timeout == IF k = burst /\ k < Len(qu.entries) THEN 0 ELSE Off
<1>1. /\ Len(qu.entries) \in Nat /\ Len(qu.entries) > 0
      /\ DOMAIN qu.entries = 1..Len(qu.entries) /\ qu.seq \in Nat /\ qu.serial \in Nat
      /\ qu.txAge \in Nat
  BY QueueType, EmptySeq, SeqAssumption
<1>2. burst \in 1..Len(qu.entries)
  BY <1>1
<1>. HIDE DEF burst
<1>3. k \in 0..Len(qu.entries) /\ tried \in Nat /\ k \in Nat
  BY <1>1, <1>2, BoundsAssumption
<1>. HIDE DEF k, tried
<1>4. Seqnum(qu.seq, tried) \in 0..(SeqSize - 1)
  BY <1>1, <1>3, SeqnumType
<1>5. SubSeq(qu.entries, k + 1, Len(qu.entries)) \in Seq(Entry)
  <2>1. [entries |-> SubSeq(qu.entries, k + 1, Len(qu.entries))].entries \in Seq(Entry)
    BY <1>3, BurstNames
  <2>. QED  BY <2>1
<1>6. out \in Queue /\ out.entries = SubSeq(qu.entries, k + 1, Len(qu.entries))
  <2>. DEFINE e == SubSeq(qu.entries, k + 1, Len(qu.entries))
              s == Seqnum(qu.seq, tried)
              n == qu.serial + tried
              t == IF k > 0 THEN 0 ELSE qu.txAge
  <2>1. n \in Nat /\ t \in Nat
    BY <1>1, <1>3
  <2>2. e \in Seq(Entry) /\ s \in 0..(SeqSize - 1)
    BY <1>4, <1>5
  <2>3. out = [qu EXCEPT !.entries = e, !.seq = s, !.serial = n, !.txAge = t]
    OBVIOUS
  <2>4. e = SubSeq(qu.entries, k + 1, Len(qu.entries))
    OBVIOUS
  <2>. HIDE DEF out, e, s, n, t
  <2>5. out \in Queue /\ out.entries = e
    BY <2>1, <2>2, <2>3 DEF Queue
  <2>. QED  BY <2>4, <2>5
<1>. HIDE DEF out
<1>7. Accounts(qu, out, notes)
  BY <1>3, <1>6, BurstNames
<1>8. frames \in Seq(Datagram)
  <2>1. \A i \in 1..k : Frame(qu, i, i) \in Datagram
    <3>1. TAKE i \in 1..k
    <3>2. i \in DOMAIN qu.entries /\ i \in Nat
      BY <1>1, <1>3
    <3>. QED  BY <3>2, FrameType
  <2>2. frames \in [1..k -> Datagram]
    BY <2>1
  <2>. QED  BY <1>3, <2>2
<1>9. notes \in SUBSET Notes
  <2>1. \A i \in 1..k : qu.entries[i].n \in Cmds
    <3>1. \A i \in 1..k : i \in DOMAIN qu.entries
      BY <1>1, <1>3
    <3>. QED  BY <3>1, QueueType DEF Entry
  <2>. QED  BY <2>1 DEF Notes, Note, FinalStatus
<1>10. timeout \in Nat \cup {Off}
  OBVIOUS
<1>11. TransmitAll(q, qu, ok) = Pass(out, frames, notes, timeout)
  BY DEF TransmitAll, out, k, tried, burst
<1>. HIDE DEF frames, notes, timeout
<1>. QED  BY <1>6, <1>7, <1>8, <1>9, <1>10, <1>11 DEF Sound, Pass, PassResult

LEMMA PassSound ==
  ASSUME NEW q \in Queues, NEW qu \in Queue, NEW ok \in 0..MaxCmds
  PROVE  Sound(qu, CheckTxQueue(q, qu, ok))
<1>1. CASE AckPending(q, qu)
  <2>1. Info[q].ackTimeout - Head(qu.entries).age \in Nat
    <3>1. /\ Info[q].ackTimeout \in Nat /\ Head(qu.entries).age \in Nat
          /\ Head(qu.entries).age < Info[q].ackTimeout
      BY <1>1, QueueInfoType, QueueType DEF AckPending, InFlight, Entry
    <3>. QED  BY <3>1
  <2>. QED  BY <1>1, <2>1, IdlePass DEF CheckTxQueue
<1>2. CASE ~AckPending(q, qu)
  <2>. DEFINE qx == Expire(q, qu)
              sending == Transmit(q, qx, ok)
  <2>1. /\ qx \in Queue /\ ExpireNotes(q, qu) \in SUBSET Notes
        /\ Accounts(qu, qx, ExpireNotes(q, qu))
    BY ExpireType, ExpireNames
  <2>. HIDE DEF qx
  <2>2. Sound(qx, sending)
    <3>1. qx.txAge \in Nat
      BY <2>1, QueueType
    <3>2. qx.entries # <<>> => /\ Sound(qx, TransmitHead(q, qx, ok))
                               /\ Sound(qx, TransmitAll(q, qx, ok))
      BY <2>1, TransmitHeadSound, TransmitAllSound
    <3>3. \A t \in Nat \cup {Off} : Sound(qx, Pass(qx, <<>>, {}, t))
      BY <2>1, IdlePass
    <3>4. CASE qx.entries = <<>>
      BY <3>3, <3>4 DEF Transmit, Unsent
    <3>5. CASE Unsent(qx) /\ TooSoon(q, qx)
      BY <3>1, <3>3, <3>5 DEF Transmit, Unsent
    <3>6. CASE Unsent(qx) /\ ~TooSoon(q, qx) /\ WithAck(q)
      BY <3>2, <3>6 DEF Transmit, Unsent
    <3>7. CASE Unsent(qx) /\ ~TooSoon(q, qx) /\ ~WithAck(q)
      BY <3>2, <3>7 DEF Transmit, Unsent
    <3>8. CASE qx.entries # <<>> /\ ~Unsent(qx)
      BY <3>3, <3>8 DEF Transmit, Unsent
    <3>. QED  BY <3>4, <3>5, <3>6, <3>7, <3>8
  <2>. HIDE DEF sending
  <2>3. CheckTxQueue(q, qu, ok) = [sending EXCEPT !.notes = @ \cup ExpireNotes(q, qu)]
    BY <1>2 DEF CheckTxQueue, sending, qx
  <2>4. CheckTxQueue(q, qu, ok) =
          Pass(sending.queue, sending.frames, sending.notes \cup ExpireNotes(q, qu),
               sending.timeout)
    BY <2>2, <2>3 DEF Sound, PassResult, Pass
  <2>5. Pass(sending.queue, sending.frames, sending.notes \cup ExpireNotes(q, qu),
             sending.timeout) \in PassResult
    BY <2>1, <2>2 DEF Sound, PassResult, Pass
  <2>6. Accounts(qu, sending.queue, sending.notes \cup ExpireNotes(q, qu))
    <3>1. Noted(sending.notes \cup ExpireNotes(q, qu))
            = Noted(sending.notes) \cup Noted(ExpireNotes(q, qu))
      BY DEF Noted
    <3>. QED  BY <2>1, <2>2, <3>1 DEF Sound, Accounts
  <2>. QED  BY <2>4, <2>5, <2>6 DEF Sound, Pass
<1>. QED  BY <1>1, <1>2

LEMMA QueueAddSound ==
  ASSUME NEW q \in Queues, NEW qu \in Queue, NEW n \in Cmds, NEW kind \in Kinds,
         n \notin Names(qu), Distinct(qu)
  PROVE  LET added == QueueAdd(q, qu, n, kind)
         IN  /\ added.queue \in Queue /\ added.notes \in SUBSET Notes
             /\ Distinct(added.queue)
             /\ Names(added.queue) \cup Noted(added.notes) = Names(qu) \cup {n}
             /\ Names(added.queue) \cap Noted(added.notes) = {}
<1>. DEFINE R == Replaceable(q, qu, kind)
            i == CHOOSE i \in R : TRUE
            e == NewEntry(n, kind)
<1>1. /\ e \in Entry /\ e.n = n /\ qu.entries \in Seq(Entry)
      /\ DOMAIN qu.entries = 1..Len(qu.entries) /\ Len(qu.entries) \in Nat
      /\ \A j \in DOMAIN qu.entries : qu.entries[j].n # n
  BY NewEntryType, QueueType DEF NewEntry, Names
<1>2. CASE R = {}
  <2>. DEFINE grown == [qu EXCEPT !.entries = Append(qu.entries, e)]
  <2>1. QueueAdd(q, qu, n, kind) = [queue |-> grown, notes |-> {}]
    BY <1>2 DEF QueueAdd
  <2>2. Append(qu.entries, e) \in Seq(Entry)
    BY <1>1
  <2>. HIDE DEF e
  <2>3. grown \in Queue /\ grown.entries = Append(qu.entries, e)
    BY <2>2 DEF Queue
  <2>. HIDE DEF grown
  <2>4. /\ DOMAIN grown.entries = 1..(Len(qu.entries) + 1)
        /\ \A j \in 1..Len(qu.entries) : grown.entries[j] = qu.entries[j]
        /\ grown.entries[Len(qu.entries) + 1] = e
    BY <1>1, <2>3, AppendProperties, LenProperties
  <2>5. \A j \in 1..(Len(qu.entries) + 1) : j \in 1..Len(qu.entries) \/ j = Len(qu.entries) + 1
    BY <1>1
  <2>6. Distinct(grown)
    BY <1>1, <2>4, <2>5 DEF Distinct
  <2>7. Names(grown) = Names(qu) \cup {n}
    <3>1. \A x : x \in Names(grown) <=> \E j \in 1..(Len(qu.entries) + 1) : x = grown.entries[j].n
      BY <2>4 DEF Names
    <3>2. \A x : x \in Names(qu) <=> \E j \in 1..Len(qu.entries) : x = qu.entries[j].n
      BY <1>1 DEF Names
    <3>3. Len(qu.entries) + 1 \in 1..(Len(qu.entries) + 1)
          /\ \A j \in 1..Len(qu.entries) : j \in 1..(Len(qu.entries) + 1)
      BY <1>1
    <3>. QED  BY <1>1, <2>4, <2>5, <3>1, <3>2, <3>3
  <2>. QED  BY <2>1, <2>3, <2>6, <2>7 DEF Noted
<1>3. CASE R # {}
  <2>. DEFINE new == [qu EXCEPT !.entries[i] = e]
              notes == {Note(qu.entries[i].n, "CANCELED")}
  <2>1. QueueAdd(q, qu, n, kind) = [queue |-> new, notes |-> notes]
    BY <1>3 DEF QueueAdd
  <2>2. i \in DOMAIN qu.entries
    <3>1. i \in R
      BY <1>3
    <3>. QED  BY <3>1 DEF Replaceable
  <2>. HIDE DEF R, i, e
  <2>3. /\ new \in Queue
        /\ DOMAIN new.entries = DOMAIN qu.entries
        /\ \A j \in DOMAIN qu.entries : new.entries[j] = IF j = i THEN e ELSE qu.entries[j]
    BY <1>1, <2>2, ReplaceEntry
  <2>. HIDE DEF new
  <2>4. qu.entries[i].n \in Cmds
    BY <2>2, QueueType DEF Entry
  <2>5. notes \in SUBSET Notes /\ Noted(notes) = {qu.entries[i].n}
    BY <2>4 DEF Notes, Note, FinalStatus, Noted
  <2>. HIDE DEF notes
  <2>6. Distinct(new)
    BY <1>1, <2>2, <2>3 DEF Distinct
  <2>7. \A x : x \in Names(new) <=> x = n \/ \E j \in DOMAIN qu.entries : j # i /\ x = qu.entries[j].n
    BY <1>1, <2>2, <2>3 DEF Names
  <2>8. \A x : x \in Names(qu) <=> \E j \in DOMAIN qu.entries : x = qu.entries[j].n
    BY DEF Names
  <2>9. Names(new) \cup {qu.entries[i].n} = Names(qu) \cup {n}
    BY <2>2, <2>7, <2>8
  <2>10. qu.entries[i].n \notin Names(new)
    BY <1>1, <2>2, <2>7 DEF Distinct
  <2>. QED  BY <2>1, <2>3, <2>5, <2>6, <2>9, <2>10
<1>. QED  BY <1>2, <1>3

(***************************************************************************)
(* The queues together: check_tx_queues                                    *)
(***************************************************************************)

LEMMA MinOfNaturals ==
  ASSUME NEW S \in SUBSET Nat, S # {}
  PROVE  Min(S) \in S /\ \A y \in S : Min(S) <= y
<1>1. \E x \in S : \A y \in S : ~(<<y, x>> \in OpToRel(<, Nat))
  BY NatLessThanWellFounded, WFMin, Zenon
<1>2. \E x \in S : \A y \in S : x <= y
  <2>1. PICK x \in S : \A y \in S : ~(<<y, x>> \in OpToRel(<, Nat))
    BY <1>1
  <2>2. ASSUME NEW y \in S
        PROVE  x <= y
    <3>1. ~(y < x)
      BY <2>1, <2>2 DEF OpToRel
    <3>. QED  BY <3>1
  <2>. QED  BY <2>2
<1>. QED  BY <1>2 DEF Min

LEMMA NextTimerType ==
  ASSUME NEW S \in SUBSET (Nat \cup {Off})
  PROVE  NextTimer(S) \in Nat \cup {Off}
<1>1. CASE S \subseteq {Off} \/ 0 \in S
  BY <1>1 DEF NextTimer
<1>2. CASE ~(S \subseteq {Off} \/ 0 \in S)
  <2>1. S \ {Off} \in SUBSET Nat /\ S \ {Off} # {}
    BY <1>2
  <2>. QED  BY <1>2, <2>1, MinOfNaturals DEF NextTimer
<1>. QED  BY <1>1, <1>2

DoneType == [Cmds -> Seq(FinalStatus)]

LEMMA NotifySound ==
  ASSUME NEW d \in DoneType, NEW notes \in SUBSET Notes
  PROVE  /\ Notify(d, notes) \in DoneType
         /\ \A n \in Cmds : /\ n \in Noted(notes) => Len(Notify(d, notes)[n]) = Len(d[n]) + 1
                            /\ n \notin Noted(notes) => Notify(d, notes)[n] = d[n]
<1>1. ASSUME NEW n \in Cmds, \E x \in notes : x.n = n
      PROVE  /\ Append(d[n], (CHOOSE x \in notes : x.n = n).status) \in Seq(FinalStatus)
             /\ Len(Append(d[n], (CHOOSE x \in notes : x.n = n).status)) = Len(d[n]) + 1
  <2>1. (CHOOSE x \in notes : x.n = n).status \in FinalStatus /\ d[n] \in Seq(FinalStatus)
    BY <1>1 DEF Notes, DoneType
  <2>. QED  BY <2>1, AppendProperties
<1>2. \A n \in Cmds : d[n] \in Seq(FinalStatus)
  BY DEF DoneType
<1>. QED  BY <1>1, <1>2 DEF Notify, Noted, DoneType

LEMMA PutType ==
  ASSUME NEW channel \in Seq(Datagram), NEW frames \in Seq(Datagram)
  PROVE  Put(channel, frames) \in Seq(Datagram)
  BY DEF Put

AllNames(t) == UNION {Names(t[q]) : q \in Queues}
Separate(t) ==
    /\ \A q \in Queues : Distinct(t[q])
    /\ \A p, q \in Queues : p # q => Names(t[p]) \cap Names(t[q]) = {}

(* Queues t and notifications in the making account for commands 1..k,     *)
(* given those already made.                                               *)
Ready(t, notes, d, k) ==
    /\ Separate(t)
    /\ AllNames(t) \cap Noted(notes) = {}
    /\ AllNames(t) \cup Noted(notes) \subseteq 1..k
    /\ \A n \in Cmds :
          /\ n \in AllNames(t) \cup Noted(notes) => d[n] = <<>>
          /\ n \in 1..k /\ n \notin AllNames(t) \cup Noted(notes) => Len(d[n]) = 1
          /\ n > k => d[n] = <<>>
Accounted(t, d, k) == Ready(t, {}, d, k)

LEMMA NotifyReady ==
  ASSUME NEW t, NEW notes \in SUBSET Notes, NEW d \in DoneType, NEW k \in 0..MaxCmds,
         Ready(t, notes, d, k)
  PROVE  Accounted(t, Notify(d, notes), k)
<1>1. Noted({}) = {} /\ Len(<<>>) = 0
  BY DEF Noted
<1>2. \A n \in Cmds : n > k => n \notin Noted(notes)
  BY BoundsAssumption DEF Ready, Cmds
<1>3. ASSUME NEW n \in Cmds
      PROVE  /\ n \in AllNames(t) => Notify(d, notes)[n] = <<>>
             /\ n \in 1..k /\ n \notin AllNames(t) => Len(Notify(d, notes)[n]) = 1
             /\ n > k => Notify(d, notes)[n] = <<>>
  <2>1. /\ n \in Noted(notes) => Len(Notify(d, notes)[n]) = Len(d[n]) + 1
        /\ n \notin Noted(notes) => Notify(d, notes)[n] = d[n]
    BY NotifySound
  <2>2. CASE n \in Noted(notes)
    <3>1. n \notin AllNames(t) /\ d[n] = <<>> /\ ~(n > k)
      BY <2>2, <1>2 DEF Ready
    <3>2. Len(Notify(d, notes)[n]) = 0 + 1
      BY <2>1, <2>2, <3>1, <1>1
    <3>. QED  BY <3>1, <3>2
  <2>3. CASE n \notin Noted(notes)
    BY <2>1, <2>3 DEF Ready
  <2>. QED  BY <2>2, <2>3
<1>4. Separate(t) /\ AllNames(t) \subseteq 1..k
  BY DEF Ready
<1>. QED  BY <1>1, <1>3, <1>4 DEF Ready, Accounted

LEMMA CheckTxQueuesSound ==
  ASSUME NEW t \in [Queues -> Queue], NEW notes \in SUBSET Notes,
         done \in DoneType, data \in [Queues -> Seq(Datagram)],
         NEW k \in 0..MaxCmds, Ready(t, notes, done, k),
         CheckTxQueues(t, notes)
  PROVE  /\ tx' \in [Queues -> Queue]
         /\ timer' \in Nat \cup {Off}
         /\ data' \in [Queues -> Seq(Datagram)]
         /\ done' \in DoneType
         /\ Accounted(tx', done', k)
<1>1. PICK ok \in Budget(t) :
        LET pass == [q \in Queues |-> CheckTxQueue(q, t[q], ok[q])]
        IN  /\ tx' = [q \in Queues |-> pass[q].queue]
            /\ data' = [q \in Queues |-> Put(data[q], pass[q].frames)]
            /\ done' = Notify(done, notes \cup UNION {pass[q].notes : q \in Queues})
            /\ timer' = NextTimer({pass[q].timeout : q \in Queues})
  BY DEF CheckTxQueues
<1>. DEFINE pass == [q \in Queues |-> CheckTxQueue(q, t[q], ok[q])]
            all == notes \cup UNION {pass[q].notes : q \in Queues}
<1>2. \A q \in Queues : Sound(t[q], pass[q])
  <2>1. \A q \in Queues : ok[q] \in 0..MaxCmds
    BY DEF Budget
  <2>. QED  BY <2>1, PassSound
<1>3. /\ tx' = [q \in Queues |-> pass[q].queue]
      /\ data' = [q \in Queues |-> Put(data[q], pass[q].frames)]
      /\ done' = Notify(done, all)
      /\ timer' = NextTimer({pass[q].timeout : q \in Queues})
  BY <1>1
<1>. HIDE DEF pass
<1>4. \A q \in Queues : /\ pass[q].queue \in Queue /\ pass[q].frames \in Seq(Datagram)
                        /\ pass[q].notes \in SUBSET Notes
                        /\ pass[q].timeout \in Nat \cup {Off}
  BY <1>2 DEF Sound, PassResult
<1>5. tx' \in [Queues -> Queue]
  BY <1>3, <1>4
<1>6. data' \in [Queues -> Seq(Datagram)]
  BY <1>3, <1>4, PutType
<1>7. timer' \in Nat \cup {Off}
  <2>1. {pass[q].timeout : q \in Queues} \in SUBSET (Nat \cup {Off})
    BY <1>4
  <2>. QED  BY <1>3, <2>1, NextTimerType
<1>8. all \in SUBSET Notes
  BY <1>4
<1>9. Ready(tx', all, done, k)
  <2>1. ASSUME NEW q \in Queues
        PROVE  /\ Names(tx'[q]) \cup Noted(pass[q].notes) = Names(t[q])
               /\ Distinct(tx'[q])
               /\ Names(tx'[q]) \cap Noted(pass[q].notes) = {}
    BY <1>2, <1>3 DEF Sound, Accounts, Ready, Separate
  <2>2. \A n : n \in Noted(all) <=> \/ n \in Noted(notes)
                                   \/ \E q \in Queues : n \in Noted(pass[q].notes)
    BY DEF Noted
  <2>3. /\ \A n : n \in AllNames(t) <=> \E q \in Queues : n \in Names(t[q])
        /\ \A n : n \in AllNames(tx') <=> \E q \in Queues : n \in Names(tx'[q])
    BY DEF AllNames
  <2>. HIDE DEF all
  <2>4. Separate(tx')
    BY <2>1 DEF Ready, Separate
  <2>5. AllNames(tx') \cup Noted(all) = AllNames(t) \cup Noted(notes)
    BY <2>1, <2>2, <2>3
  <2>6. AllNames(tx') \cap Noted(all) = {}
    <3>1. SUFFICES ASSUME NEW n, n \in AllNames(tx'), n \in Noted(all)
                   PROVE  FALSE
      OBVIOUS
    <3>2. PICK p \in Queues : n \in Names(tx'[p])
      BY <3>1, <2>3
    <3>3. n \in Names(t[p]) /\ n \in AllNames(t)
      BY <3>2, <2>1, <2>3
    <3>4. n \notin Noted(notes)
      BY <3>3 DEF Ready
    <3>5. PICK q \in Queues : n \in Noted(pass[q].notes)
      BY <3>1, <3>4, <2>2
    <3>6. n \in Names(t[q])
      BY <3>5, <2>1
    <3>7. p = q
      BY <3>3, <3>6 DEF Ready, Separate
    <3>. QED  BY <3>2, <3>5, <3>7, <2>1
  <2>. QED  BY <2>4, <2>5, <2>6 DEF Ready
<1>10. done' \in DoneType
  BY <1>3, <1>8, NotifySound
<1>11. Accounted(tx', done', k)
  BY <1>3, <1>8, <1>9, NotifyReady
<1>. QED  BY <1>5, <1>6, <1>7, <1>10, <1>11

(***************************************************************************)
(* The network and time                                                    *)
(***************************************************************************)

LEMMA RemoveAtType ==
  ASSUME NEW S, NEW s \in Seq(S), NEW i \in DOMAIN s
  PROVE  RemoveAt(s, i) \in Seq(S)
<1>1. Len(s) \in Nat /\ i \in 1..Len(s) /\ \A j \in 1..Len(s) : s[j] \in S
  BY LenProperties
<1>2. SubSeq(s, 1, i - 1) \in Seq(S) /\ SubSeq(s, i + 1, Len(s)) \in Seq(S)
  BY <1>1, SubSeqProperties
<1>. QED  BY <1>2 DEF RemoveAt

LEMMA TakenType ==
  ASSUME NEW channel \in Seq(Datagram), NEW i \in DOMAIN channel, NEW copy \in BOOLEAN
  PROVE  Taken(channel, i, copy) \in Seq(Datagram)
<1>1. /\ DOMAIN channel = 1..Len(channel) /\ Len(channel) \in Nat
      /\ \A j \in DOMAIN channel : channel[j] \in Datagram
  BY LenProperties
<1>2. \A f \in Datagram : [f EXCEPT !.late = @ + 1] \in Datagram
  <2>1. \A f \in Datagram : f.late + 1 \in Nat
    BY DEF Datagram
  <2>2. \A f \in Datagram, k \in Nat : [f EXCEPT !.late = k] \in Datagram
    BY DEF Datagram
  <2>. QED  BY <2>1, <2>2
<1>3. Overtake(channel, i) \in [1..Len(channel) -> Datagram]
  BY <1>1, <1>2 DEF Overtake
<1>4. Overtake(channel, i) \in Seq(Datagram) /\ DOMAIN Overtake(channel, i) = DOMAIN channel
  BY <1>1, <1>3
<1>. QED  BY <1>4, RemoveAtType DEF Taken

LEMMA AgedSound ==
  ASSUME NEW q \in Queues, NEW qu \in Queue
  PROVE  /\ Aged(q, qu) \in Queue /\ Names(Aged(q, qu)) = Names(qu)
         /\ Distinct(qu) => Distinct(Aged(q, qu))
<1>. DEFINE es == [i \in DOMAIN qu.entries |-> AgedEntry(q, qu.entries[i])]
            t == Older(qu.txAge, Info[q].maxRate)
<1>1. Aged(q, qu) = [qu EXCEPT !.txAge = t, !.entries = es]
  BY DEF Aged
<1>2. t \in Nat
  BY QueueType, QueueInfoType DEF Older
<1>3. ASSUME NEW i \in DOMAIN qu.entries
      PROVE  es[i] \in Entry /\ es[i].n = qu.entries[i].n
  <2>1. qu.entries[i] \in Entry
    BY QueueType
  <2>2. Older(qu.entries[i].age, Info[q].ackTimeout) \in Nat
    BY <2>1, QueueInfoType DEF Entry, Older
  <2>. QED  BY <2>1, <2>2 DEF AgedEntry, Entry
<1>4. DOMAIN es = DOMAIN qu.entries
  OBVIOUS
<1>5. es \in [1..Len(qu.entries) -> Entry] /\ Len(qu.entries) \in Nat
  BY <1>3, <1>4, QueueType
<1>. HIDE DEF es, t
<1>6. es \in Seq(Entry)
  BY <1>5
<1>7. Aged(q, qu) \in Queue /\ Aged(q, qu).entries = es
  BY <1>1, <1>2, <1>6 DEF Queue
<1>. QED  BY <1>3, <1>4, <1>7, SameNames

(***************************************************************************)
(* The inductive invariant                                                 *)
(***************************************************************************)

IInv == TypeOK /\ Accounted(tx, done, sent)

LEMMA InitIInv == Init => IInv
<1>. SUFFICES ASSUME Init PROVE IInv
  OBVIOUS
<1>1. \A q \in Queues : NewQueue(q) \in Queue /\ NewQueue(q).entries = <<>>
  <2>1. SeqSize - 1 \in 0..(SeqSize - 1) /\ <<>> \in Seq(Entry) /\ 0 \in Nat
    BY SeqAssumption
  <2>2. \A q \in Queues : Info[q].maxRate \in Nat
    BY QueueInfoType
  <2>. QED  BY <2>1, <2>2 DEF NewQueue, Queue
<1>2. TypeOK
  <2>1. tx \in [Queues -> Queue]
    BY <1>1 DEF Init
  <2>2. recv \in [Queues -> 0..(SeqSize - 1)]
    BY SeqAssumption DEF Init
  <2>3. /\ timer \in Nat \cup {Off} /\ up \in BOOLEAN /\ sent \in 0..MaxCmds
        /\ rserial \in [Queues -> Nat] /\ synced \in [Queues -> BOOLEAN]
    BY BoundsAssumption DEF Init
  <2>4. /\ done \in [Cmds -> Seq(FinalStatus)]
        /\ data \in [Queues -> Seq(Datagram)] /\ acks \in [Queues -> Seq(Datagram)]
        /\ delivered \in [Queues -> Seq(Cmds)]
    BY DEF Init
  <2>. QED  BY <2>1, <2>2, <2>3, <2>4 DEF TypeOK
<1>3. \A q \in Queues : Names(tx[q]) = {} /\ Distinct(tx[q])
  <2>1. DOMAIN <<>> = {}
    OBVIOUS
  <2>2. \A q \in Queues : DOMAIN tx[q].entries = {}
    BY <1>1, <2>1 DEF Init
  <2>. QED  BY <2>2 DEF Names, Distinct
<1>4. AllNames(tx) = {} /\ Noted({}) = {} /\ Separate(tx)
  BY <1>3 DEF AllNames, Noted, Separate
<1>5. sent = 0 /\ \A n \in Cmds : done[n] = <<>> /\ n \notin 1..sent
  BY DEF Init
<1>. QED  BY <1>2, <1>4, <1>5 DEF IInv, Accounted, Ready

LEMMA WatchType == Watch => synced' \in [Queues -> BOOLEAN]
  BY DEF Watch, InWindow

LEMMA PopReady ==
  ASSUME NEW s, NEW t, NEW q \in Queues, NEW notes, NEW d, NEW k,
         Ready(s, {}, d, k), Accounts(s[q], t[q], notes),
         \A p \in Queues : p # q => t[p] = s[p]
  PROVE  Ready(t, notes, d, k)
<1>1. /\ Separate(s) /\ AllNames(s) \subseteq 1..k
      /\ \A m \in Cmds :
            /\ m \in AllNames(s) => d[m] = <<>>
            /\ m \in 1..k /\ m \notin AllNames(s) => Len(d[m]) = 1
            /\ m > k => d[m] = <<>>
  <2>1. Noted({}) = {}
    BY DEF Noted
  <2>. QED  BY <2>1 DEF Ready
<1>2. /\ Distinct(t[q]) /\ Names(t[q]) \cup Noted(notes) = Names(s[q])
      /\ Names(t[q]) \cap Noted(notes) = {}
  BY <1>1 DEF Accounts, Separate
<1>3. Separate(t)
  <2>1. \A p \in Queues : Names(t[p]) \subseteq Names(s[p]) /\ Distinct(t[p])
    BY <1>1, <1>2 DEF Separate
  <2>. QED  BY <1>1, <2>1 DEF Separate
<1>4. \A x : /\ x \in AllNames(t) <=> \E p \in Queues : x \in Names(t[p])
             /\ x \in AllNames(s) <=> \E p \in Queues : x \in Names(s[p])
  BY DEF AllNames
<1>5. AllNames(t) \cup Noted(notes) = AllNames(s)
  BY <1>2, <1>4
<1>6. AllNames(t) \cap Noted(notes) = {}
  <2>1. SUFFICES ASSUME NEW x, x \in AllNames(t), x \in Noted(notes)
                 PROVE  FALSE
    OBVIOUS
  <2>2. PICK p \in Queues : x \in Names(t[p])
    BY <2>1, <1>4
  <2>3. p # q /\ x \in Names(s[p]) /\ x \in Names(s[q])
    BY <2>1, <2>2, <1>2
  <2>. QED  BY <2>3, <1>1 DEF Separate
<1>. QED  BY <1>1, <1>3, <1>5, <1>6 DEF Ready

LEMMA SendIInv ==
  ASSUME IInv, NEW bt \in BufferTypes, NEW kind \in Kinds, Send(bt, kind)
  PROVE  IInv'
<1>1. PICK q \in Queues :
        CheckTxQueues([tx EXCEPT ![q] = QueueAdd(q, tx[q], sent + 1, kind).queue],
                      QueueAdd(q, tx[q], sent + 1, kind).notes)
  BY DEF Send
<1>. DEFINE n == sent + 1
            added == QueueAdd(q, tx[q], n, kind)
            t == [tx EXCEPT ![q] = added.queue]
<1>2. /\ tx \in [Queues -> Queue] /\ tx[q] \in Queue
      /\ sent \in 0..MaxCmds /\ sent < MaxCmds /\ sent' = n
      /\ n \in Cmds /\ n \in 0..MaxCmds /\ sent \in Nat
      /\ done \in DoneType /\ data \in [Queues -> Seq(Datagram)]
  BY BoundsAssumption DEF IInv, TypeOK, Send, Cmds, DoneType
<1>3. /\ Separate(tx) /\ AllNames(tx) \subseteq 1..sent
      /\ \A m \in Cmds :
            /\ m \in AllNames(tx) => done[m] = <<>>
            /\ m \in 1..sent /\ m \notin AllNames(tx) => Len(done[m]) = 1
            /\ m > sent => done[m] = <<>>
  <2>1. Noted({}) = {}
    BY DEF Noted
  <2>. QED  BY <2>1 DEF IInv, Accounted, Ready
<1>4. \A p \in Queues : Names(tx[p]) \subseteq AllNames(tx) /\ n \notin Names(tx[p])
  <2>1. n \notin 1..sent
    BY <1>2
  <2>. QED  BY <1>3, <2>1 DEF AllNames
<1>5. /\ added.queue \in Queue /\ added.notes \in SUBSET Notes
      /\ Distinct(added.queue)
      /\ Names(added.queue) \cup Noted(added.notes) = Names(tx[q]) \cup {n}
      /\ Names(added.queue) \cap Noted(added.notes) = {}
  <2>1. Distinct(tx[q])
    BY <1>3 DEF Separate
  <2>. HIDE DEF n
  <2>. QED  BY <1>2, <1>4, <2>1, QueueAddSound
<1>6. CheckTxQueues(t, added.notes)
  BY <1>1
<1>. HIDE DEF added
<1>7. /\ t \in [Queues -> Queue]
      /\ t[q] = added.queue
      /\ \A p \in Queues : p # q => t[p] = tx[p]
  BY <1>2, <1>5
<1>. HIDE DEF t
<1>8. Ready(t, added.notes, done, n)
  <2>1. Separate(t)
    <3>1. \A p \in Queues : Distinct(t[p])
      BY <1>3, <1>5, <1>7 DEF Separate
    <3>2. ASSUME NEW p \in Queues, p # q
          PROVE  Names(t[p]) \cap Names(t[q]) = {}
      BY <1>3, <1>4, <1>5, <1>7, <3>2 DEF Separate
    <3>3. ASSUME NEW p \in Queues, NEW r \in Queues, p # r
          PROVE  Names(t[p]) \cap Names(t[r]) = {}
      <4>1. CASE p = q
        BY <3>2, <3>3, <4>1
      <4>2. CASE r = q
        BY <3>2, <3>3, <4>2
      <4>3. CASE p # q /\ r # q
        BY <1>3, <1>7, <3>3, <4>3 DEF Separate
      <4>. QED  BY <4>1, <4>2, <4>3
    <3>. QED  BY <3>1, <3>3 DEF Separate
  <2>2. AllNames(t) \cup Noted(added.notes) = AllNames(tx) \cup {n}
    <3>1. \A x : x \in AllNames(t) <=> \E p \in Queues : x \in Names(t[p])
      BY DEF AllNames
    <3>2. \A x : x \in AllNames(tx) <=> \E p \in Queues : x \in Names(tx[p])
      BY DEF AllNames
    <3>. HIDE DEF n
    <3>. QED  BY <3>1, <3>2, <1>5, <1>7
  <2>3. AllNames(t) \cap Noted(added.notes) = {}
    <3>1. SUFFICES ASSUME NEW x, x \in AllNames(t), x \in Noted(added.notes)
                   PROVE  FALSE
      OBVIOUS
    <3>2. PICK p \in Queues : x \in Names(t[p])
      BY <3>1 DEF AllNames
    <3>3. p # q /\ x \in Names(tx[p])
      BY <3>1, <3>2, <1>5, <1>7
    <3>4. x # n /\ x \in Names(tx[q])
      BY <3>1, <3>3, <1>4, <1>5
    <3>. QED  BY <3>3, <3>4, <1>3 DEF Separate
  <2>4. \A x : x \in 1..n <=> x \in 1..sent \/ x = n
    BY <1>2
  <2>5. \A m \in Cmds : m > n => m > sent
    BY <1>2 DEF Cmds
  <2>6. n > sent
    BY <1>2
  <2>. HIDE DEF n
  <2>. QED  BY <1>2, <1>3, <2>1, <2>2, <2>3, <2>4, <2>5, <2>6 DEF Ready
<1>9. /\ tx' \in [Queues -> Queue] /\ timer' \in Nat \cup {Off}
      /\ data' \in [Queues -> Seq(Datagram)] /\ done' \in DoneType
      /\ Accounted(tx', done', n)
  <2>. HIDE DEF n
  <2>. QED  BY <1>2, <1>5, <1>6, <1>7, <1>8, CheckTxQueuesSound
<1>10. synced' \in [Queues -> BOOLEAN]
  BY WatchType DEF Send
<1>. HIDE DEF n
<1>. QED  BY <1>2, <1>9, <1>10 DEF IInv, TypeOK, Send, receiver, DoneType

(* What the other handlers share: a check of the queues after which        *)
(* nothing else changes the sender's state.                                *)
LEMMA CheckIInv ==
  ASSUME IInv, NEW t \in [Queues -> Queue], NEW notes \in SUBSET Notes,
         Ready(t, notes, done, sent), CheckTxQueues(t, notes),
         acks' \in [Queues -> Seq(Datagram)],
         UNCHANGED <<up, sent, receiver>>, Watch
  PROVE  IInv'
<1>1. /\ done \in DoneType /\ data \in [Queues -> Seq(Datagram)] /\ sent \in 0..MaxCmds
  BY DEF IInv, TypeOK, DoneType
<1>2. /\ tx' \in [Queues -> Queue] /\ timer' \in Nat \cup {Off}
      /\ data' \in [Queues -> Seq(Datagram)] /\ done' \in DoneType
      /\ Accounted(tx', done', sent)
  BY <1>1, CheckTxQueuesSound
<1>3. synced' \in [Queues -> BOOLEAN]
  BY WatchType
<1>. QED  BY <1>2, <1>3 DEF IInv, TypeOK, receiver, DoneType

LEMMA TimerCbIInv ==
  ASSUME IInv, TimerCb
  PROVE  IInv'
<1>1. tx \in [Queues -> Queue] /\ {} \in SUBSET Notes /\ Ready(tx, {}, done, sent)
  BY DEF IInv, TypeOK, Accounted
<1>2. acks' \in [Queues -> Seq(Datagram)]
  BY DEF IInv, TypeOK, TimerCb
<1>. QED  BY <1>1, <1>2, CheckIInv DEF TimerCb

LEMMA RecvAckIInv ==
  ASSUME IInv, NEW q \in Queues, NEW copy \in BOOLEAN, NEW i \in Arriving(acks[q]),
         RecvAck(q, i, copy)
  PROVE  IInv'
<1>1. /\ tx \in [Queues -> Queue] /\ tx[q] \in Queue
      /\ acks \in [Queues -> Seq(Datagram)] /\ acks[q] \in Seq(Datagram)
      /\ i \in DOMAIN acks[q]
      /\ Ready(tx, {}, done, sent)
  BY DEF IInv, TypeOK, Accounted, Arriving
<1>2. acks' \in [Queues -> Seq(Datagram)]
  <2>1. Taken(acks[q], i, copy) \in Seq(Datagram)
    BY <1>1, TakenType
  <2>2. acks' = [acks EXCEPT ![q] = Taken(acks[q], i, copy)]
    BY DEF RecvAck
  <2>. QED  BY <1>1, <2>1, <2>2
<1>3. UNCHANGED <<up, sent, receiver>> /\ Watch
  BY DEF RecvAck
<1>4. CASE ~up
  <2>1. UNCHANGED <<tx, data, done, timer>>
    BY <1>4 DEF RecvAck
  <2>2. synced' \in [Queues -> BOOLEAN]
    BY <1>3, WatchType
  <2>3. Accounted(tx', done', sent')
    BY <1>3, <2>1 DEF IInv
  <2>. QED  BY <1>2, <1>3, <2>1, <2>2, <2>3 DEF IInv, TypeOK, receiver
<1>5. CASE up /\ ~Acknowledges(acks[q][i], tx[q])
  <2>1. CheckTxQueues(tx, {})
    BY <1>5 DEF RecvAck
  <2>. QED  BY <1>1, <1>2, <1>3, <2>1, CheckIInv
<1>6. CASE up /\ Acknowledges(acks[q][i], tx[q])
  <2>. DEFINE t == [tx EXCEPT ![q] = QueuePop(tx[q])]
              notes == {Note(Head(tx[q].entries).n, "ACK_RECEIVED")}
  <2>1. CheckTxQueues(t, notes)
    BY <1>6 DEF RecvAck
  <2>2. tx[q].entries # <<>>
    BY <1>6 DEF Acknowledges, InFlight
  <2>3. /\ QueuePop(tx[q]) \in Queue
        /\ Accounts(tx[q], QueuePop(tx[q]), notes)
        /\ notes \in SUBSET Notes
    <3>1. notes \in SUBSET Notes
      BY <1>1, <2>2, QueueType DEF Notes, Note, FinalStatus, Entry
    <3>. QED  BY <1>1, <2>2, <3>1, QueuePopType, PopNames
  <2>. HIDE DEF notes
  <2>4. /\ t \in [Queues -> Queue] /\ t[q] = QueuePop(tx[q])
        /\ \A p \in Queues : p # q => t[p] = tx[p]
    BY <1>1, <2>3
  <2>. HIDE DEF t
  <2>5. Ready(t, notes, done, sent)
    BY <1>1, <2>3, <2>4, PopReady
  <2>. QED  BY <1>2, <1>3, <2>1, <2>3, <2>4, <2>5, CheckIInv
<1>. QED  BY <1>4, <1>5, <1>6

LEMMA StopIInv ==
  ASSUME IInv, Stop
  PROVE  IInv'
<1>. DEFINE t == [q \in Queues |-> [tx[q] EXCEPT !.entries = <<>>]]
            notes == UNION {{Note(tx[q].entries[i].n, "CANCELED") :
                                i \in DOMAIN tx[q].entries} : q \in Queues}
<1>1. /\ tx \in [Queues -> Queue] /\ done \in DoneType /\ sent \in 0..MaxCmds
      /\ Ready(tx, {}, done, sent)
      /\ tx' = t /\ done' = Notify(done, notes) /\ sent' = sent
  BY DEF IInv, TypeOK, Accounted, DoneType, Stop
<1>2. \A q \in Queues : t[q] \in Queue /\ t[q].entries = <<>>
  <2>1. \A qu \in Queue : /\ [qu EXCEPT !.entries = <<>>] \in Queue
                          /\ [qu EXCEPT !.entries = <<>>].entries = <<>>
    <3>1. \A qu \in Queue, e \in Seq(Entry) :
             [qu EXCEPT !.entries = e] \in Queue /\ [qu EXCEPT !.entries = e].entries = e
      BY DEF Queue
    <3>2. <<>> \in Seq(Entry)
      OBVIOUS
    <3>. QED  BY <3>1, <3>2
  <2>. QED  BY <1>1, <2>1
<1>3. t \in [Queues -> Queue]
  BY <1>2
<1>. HIDE DEF t
<1>4. notes \in SUBSET Notes
  <2>1. \A q \in Queues : \A i \in DOMAIN tx[q].entries : tx[q].entries[i].n \in Cmds
    BY <1>1, QueueType DEF Entry
  <2>. QED  BY <2>1 DEF Notes, Note, FinalStatus
<1>5. Noted(notes) = AllNames(tx)
  <2>1. \A n : Note(n, "CANCELED").n = n
    BY DEF Note
  <2>2. \A x : x \in notes <=> \E q \in Queues : \E i \in DOMAIN tx[q].entries :
                                x = Note(tx[q].entries[i].n, "CANCELED")
    OBVIOUS
  <2>3. \A n : n \in Noted(notes) <=> \E x \in notes : n = x.n
    BY DEF Noted
  <2>4. \A n : n \in AllNames(tx) <=> \E q \in Queues : \E i \in DOMAIN tx[q].entries :
                                n = tx[q].entries[i].n
    BY DEF AllNames, Names
  <2>. HIDE DEF notes
  <2>5. \A n : n \in Noted(notes) => n \in AllNames(tx)
    BY <2>1, <2>2, <2>3, <2>4
  <2>6. ASSUME NEW n, n \in AllNames(tx)
        PROVE  n \in Noted(notes)
    <3>1. PICK q \in Queues : \E i \in DOMAIN tx[q].entries : n = tx[q].entries[i].n
      BY <2>4, <2>6
    <3>2. PICK i \in DOMAIN tx[q].entries : n = tx[q].entries[i].n
      BY <3>1
    <3>3. Note(tx[q].entries[i].n, "CANCELED") \in notes
      BY <2>2
    <3>. QED  BY <2>1, <2>3, <3>2, <3>3
  <2>. QED  BY <2>5, <2>6
<1>. HIDE DEF notes
<1>6. AllNames(t) = {} /\ Separate(t)
  <2>1. \A q \in Queues : DOMAIN t[q].entries = {}
    BY <1>2
  <2>2. \A q \in Queues : Names(t[q]) = {} /\ Distinct(t[q])
    BY <2>1 DEF Names, Distinct
  <2>. QED  BY <2>2 DEF AllNames, Separate
<1>7. Ready(t, notes, done, sent)
  <2>1. Noted({}) = {}
    BY DEF Noted
  <2>. QED  BY <1>1, <1>5, <1>6, <2>1 DEF Ready
<1>8. done' \in DoneType /\ Accounted(t, done', sent)
  BY <1>1, <1>4, <1>7, NotifySound, NotifyReady
<1>9. synced' \in [Queues -> BOOLEAN]
  BY WatchType DEF Stop
<1>. QED  BY <1>1, <1>3, <1>8, <1>9 DEF IInv, TypeOK, DoneType, Stop, receiver

LEMMA RecvDataIInv ==
  ASSUME IInv, NEW q \in Queues, NEW copy \in BOOLEAN, NEW i \in Arriving(data[q]),
         RecvData(q, i, copy)
  PROVE  IInv'
<1>. DEFINE f == data[q][i]
<1>1. /\ data \in [Queues -> Seq(Datagram)] /\ data[q] \in Seq(Datagram)
      /\ acks \in [Queues -> Seq(Datagram)] /\ acks[q] \in Seq(Datagram)
      /\ i \in DOMAIN data[q] /\ f \in Datagram
  BY DEF IInv, TypeOK, Arriving
<1>2. data' \in [Queues -> Seq(Datagram)]
  <2>1. Taken(data[q], i, copy) \in Seq(Datagram)
    BY <1>1, TakenType
  <2>2. data' = [data EXCEPT ![q] = Taken(data[q], i, copy)]
    BY DEF RecvData
  <2>. QED  BY <1>1, <2>1, <2>2
<1>3. acks' \in [Queues -> Seq(Datagram)]
  <2>1. [f EXCEPT !.late = 0] \in Datagram
    BY <1>1 DEF Datagram
  <2>2. <<[f EXCEPT !.late = 0]>> \in Seq(Datagram)
    BY <2>1
  <2>3. Put(acks[q], <<[f EXCEPT !.late = 0]>>) \in Seq(Datagram)
    BY <1>1, <2>2, PutType
  <2>4. acks' = [acks EXCEPT ![q] = IF WithAck(q) THEN Put(acks[q], <<[f EXCEPT !.late = 0]>>)
                                                  ELSE acks[q]]
    BY DEF RecvData
  <2>. QED  BY <1>1, <2>3, <2>4
<1>4. /\ recv' \in [Queues -> 0..(SeqSize - 1)]
      /\ rserial' \in [Queues -> Nat]
      /\ delivered' \in [Queues -> Seq(Cmds)]
  <2>1. f.seq \in 0..(SeqSize - 1) /\ f.serial \in Nat /\ f.n \in Cmds
    BY <1>1 DEF Datagram
  <2>2. /\ recv \in [Queues -> 0..(SeqSize - 1)] /\ rserial \in [Queues -> Nat]
        /\ delivered \in [Queues -> Seq(Cmds)]
    BY DEF IInv, TypeOK
  <2>3. CASE ShouldProcess(recv[q], f.seq)
    <3>1. /\ recv' = [recv EXCEPT ![q] = f.seq]
          /\ rserial' = [rserial EXCEPT ![q] = f.serial]
          /\ delivered' = [delivered EXCEPT ![q] = Append(delivered[q], f.n)]
      BY <2>3 DEF RecvData
    <3>2. Append(delivered[q], f.n) \in Seq(Cmds)
      BY <2>1, <2>2
    <3>. QED  BY <2>1, <2>2, <3>1, <3>2
  <2>4. CASE ~ShouldProcess(recv[q], f.seq)
    BY <2>2, <2>4 DEF RecvData, receiver
  <2>. QED  BY <2>3, <2>4
<1>5. UNCHANGED <<tx, timer, up, sent, done>> /\ synced' \in [Queues -> BOOLEAN]
  BY WatchType DEF RecvData
<1>6. Accounted(tx', done', sent')
  BY <1>5 DEF IInv
<1>. QED  BY <1>2, <1>3, <1>4, <1>5, <1>6 DEF IInv, TypeOK

LEMMA LoseIInv ==
  ASSUME IInv, NEW q \in Queues,
         \/ \E i \in DOMAIN data[q] : LoseData(q, i)
         \/ \E i \in DOMAIN acks[q] : LoseAck(q, i)
  PROVE  IInv'
<1>1. data \in [Queues -> Seq(Datagram)] /\ acks \in [Queues -> Seq(Datagram)]
  BY DEF IInv, TypeOK
<1>2. /\ data' \in [Queues -> Seq(Datagram)] /\ acks' \in [Queues -> Seq(Datagram)]
      /\ UNCHANGED <<tx, timer, up, sent, done, receiver, synced>>
  <2>1. CASE \E i \in DOMAIN data[q] : LoseData(q, i)
    BY <1>1, <2>1, RemoveAtType DEF LoseData
  <2>2. CASE \E i \in DOMAIN acks[q] : LoseAck(q, i)
    BY <1>1, <2>2, RemoveAtType DEF LoseAck
  <2>. QED  BY <2>1, <2>2
<1>3. Accounted(tx', done', sent')
  BY <1>2 DEF IInv
<1>. QED  BY <1>2, <1>3 DEF IInv, TypeOK, receiver

LEMMA TickIInv ==
  ASSUME IInv, Tick
  PROVE  IInv'
<1>1. /\ tx \in [Queues -> Queue] /\ timer \in Nat \cup {Off}
      /\ tx' = [q \in Queues |-> Aged(q, tx[q])]
      /\ timer' = IF timer > 0 THEN timer - 1 ELSE timer
  BY DEF IInv, TypeOK, Tick
<1>2. \A q \in Queues : /\ tx'[q] \in Queue /\ Names(tx'[q]) = Names(tx[q])
                        /\ Distinct(tx[q]) => Distinct(tx'[q])
  BY <1>1, AgedSound
<1>3. tx' \in [Queues -> Queue]
  BY <1>1, <1>2
<1>4. timer' \in Nat \cup {Off}
  BY <1>1 DEF Off
<1>5. Accounted(tx', done, sent)
  <2>1. AllNames(tx') = AllNames(tx)
    BY <1>2 DEF AllNames
  <2>2. Separate(tx')
    BY <1>2 DEF IInv, Accounted, Ready, Separate
  <2>. QED  BY <2>1, <2>2 DEF IInv, Accounted, Ready
<1>. QED  BY <1>3, <1>4, <1>5 DEF IInv, TypeOK, Tick, receiver

LEMMA NextIInv == IInv /\ [Next]_vars => IInv'
<1>. SUFFICES ASSUME IInv, [Next]_vars
              PROVE  IInv'
  OBVIOUS
<1>1. ASSUME NEW bt \in BufferTypes, NEW kind \in Kinds, Send(bt, kind)
      PROVE  IInv'
  BY <1>1, SendIInv
<1>2. CASE TimerCb
  BY <1>2, TimerCbIInv
<1>3. ASSUME NEW q \in Queues, NEW copy \in BOOLEAN, NEW i \in Arriving(acks[q]),
             RecvAck(q, i, copy)
      PROVE  IInv'
  BY <1>3, RecvAckIInv
<1>4. CASE Stop
  BY <1>4, StopIInv
<1>5. ASSUME NEW q \in Queues, NEW copy \in BOOLEAN, NEW i \in Arriving(data[q]),
             RecvData(q, i, copy)
      PROVE  IInv'
  BY <1>5, RecvDataIInv
<1>6. ASSUME NEW q \in Queues, \/ \E i \in DOMAIN data[q] : LoseData(q, i)
                               \/ \E i \in DOMAIN acks[q] : LoseAck(q, i)
      PROVE  IInv'
  BY <1>6, LoseIInv
<1>7. CASE Tick
  BY <1>7, TickIInv
<1>8. CASE UNCHANGED vars
  <2>1. Accounted(tx', done', sent')
    BY <1>8 DEF vars, IInv
  <2>. QED  BY <1>8, <2>1 DEF vars, IInv, TypeOK
<1>. QED  BY <1>1, <1>2, <1>3, <1>4, <1>5, <1>6, <1>7, <1>8 DEF Next

LEMMA SpecIInv == Spec => []IInv
  BY InitIInv, NextIInv, PTL DEF Spec

(* Every variable keeps its type, whatever the table of queues and the     *)
(* width of the numbers: sequence numbers stay within the width, queues    *)
(* hold entries, the timer is off or in the future.                        *)
THEOREM TypeCorrect == Spec => []TypeOK
<1>1. IInv => TypeOK
  BY DEF IInv
<1>. QED  BY <1>1, SpecIInv, PTL

(* Every accepted command is either queued or was reported done, exactly   *)
(* once: overwriting, retries, give-ups, acknowledgements, refusals of the *)
(* socket and stop neither lose a command nor report it twice.             *)
THEOREM DoneExactlyOnce == Spec => []DoneOnce
<1>1. IInv => DoneOnce
  <2>1. Pending = AllNames(tx)
    BY DEF Pending, PendingIn, AllNames, Names
  <2>2. Noted({}) = {}
    BY DEF Noted
  <2>. QED  BY <2>1, <2>2 DEF IInv, Accounted, Ready, DoneOnce
<1>. QED  BY <1>1, SpecIInv, PTL
-----------------------------------------------------------------------------
(***************************************************************************)
(* What the two ends know of one another: an acknowledged command was      *)
(* delivered, and commands are delivered in order and once.                *)
(***************************************************************************)

(***************************************************************************)
(* Numbers.  A queue whose counter was incremented s times has the number  *)
(* NumberOf(s).                                                            *)
(***************************************************************************)

NumberOf(s) == Seqnum(SeqSize - 1, s)

LEMMA Modulo ==
  ASSUME NEW a \in Nat
  PROVE  \E c \in Nat, r \in 0..(SeqSize - 1) :
            a = c * SeqSize + r /\ r = a % SeqSize
<1>. DEFINE c == a \div SeqSize
<1>1. c \in Nat /\ a = c * SeqSize + (a % SeqSize) /\ a % SeqSize \in 0..(SeqSize - 1)
  BY SeqAssumption
<1>. QED  BY <1>1

LEMMA Multiples ==
  ASSUME NEW c \in Int, NEW d \in Int, c < d
  PROVE  c * SeqSize + SeqSize <= d * SeqSize
<1>1. d - c - 1 \in Nat
  OBVIOUS
<1>2. (d - c - 1) * SeqSize \in Nat
  BY <1>1, SeqAssumption
<1>3. (d - c - 1) * SeqSize = d * SeqSize - c * SeqSize - SeqSize
  BY SeqAssumption
<1>. QED  BY <1>2, <1>3, SeqAssumption

LEMMA OneRemainder ==
  ASSUME NEW c \in Int, NEW d \in Int,
         NEW r \in 0..(SeqSize - 1), NEW t \in 0..(SeqSize - 1),
         c * SeqSize + r = d * SeqSize + t
  PROVE  r = t
<1>1. c * SeqSize \in Int /\ d * SeqSize \in Int /\ SeqSize \in Nat
  BY SeqAssumption
<1>2. CASE c < d
  <2>1. c * SeqSize + SeqSize <= d * SeqSize
    BY <1>2, Multiples
  <2>. QED  BY <2>1, <1>1
<1>3. CASE d < c
  <2>1. d * SeqSize + SeqSize <= c * SeqSize
    BY <1>3, Multiples
  <2>. QED  BY <2>1, <1>1
<1>4. CASE c = d
  BY <1>1, <1>4
<1>. QED  BY <1>2, <1>3, <1>4

LEMMA NumberIs ==
  ASSUME NEW s \in Nat
  PROVE  /\ NumberOf(s) \in 0..(SeqSize - 1)
         /\ \E c \in Nat : SeqSize - 1 + s = c * SeqSize + NumberOf(s)
<1>1. SeqSize - 1 + s \in Nat
  BY SeqAssumption
<1>. QED  BY <1>1, Modulo DEF NumberOf, Seqnum

LEMMA NumberStep ==
  ASSUME NEW s \in Nat, NEW k \in Nat
  PROVE  Seqnum(NumberOf(s), k) = NumberOf(s + k)
<1>1. PICK c \in Nat : SeqSize - 1 + s = c * SeqSize + NumberOf(s)
  BY NumberIs
<1>2. NumberOf(s) + k \in Nat
  BY NumberIs, SeqAssumption
<1>3. PICK d \in Nat, r \in 0..(SeqSize - 1) :
         NumberOf(s) + k = d * SeqSize + r /\ r = Seqnum(NumberOf(s), k)
  BY <1>2, Modulo DEF Seqnum
<1>4. PICK e \in Nat : SeqSize - 1 + (s + k) = e * SeqSize + NumberOf(s + k)
  BY NumberIs
<1>5. (c + d) * SeqSize = c * SeqSize + d * SeqSize
  BY SeqAssumption
<1>6. /\ c * SeqSize \in Int /\ d * SeqSize \in Int /\ e * SeqSize \in Int
      /\ NumberOf(s) \in Int /\ NumberOf(s + k) \in 0..(SeqSize - 1)
      /\ SeqSize \in Int
  BY SeqAssumption, NumberIs
<1>7. (c + d) * SeqSize + r = e * SeqSize + NumberOf(s + k)
  BY <1>1, <1>3, <1>4, <1>5, <1>6
<1>8. c + d \in Int /\ e \in Int
  OBVIOUS
<1>9. r = NumberOf(s + k)
  BY <1>6, <1>7, <1>8, OneRemainder
<1>. QED  BY <1>3, <1>9

LEMMA NumberStart == NumberOf(0) = SeqSize - 1
<1>1. PICK c \in Nat : SeqSize - 1 + 0 = c * SeqSize + NumberOf(0)
  BY NumberIs
<1>2. 0 * SeqSize = 0 /\ SeqSize - 1 \in 0..(SeqSize - 1)
  BY SeqAssumption
<1>3. c * SeqSize + NumberOf(0) = 0 * SeqSize + (SeqSize - 1)
  BY <1>1, <1>2, SeqAssumption
<1>. QED  BY <1>2, <1>3, NumberIs, OneRemainder

(* Numbers less than the width apart tell serial numbers apart.            *)
LEMMA NumberUnique ==
  ASSUME NEW s \in Nat, NEW t \in Nat, s <= t, t - s < SeqSize,
         NumberOf(s) = NumberOf(t)
  PROVE  s = t
<1>1. PICK c \in Nat : SeqSize - 1 + s = c * SeqSize + NumberOf(s)
  BY NumberIs
<1>2. PICK d \in Nat : SeqSize - 1 + t = d * SeqSize + NumberOf(t)
  BY NumberIs
<1>3. /\ c * SeqSize \in Int /\ d * SeqSize \in Int
      /\ NumberOf(s) \in Int /\ SeqSize \in Int
  BY SeqAssumption, NumberIs
<1>4. CASE c < d
  <2>1. c * SeqSize + SeqSize <= d * SeqSize
    BY <1>4, Multiples
  <2>. QED  BY <1>1, <1>2, <1>3, <2>1
<1>5. CASE d < c
  <2>1. d * SeqSize + SeqSize <= c * SeqSize
    BY <1>5, Multiples
  <2>. QED  BY <1>1, <1>2, <1>3, <2>1, SeqAssumption
<1>6. CASE c = d
  BY <1>1, <1>2, <1>3, <1>6
<1>. QED  BY <1>4, <1>5, <1>6

(* A newer frame within the window is taken for one.                       *)
LEMMA NewerIsProcessed ==
  ASSUME NEW s \in Nat, NEW t \in Nat, s < t, t - s < SeqSize - Window
  PROVE  ShouldProcess(NumberOf(s), NumberOf(t))
<1>1. PICK c \in Nat : SeqSize - 1 + s = c * SeqSize + NumberOf(s)
  BY NumberIs
<1>2. PICK d \in Nat : SeqSize - 1 + t = d * SeqSize + NumberOf(t)
  BY NumberIs
<1>3. /\ c * SeqSize \in Int /\ d * SeqSize \in Int
      /\ NumberOf(s) \in 0..(SeqSize - 1) /\ NumberOf(t) \in 0..(SeqSize - 1)
      /\ SeqSize \in Nat /\ Window \in Nat
  BY SeqAssumption, NumberIs
<1>4. CASE c = d
  BY <1>1, <1>2, <1>3, <1>4 DEF ShouldProcess
<1>5. CASE d < c
  <2>1. d * SeqSize + SeqSize <= c * SeqSize
    BY <1>5, Multiples
  <2>. QED  BY <1>1, <1>2, <1>3, <2>1
<1>6. CASE c < d /\ d <= c + 1
  <2>1. d = c + 1 /\ (c + 1) * SeqSize = c * SeqSize + SeqSize
    BY <1>6, SeqAssumption
  <2>2. NumberOf(t) - NumberOf(s) = (t - s) - SeqSize
    BY <1>1, <1>2, <1>3, <2>1
  <2>. QED  BY <1>3, <2>2 DEF ShouldProcess
<1>7. CASE c + 1 < d
  <2>1. (c + 1) * SeqSize + SeqSize <= d * SeqSize
    BY <1>7, Multiples
  <2>2. (c + 1) * SeqSize = c * SeqSize + SeqSize
    BY SeqAssumption
  <2>. QED  BY <1>1, <1>2, <1>3, <2>1, <2>2
<1>. QED  BY <1>4, <1>5, <1>6, <1>7

(***************************************************************************)
(* One queue and the marks that its frames left in the network and at the  *)
(* receiver.  A mark is what a datagram says but for how late it is.       *)
(***************************************************************************)

MarkType == [seq : 0..(SeqSize - 1), serial : Nat, n : Cmds]
Mark(d) == [seq |-> d.seq, serial |-> d.serial, n |-> d.n]
MarksOf(channel) == {Mark(channel[i]) : i \in DOMAIN channel}

(* The head has used the queue's current number.                           *)
Opened(qu) == qu.entries # <<>> /\ (qu.entries[1].waiting \/ qu.entries[1].retry > 0)

(* Only the head of a queue with acknowledgement was ever sent.            *)
Shaped(q, qu) ==
    /\ qu.seq = NumberOf(qu.serial)
    /\ \A i \in DOMAIN qu.entries :
          i > 1 \/ ~WithAck(q) => ~qu.entries[i].waiting /\ qu.entries[i].retry = 0
    /\ InFlight(qu) => qu.entries[1].seq = qu.seq
    /\ Opened(qu) => qu.serial > 0

(* A serial number belongs to one command.                                 *)
Agrees(qu, M) ==
    /\ \A m \in M : 0 < m.serial /\ m.serial <= qu.serial /\ m.seq = NumberOf(m.serial)
    /\ \A a, b \in M : a.serial = b.serial => a.n = b.n
    /\ Opened(qu) => \A m \in M : m.serial = qu.serial => m.n = qu.entries[1].n

(* Later commands have greater serial numbers, and those not sent yet are  *)
(* later than all that were.                                               *)
Ordered(qu, M) ==
    /\ \A a, b \in M : a.serial < b.serial => a.n < b.n
    /\ \A i, j \in DOMAIN qu.entries : i < j => qu.entries[i].n < qu.entries[j].n
    /\ \A m \in M, i \in DOMAIN qu.entries :
          m.n < qu.entries[i].n \/ (i = 1 /\ Opened(qu) /\ m.serial = qu.serial)

Fits(q, qu, M) ==
    /\ Shaped(q, qu)
    /\ Agrees(qu, M)
    /\ ~Info[q].overwrite => Ordered(qu, M)

LEMMA FewerMarks ==
  ASSUME NEW q, NEW qu, NEW M, NEW N, N \subseteq M, Fits(q, qu, M)
  PROVE  Fits(q, qu, N)
<1>1. Agrees(qu, N)
  BY DEF Fits, Agrees
<1>2. Ordered(qu, M) => Ordered(qu, N)
  BY DEF Ordered
<1>. QED  BY <1>1, <1>2 DEF Fits

LEMMA PopFits ==
  ASSUME NEW q \in Queues, NEW qu \in Queue, NEW M \in SUBSET MarkType,
         Fits(q, qu, M), qu.entries # <<>>
  PROVE  Fits(q, QueuePop(qu), M) /\ QueuePop(qu).serial = qu.serial
<1>. DEFINE new == QueuePop(qu)
<1>1. /\ new.entries = Tail(qu.entries) /\ new \in Queue
      /\ new.serial = qu.serial /\ new.seq = qu.seq
  BY QueuePopType DEF QueuePop, Queue
<1>2. /\ qu.entries \in Seq(Entry) /\ DOMAIN qu.entries = 1..Len(qu.entries)
      /\ Len(qu.entries) \in Nat
  BY QueueType
<1>. HIDE DEF new
<1>3. /\ DOMAIN new.entries = 1..(Len(qu.entries) - 1)
      /\ \A i \in DOMAIN new.entries : /\ i + 1 \in DOMAIN qu.entries /\ i + 1 > 1
                                       /\ new.entries[i] = qu.entries[i + 1]
  BY <1>1, <1>2
<1>4. \A i \in DOMAIN new.entries : ~new.entries[i].waiting /\ new.entries[i].retry = 0
  BY <1>3 DEF Fits, Shaped
<1>5. ~Opened(new) /\ ~InFlight(new)
  <2>1. new.entries # <<>> => 1 \in DOMAIN new.entries /\ Head(new.entries) = new.entries[1]
    BY <1>1, QueueType
  <2>2. 1 \in DOMAIN new.entries => new.entries[1].retry = 0 /\ ~new.entries[1].waiting
    BY <1>4
  <2>3. ~InFlight(new)
    BY <2>1, <2>2 DEF InFlight
  <2>4. 1 \in DOMAIN new.entries => ~(new.entries[1].retry > 0)
    BY <2>2
  <2>. QED  BY <2>1, <2>2, <2>3, <2>4 DEF Opened
<1>6. Shaped(q, new)
  BY <1>1, <1>4, <1>5 DEF Fits, Shaped
<1>7. Agrees(new, M)
  BY <1>1, <1>5 DEF Fits, Agrees
<1>8. Ordered(qu, M) => Ordered(new, M)
  <2>1. SUFFICES ASSUME Ordered(qu, M)
                 PROVE  Ordered(new, M)
    OBVIOUS
  <2>2. \A i, j \in DOMAIN new.entries : i < j => new.entries[i].n < new.entries[j].n
    <3>1. \A i, j \in DOMAIN new.entries : i < j => i + 1 < j + 1
      BY <1>3
    <3>. QED  BY <1>3, <2>1, <3>1 DEF Ordered
  <2>3. \A m \in M, i \in DOMAIN new.entries : m.n < new.entries[i].n
    <3>1. \A i \in DOMAIN new.entries : i + 1 # 1
      BY <1>3
    <3>. QED  BY <1>3, <2>1, <3>1 DEF Ordered
  <2>. QED  BY <2>1, <2>2, <2>3 DEF Ordered
<1>. QED  BY <1>1, <1>6, <1>7, <1>8 DEF Fits, new

(* Replacing the head by another version of the same command.              *)
LEMMA HeadFits ==
  ASSUME NEW q \in Queues, NEW qu \in Queue, NEW new \in Queue, NEW M \in SUBSET MarkType,
         Fits(q, qu, M), qu.entries # <<>>, WithAck(q),
         new.serial = qu.serial, new.seq = qu.seq,
         DOMAIN new.entries = DOMAIN qu.entries,
         \A j \in DOMAIN qu.entries : j # 1 => new.entries[j] = qu.entries[j],
         new.entries[1].n = qu.entries[1].n,
         Opened(qu), Opened(new), InFlight(new) => new.entries[1].seq = qu.seq
  PROVE  Fits(q, new, M)
<1>1. Shaped(q, new)
  BY DEF Fits, Shaped
<1>2. \A j \in DOMAIN qu.entries : new.entries[j].n = qu.entries[j].n
  OBVIOUS
<1>3. Agrees(new, M)
  BY DEF Fits, Agrees
<1>4. Ordered(qu, M) => Ordered(new, M)
  BY <1>2 DEF Ordered
<1>. QED  BY <1>1, <1>3, <1>4 DEF Fits

LEMMA ExpireFits ==
  ASSUME NEW q \in Queues, NEW qu \in Queue, NEW M \in SUBSET MarkType, Fits(q, qu, M)
  PROVE  Fits(q, Expire(q, qu), M) /\ Expire(q, qu).serial = qu.serial
<1>1. CASE ~InFlight(qu)
  BY <1>1 DEF Expire
<1>2. CASE InFlight(qu) /\ GivesUp(q, Head(qu.entries))
  BY <1>2, PopFits DEF Expire, InFlight
<1>3. CASE InFlight(qu) /\ ~GivesUp(q, Head(qu.entries))
  <2>. DEFINE e == Retried(qu.entries[1])
              new == [qu EXCEPT !.entries[1] = e]
  <2>1. /\ qu.entries # <<>> /\ 1 \in DOMAIN qu.entries /\ qu.entries[1].waiting
        /\ qu.entries[1] \in Entry
    BY <1>3, QueueType DEF InFlight
  <2>2. WithAck(q)
    BY <2>1 DEF Fits, Shaped
  <2>3. e \in Entry /\ e.n = qu.entries[1].n /\ e.waiting = FALSE /\ e.retry > 0
    BY <2>1, RetriedType
  <2>4. Expire(q, qu) = new
    BY <1>3 DEF Expire
  <2>. HIDE DEF e
  <2>5. /\ new \in Queue /\ DOMAIN new.entries = DOMAIN qu.entries
        /\ Len(new.entries) = Len(qu.entries)
        /\ \A j \in DOMAIN qu.entries :
              new.entries[j] = IF j = 1 THEN e ELSE qu.entries[j]
    BY <2>1, <2>3, ReplaceEntry
  <2>6. new.serial = qu.serial /\ new.seq = qu.seq
    BY DEF Queue
  <2>. HIDE DEF new
  <2>7. new.entries[1] = e /\ new.entries # <<>> /\ Head(new.entries) = new.entries[1]
    <3>1. new.entries # <<>>
      BY <2>1, <2>5
    <3>. QED  BY <3>1, <2>1, <2>5, QueueType
  <2>8. Opened(qu)
    BY <2>1 DEF Opened
  <2>9. Opened(new) /\ ~InFlight(new)
    BY <2>3, <2>7 DEF Opened, InFlight
  <2>10. \A j \in DOMAIN qu.entries : j # 1 => new.entries[j] = qu.entries[j]
    BY <2>5
  <2>11. new.entries[1].n = qu.entries[1].n
    BY <2>3, <2>7
  <2>12. Fits(q, new, M)
    BY <2>1, <2>2, <2>5, <2>6, <2>8, <2>9, <2>10, <2>11, HeadFits
  <2>. QED  BY <2>4, <2>6, <2>12
<1>. QED  BY <1>1, <1>2, <1>3

(* What a pass over queue qu, beside marks M, leaves.                      *)
Follows(q, qu, pass, M) ==
    /\ Fits(q, pass.queue, M \cup MarksOf(pass.frames))
    /\ qu.serial <= pass.queue.serial
    /\ \A i \in DOMAIN pass.frames : /\ qu.serial <= pass.frames[i].serial
                                     /\ pass.frames[i].n \in Names(qu)
    /\ \A i, j \in DOMAIN pass.frames :
          i < j => pass.frames[i].serial <= pass.frames[j].serial

LEMMA PassFields ==
  ASSUME NEW qu, NEW frames, NEW notes, NEW timeout
  PROVE  /\ Pass(qu, frames, notes, timeout).queue = qu
         /\ Pass(qu, frames, notes, timeout).frames = frames
  BY DEF Pass

LEMMA FollowsIs ==
  ASSUME NEW q, NEW qu, NEW out, NEW frames, NEW notes, NEW timeout, NEW M,
         Fits(q, out, M \cup MarksOf(frames)), qu.serial <= out.serial,
         \A i \in DOMAIN frames : /\ qu.serial <= frames[i].serial
                                  /\ frames[i].n \in Names(qu),
         \A i, j \in DOMAIN frames : i < j => frames[i].serial <= frames[j].serial
  PROVE  Follows(q, qu, Pass(out, frames, notes, timeout), M)
<1>. DEFINE pass == Pass(out, frames, notes, timeout)
<1>1. pass.queue = out /\ pass.frames = frames
  BY PassFields
<1>. HIDE DEF pass
<1>2. Follows(q, qu, pass, M)
  BY <1>1 DEF Follows
<1>. QED  BY <1>2 DEF pass

LEMMA IdleFollows ==
  ASSUME NEW q \in Queues, NEW qu \in Queue, NEW M \in SUBSET MarkType, Fits(q, qu, M),
         NEW notes, NEW timeout
  PROVE  Follows(q, qu, Pass(qu, <<>>, notes, timeout), M)
<1>. DEFINE none == <<>>
<1>1. DOMAIN none = {}
  OBVIOUS
<1>2. qu.serial <= qu.serial
  BY QueueType
<1>. HIDE DEF none
<1>3. M \cup MarksOf(none) = M
  BY <1>1 DEF MarksOf
<1>4. Follows(q, qu, Pass(qu, none, notes, timeout), M)
  BY <1>1, <1>2, <1>3, FollowsIs
<1>. QED  BY <1>4 DEF none

(* A new head takes a number that nothing else has.                        *)
LEMMA NumberedFits ==
  ASSUME NEW q \in Queues, NEW qu \in Queue, NEW M \in SUBSET MarkType,
         Fits(q, qu, M), Unsent(qu)
  PROVE  LET num == Numbered(qu)
         IN  /\ Fits(q, num, M) /\ qu.serial <= num.serial /\ num.serial > 0
             /\ num.seq = NumberOf(num.serial)
             /\ num.entries[1].retry > 0 => Opened(num)
             /\ num.entries[1].retry = 0 =>
                   /\ \A m \in M : m.serial < num.serial
                   /\ ~Info[q].overwrite => \A m \in M, i \in DOMAIN num.entries :
                                               m.n < num.entries[i].n
<1>. DEFINE num == Numbered(qu)
<1>1. /\ qu.entries # <<>> /\ Head(qu.entries) = qu.entries[1] /\ ~qu.entries[1].waiting
      /\ 1 \in DOMAIN qu.entries /\ qu.entries[1].retry \in Nat
      /\ qu.serial \in Nat /\ qu.seq \in Nat
  BY QueueType, SeqAssumption, BoundsAssumption DEF Unsent, Entry
<1>2. num \in Queue /\ num.entries = qu.entries
  BY <1>1, NumberedType
<1>3. ~InFlight(num) /\ ~InFlight(qu)
  BY <1>1, <1>2 DEF InFlight
<1>4. CASE qu.entries[1].retry > 0
  <2>1. num = qu
    BY <1>1, <1>4 DEF Numbered
  <2>2. Opened(qu)
    BY <1>1, <1>4 DEF Opened
  <2>3. qu.serial > 0 /\ qu.seq = NumberOf(qu.serial)
    BY <2>2 DEF Fits, Shaped
  <2>4. num.entries[1].retry # 0
    BY <1>2, <1>4
  <2>5. Fits(q, num, M) /\ Opened(num) /\ num.seq = NumberOf(num.serial)
    BY <2>1, <2>2, <2>3
  <2>6. qu.serial <= num.serial /\ num.serial > 0
    BY <1>1, <2>1, <2>3
  <2>. HIDE DEF num
  <2>. QED  BY <2>4, <2>5, <2>6 DEF num
<1>5. CASE qu.entries[1].retry = 0
  <2>1. num = [qu EXCEPT !.seq = Seqnum(qu.seq, 1), !.serial = qu.serial + 1]
    BY <1>1, <1>5 DEF Numbered
  <2>2. num.serial = qu.serial + 1 /\ num.seq = Seqnum(qu.seq, 1)
    BY <2>1 DEF Queue
  <2>. HIDE DEF num
  <2>3. ~Opened(qu) /\ ~Opened(num)
    BY <1>1, <1>2, <1>5 DEF Opened
  <2>4. num.seq = NumberOf(num.serial)
    <3>1. qu.seq = NumberOf(qu.serial)
      BY DEF Fits, Shaped
    <3>. QED  BY <1>1, <2>2, <3>1, NumberStep
  <2>5. Shaped(q, num)
    BY <1>2, <1>3, <2>3, <2>4 DEF Fits, Shaped
  <2>6. \A m \in M : /\ 0 < m.serial /\ m.serial < num.serial /\ m.serial <= num.serial
                     /\ m.seq = NumberOf(m.serial)
    <3>1. ASSUME NEW m \in M
          PROVE  /\ 0 < m.serial /\ m.serial < num.serial /\ m.serial <= num.serial
                 /\ m.seq = NumberOf(m.serial)
      <4>1. m.serial \in Nat /\ 0 < m.serial /\ m.serial <= qu.serial
            /\ m.seq = NumberOf(m.serial)
        BY DEF Fits, Agrees, MarkType
      <4>. QED  BY <1>1, <2>2, <4>1
    <3>. QED  BY <3>1
  <2>7. Agrees(num, M)
    BY <2>3, <2>6 DEF Fits, Agrees
  <2>8. ~Info[q].overwrite => Ordered(num, M) /\ \A m \in M, i \in DOMAIN num.entries :
                                                     m.n < num.entries[i].n
    <3>1. Ordered(qu, M) => \A m \in M, i \in DOMAIN num.entries : m.n < num.entries[i].n
      BY <1>2, <2>3 DEF Ordered
    <3>2. Ordered(qu, M) => Ordered(num, M)
      BY <1>2, <3>1 DEF Ordered
    <3>. QED  BY <3>1, <3>2 DEF Fits
  <2>9. qu.serial <= num.serial /\ num.serial > 0
    BY <1>1, <2>2
  <2>10. ~(num.entries[1].retry > 0)
    BY <1>2, <1>5
  <2>11. Fits(q, num, M)
    BY <2>5, <2>7, <2>8 DEF Fits
  <2>. QED  BY <2>4, <2>6, <2>8, <2>9, <2>10, <2>11 DEF num
<1>. QED  BY <1>1, <1>4, <1>5

LEMMA TransmitHeadFollows ==
  ASSUME NEW q \in Queues, NEW qu \in Queue, NEW M \in SUBSET MarkType,
         Fits(q, qu, M), Unsent(qu), WithAck(q), NEW ok \in 0..MaxCmds
  PROVE  Follows(q, qu, TransmitHead(q, qu, ok), M)
<1>. DEFINE num == Numbered(qu)
            new == [num.entries[1] EXCEPT !.seq = num.seq, !.waiting = TRUE, !.age = 0]
            out == [num EXCEPT !.txAge = 0, !.entries[1] = new]
            mk  == Mark(Frame(num, 1, 0))
<1>1. /\ qu.entries # <<>> /\ num \in Queue /\ num.entries = qu.entries
      /\ num.seq \in 0..(SeqSize - 1) /\ num.serial \in Nat
      /\ 1 \in DOMAIN num.entries /\ num.entries[1] \in Entry
      /\ DOMAIN num.entries = DOMAIN qu.entries
  BY NumberedType, QueueType DEF Unsent
<1>2. /\ Fits(q, num, M) /\ qu.serial <= num.serial /\ num.serial > 0
      /\ num.seq = NumberOf(num.serial)
      /\ num.entries[1].retry > 0 => Opened(num)
      /\ num.entries[1].retry = 0 =>
            /\ \A m \in M : m.serial < num.serial
            /\ ~Info[q].overwrite => \A m \in M, i \in DOMAIN num.entries :
                                        m.n < num.entries[i].n
  BY NumberedFits
<1>. HIDE DEF num
<1>3. CASE ok = 0
  <2>1. Follows(q, qu, Pass(num, <<>>, {}, Off), M)
    <3>. DEFINE none == <<>>
    <3>1. DOMAIN none = {}
      OBVIOUS
    <3>. HIDE DEF none
    <3>2. M \cup MarksOf(none) = M
      BY <3>1 DEF MarksOf
    <3>3. Follows(q, qu, Pass(num, none, {}, Off), M)
      BY <1>2, <3>1, <3>2, FollowsIs
    <3>. QED  BY <3>3 DEF none
  <2>. QED  BY <2>1, <1>3 DEF TransmitHead, num
<1>4. CASE ok # 0
  <2>1. /\ new \in Entry /\ new.n = num.entries[1].n /\ new.waiting = TRUE
        /\ new.seq = num.seq
    BY <1>1 DEF Entry
  <2>. HIDE DEF new
  <2>2. /\ out \in Queue /\ out.serial = num.serial /\ out.seq = num.seq
        /\ DOMAIN out.entries = DOMAIN num.entries
        /\ \A j \in DOMAIN num.entries :
              out.entries[j] = IF j = 1 THEN new ELSE num.entries[j]
    <3>. DEFINE base == [num EXCEPT !.txAge = 0]
    <3>1. base \in Queue /\ base.entries = num.entries
      BY <1>1 DEF Queue
    <3>2. out = [base EXCEPT !.entries[1] = new]
      OBVIOUS
    <3>3. out.serial = num.serial /\ out.seq = num.seq
      BY <1>1 DEF Queue
    <3>. HIDE DEF out, base
    <3>. QED  BY <1>1, <2>1, <3>1, <3>2, <3>3, ReplaceEntry
  <2>3. TransmitHead(q, qu, ok) = Pass(out, <<Frame(num, 1, 0)>>, {}, Info[q].ackTimeout)
    BY <1>4 DEF TransmitHead, num, new
  <2>. HIDE DEF out
  <2>4. /\ out.entries # <<>> /\ out.entries[1] = new /\ Head(out.entries) = new
        /\ \A j \in DOMAIN num.entries : out.entries[j].n = num.entries[j].n
    BY <1>1, <2>1, <2>2, QueueType
  <2>5. Opened(out)
    BY <2>1, <2>4 DEF Opened
  <2>6. mk.serial = num.serial /\ mk.n = num.entries[1].n /\ mk.seq = NumberOf(num.serial)
        /\ Frame(num, 1, 0).serial = num.serial /\ Frame(num, 1, 0).n = num.entries[1].n
    <3>1. Seqnum(num.seq, 0) = NumberOf(num.serial)
      <4>1. num.serial + 0 = num.serial
        BY <1>1
      <4>. QED  BY <1>1, <1>2, <4>1, NumberStep
    <3>2. num.serial + 0 = num.serial
      BY <1>1
    <3>. QED  BY <3>1, <3>2 DEF Mark, Frame
  <2>. HIDE DEF mk
  <2>7. \A m \in M : m.serial \in Nat /\ m.n \in Nat /\ 0 < m.serial
                     /\ m.serial <= num.serial /\ m.seq = NumberOf(m.serial)
    BY <1>2 DEF Fits, Agrees, MarkType, Cmds
  <2>8. Shaped(q, out)
    <3>1. \A i \in DOMAIN out.entries :
             i > 1 \/ ~WithAck(q) => ~out.entries[i].waiting /\ out.entries[i].retry = 0
      <4>1. ASSUME NEW i \in DOMAIN out.entries, i > 1
            PROVE  ~out.entries[i].waiting /\ out.entries[i].retry = 0
        <5>1. out.entries[i] = num.entries[i] /\ i \in DOMAIN num.entries
          BY <2>2, <4>1
        <5>. QED  BY <5>1, <4>1, <1>2 DEF Fits, Shaped
      <4>. QED  BY <4>1
    <3>. QED  BY <3>1, <1>2, <2>1, <2>2, <2>4 DEF Shaped
  <2>9. \A m \in M : m.serial = num.serial => m.n = num.entries[1].n
    <3>1. CASE num.entries[1].retry > 0
      BY <1>2, <3>1 DEF Fits, Agrees
    <3>2. CASE num.entries[1].retry = 0
      BY <1>2, <2>7, <3>2
    <3>3. num.entries[1].retry \in Nat
      BY <1>1, BoundsAssumption DEF Entry
    <3>. QED  BY <3>1, <3>2, <3>3
  <2>10. Agrees(out, M \cup {mk})
    <3>1. \A a, b \in M : a.serial = b.serial => a.n = b.n
      BY <1>2 DEF Fits, Agrees
    <3>2. \A m \in M \cup {mk} : m.serial = num.serial => m.n = num.entries[1].n
      BY <2>6, <2>9
    <3>3. \A a, b \in M \cup {mk} : a.serial = b.serial => a.n = b.n
      BY <2>6, <3>1, <3>2
    <3>4. \A m \in M \cup {mk} : 0 < m.serial /\ m.serial <= num.serial
                                 /\ m.seq = NumberOf(m.serial)
      BY <1>1, <1>2, <2>6, <2>7
    <3>. QED  BY <2>1, <2>2, <2>4, <3>2, <3>3, <3>4 DEF Agrees
  <2>11. ASSUME ~Info[q].overwrite
         PROVE  Ordered(out, M \cup {mk})
    <3>1. Ordered(num, M)
      BY <1>2, <2>11 DEF Fits
    <3>2. \A m \in M : m.n < num.entries[1].n \/ m.serial = num.serial
      BY <1>1, <3>1 DEF Ordered
    <3>3. \A a, b \in M \cup {mk} : a.serial < b.serial => a.n < b.n
      <4>1. \A a \in M : a.serial < mk.serial => a.n < mk.n
        BY <1>1, <2>6, <2>7, <3>2
      <4>2. \A b \in M : ~(mk.serial < b.serial)
        BY <1>1, <2>6, <2>7
      <4>3. ~(mk.serial < mk.serial)
        BY <1>1, <2>6
      <4>4. \A a, b \in M : a.serial < b.serial => a.n < b.n
        BY <3>1 DEF Ordered
      <4>. QED  BY <4>1, <4>2, <4>3, <4>4
    <3>4. \A i, j \in DOMAIN out.entries : i < j => out.entries[i].n < out.entries[j].n
      BY <2>2, <2>4, <3>1 DEF Ordered
    <3>5. \A m \in M, i \in DOMAIN out.entries :
             m.n < out.entries[i].n \/ (i = 1 /\ m.serial = out.serial)
      BY <2>2, <2>4, <3>1 DEF Ordered
    <3>6. \A i \in DOMAIN out.entries : mk.n < out.entries[i].n \/ i = 1
      <4>1. ASSUME NEW i \in DOMAIN out.entries, i # 1
            PROVE  mk.n < out.entries[i].n
        <5>1. i \in DOMAIN num.entries /\ 1 < i
          BY <1>1, <2>2, <4>1, QueueType
        <5>2. num.entries[1].n < num.entries[i].n
          BY <1>1, <3>1, <5>1 DEF Ordered
        <5>. QED  BY <2>4, <2>6, <5>1, <5>2
      <4>. QED  BY <4>1
    <3>7. mk.serial = out.serial
      BY <2>2, <2>6
    <3>. QED  BY <2>5, <3>3, <3>4, <3>5, <3>6, <3>7 DEF Ordered
  <2>12. DOMAIN <<Frame(num, 1, 0)>> = {1} /\ <<Frame(num, 1, 0)>>[1] = Frame(num, 1, 0)
    OBVIOUS
  <2>13. MarksOf(<<Frame(num, 1, 0)>>) = {mk}
    BY <2>12 DEF MarksOf, mk
  <2>14. Fits(q, out, M \cup {mk})
    BY <2>8, <2>10, <2>11 DEF Fits
  <2>15. num.entries[1].n \in Names(qu)
    BY <1>1 DEF Names
  <2>16. Follows(q, qu, Pass(out, <<Frame(num, 1, 0)>>, {}, Info[q].ackTimeout), M)
    <3>. DEFINE fs == <<Frame(num, 1, 0)>>
    <3>1. \A i \in DOMAIN fs : qu.serial <= fs[i].serial /\ fs[i].n \in Names(qu)
      BY <1>2, <2>6, <2>12, <2>15
    <3>2. \A i, j \in DOMAIN fs : i < j => fs[i].serial <= fs[j].serial
      BY <2>12
    <3>3. qu.serial <= out.serial
      BY <1>2, <2>2
    <3>4. Fits(q, out, M \cup MarksOf(fs))
      BY <2>13, <2>14
    <3>. HIDE DEF fs
    <3>5. Follows(q, qu, Pass(out, fs, {}, Info[q].ackTimeout), M)
      BY <3>1, <3>2, <3>3, <3>4, FollowsIs
    <3>. QED  BY <3>5 DEF fs
  <2>. QED  BY <2>3, <2>16
<1>. QED  BY <1>3, <1>4

(* A burst of a queue without acknowledgement: each frame takes the next   *)
(* number.                                                                 *)
LEMMA TransmitAllFollows ==
  ASSUME NEW q \in Queues, NEW qu \in Queue, NEW M \in SUBSET MarkType,
         Fits(q, qu, M), qu.entries # <<>>, ~WithAck(q), NEW ok \in 0..MaxCmds
  PROVE  Follows(q, qu, TransmitAll(q, qu, ok), M)
<1>. DEFINE burst == IF Info[q].maxRate > 0 THEN 1 ELSE Len(qu.entries)
            k     == IF ok < burst THEN ok ELSE burst
            tried == IF ok < burst THEN ok + 1 ELSE burst
            out   == [qu EXCEPT !.entries = SubSeq(@, k + 1, Len(@)),
                                !.seq = Seqnum(@, tried),
                                !.serial = @ + tried,
                                !.txAge = IF k > 0 THEN 0 ELSE @]
            frames == [i \in 1..k |-> Frame(qu, i, i)]
            notes == {Note(qu.entries[i].n, "PACKED") : i \in 1..k}
            timeout == IF k = burst /\ k < Len(qu.entries) THEN 0 ELSE Off
            N == M \cup MarksOf(frames)
<1>1. /\ Len(qu.entries) \in Nat /\ Len(qu.entries) > 0
      /\ DOMAIN qu.entries = 1..Len(qu.entries) /\ qu.seq \in Nat /\ qu.serial \in Nat
      /\ qu.entries \in Seq(Entry)
  BY QueueType, EmptySeq, SeqAssumption
<1>2. burst \in 1..Len(qu.entries)
  BY <1>1
<1>. HIDE DEF burst
<1>3. k \in 0..Len(qu.entries) /\ tried \in Nat /\ k \in Nat /\ k <= tried
  BY <1>1, <1>2, BoundsAssumption
<1>4. TransmitAll(q, qu, ok) = Pass(out, frames, notes, timeout)
  BY DEF TransmitAll, out, k, tried, burst
<1>. HIDE DEF k, tried, notes, timeout
<1>5. /\ out.entries = SubSeq(qu.entries, k + 1, Len(qu.entries))
      /\ out.seq = Seqnum(qu.seq, tried)
      /\ out.serial = qu.serial + tried
  BY DEF Queue
<1>. HIDE DEF out
<1>6. /\ DOMAIN out.entries = 1..(Len(qu.entries) - k)
      /\ \A i \in DOMAIN out.entries : /\ k + i \in DOMAIN qu.entries
                                       /\ out.entries[i] = qu.entries[k + i]
  BY <1>1, <1>3, <1>5, SubSeqProperties
<1>7. \A i \in DOMAIN qu.entries : ~qu.entries[i].waiting /\ qu.entries[i].retry = 0
  BY DEF Fits, Shaped
<1>8. ~Opened(out) /\ ~InFlight(out) /\ ~Opened(qu)
  <2>1. SubSeq(qu.entries, k + 1, Len(qu.entries)) \in Seq(Entry)
    <3>1. [entries |-> SubSeq(qu.entries, k + 1, Len(qu.entries))].entries \in Seq(Entry)
      BY <1>3, BurstNames
    <3>. QED  BY <3>1
  <2>2. out.entries # <<>> => Head(out.entries) = out.entries[1] /\ 1 \in DOMAIN out.entries
    BY <1>5, <2>1
  <2>3. qu.entries # <<>> => 1 \in DOMAIN qu.entries
    BY QueueType
  <2>4. \A i \in DOMAIN out.entries : ~out.entries[i].waiting /\ out.entries[i].retry = 0
    BY <1>6, <1>7
  <2>5. \A i \in DOMAIN out.entries : ~(out.entries[i].retry > 0)
    BY <2>4
  <2>6. \A i \in DOMAIN qu.entries : ~(qu.entries[i].retry > 0)
    BY <1>7
  <2>. QED  BY <1>7, <2>2, <2>3, <2>4, <2>5, <2>6 DEF Opened, InFlight
<1>9. Shaped(q, out)
  <2>1. out.seq = NumberOf(out.serial)
    <3>1. qu.seq = NumberOf(qu.serial)
      BY DEF Fits, Shaped
    <3>. QED  BY <1>1, <1>3, <1>5, <3>1, NumberStep
  <2>. QED  BY <1>6, <1>7, <1>8, <2>1 DEF Shaped
<1>10. ASSUME NEW i \in 1..k
       PROVE  /\ frames[i].serial = qu.serial + i /\ frames[i].n = qu.entries[i].n
              /\ frames[i].seq = NumberOf(qu.serial + i) /\ i \in DOMAIN qu.entries
              /\ Mark(frames[i]).serial = qu.serial + i
              /\ Mark(frames[i]).n = qu.entries[i].n
              /\ Mark(frames[i]).seq = NumberOf(qu.serial + i)
  <2>1. qu.seq = NumberOf(qu.serial)
    BY DEF Fits, Shaped
  <2>2. Seqnum(qu.seq, i) = NumberOf(qu.serial + i)
    <3>1. i \in Nat
      BY <1>3
    <3>. QED  BY <1>1, <2>1, <3>1, NumberStep
  <2>3. i \in DOMAIN qu.entries
    BY <1>1, <1>3
  <2>. QED  BY <2>2, <2>3 DEF Frame, Mark
<1>11. DOMAIN frames = 1..k
  OBVIOUS
<1>. HIDE DEF frames
<1>12. \A m \in N : \/ m \in M /\ m.serial <= qu.serial
                    \/ \E i \in 1..k : m = Mark(frames[i])
  BY <1>11 DEF MarksOf, Fits, Agrees
<1>. HIDE DEF N
<1>13. \A m \in M : m.serial \in Nat /\ 0 < m.serial /\ m.serial <= qu.serial
                    /\ m.seq = NumberOf(m.serial)
  BY DEF Fits, Agrees, MarkType
<1>14. Agrees(out, N)
  <2>1. ASSUME NEW m \in N
        PROVE  0 < m.serial /\ m.serial <= out.serial /\ m.seq = NumberOf(m.serial)
    <3>1. CASE m \in M
      BY <1>1, <1>3, <1>5, <1>13, <3>1
    <3>2. ASSUME NEW i \in 1..k, m = Mark(frames[i])
          PROVE  0 < m.serial /\ m.serial <= out.serial /\ m.seq = NumberOf(m.serial)
      <4>1. m.serial = qu.serial + i /\ m.seq = NumberOf(qu.serial + i)
        BY <1>10, <3>2
      <4>2. 0 < qu.serial + i /\ qu.serial + i <= qu.serial + tried
        BY <1>1, <1>3
      <4>. QED  BY <1>5, <4>1, <4>2
    <3>. QED  BY <1>12, <3>1, <3>2
  <2>2. ASSUME NEW a \in N, NEW b \in N, a.serial = b.serial
        PROVE  a.n = b.n
    <3>1. CASE a \in M /\ b \in M
      BY <2>2, <3>1 DEF Fits, Agrees
    <3>2. ASSUME NEW i \in 1..k, a = Mark(frames[i]), b \in M
          PROVE  FALSE
      BY <1>1, <1>10, <1>13, <2>2, <3>2
    <3>3. ASSUME NEW i \in 1..k, b = Mark(frames[i]), a \in M
          PROVE  FALSE
      BY <1>1, <1>10, <1>13, <2>2, <3>3
    <3>4. ASSUME NEW i \in 1..k, NEW j \in 1..k, a = Mark(frames[i]), b = Mark(frames[j])
          PROVE  a = b
      <4>1. qu.serial + i = qu.serial + j
        BY <1>10, <2>2, <3>4
      <4>2. i = j
        BY <1>1, <4>1
      <4>. QED  BY <3>4, <4>2
    <3>. QED  BY <1>12, <3>1, <3>2, <3>3, <3>4
  <2>. QED  BY <1>8, <2>1, <2>2 DEF Agrees
<1>15. ASSUME ~Info[q].overwrite
       PROVE  Ordered(out, N)
  <2>1. Ordered(qu, M)
    BY <1>15 DEF Fits
  <2>2. /\ \A i, j \in DOMAIN qu.entries : i < j => qu.entries[i].n < qu.entries[j].n
        /\ \A m \in M, i \in DOMAIN qu.entries : m.n < qu.entries[i].n
    BY <1>8, <2>1 DEF Ordered
  <2>3. ASSUME NEW a \in N, NEW b \in N, a.serial < b.serial
        PROVE  a.n < b.n
    <3>1. CASE a \in M /\ b \in M
      BY <2>1, <2>3, <3>1 DEF Ordered
    <3>2. ASSUME NEW i \in 1..k, b = Mark(frames[i]), a \in M
          PROVE  a.n < b.n
      BY <1>10, <2>2, <3>2
    <3>3. ASSUME NEW i \in 1..k, a = Mark(frames[i]), b \in M
          PROVE  FALSE
      BY <1>1, <1>10, <1>13, <2>3, <3>3
    <3>4. ASSUME NEW i \in 1..k, NEW j \in 1..k, a = Mark(frames[i]), b = Mark(frames[j])
          PROVE  a.n < b.n
      <4>1. qu.serial + i < qu.serial + j
        BY <1>10, <2>3, <3>4
      <4>2. i < j
        BY <1>1, <4>1
      <4>. QED  BY <1>10, <2>2, <3>4, <4>2
    <3>. QED  BY <1>12, <3>1, <3>2, <3>3, <3>4
  <2>4. \A i, j \in DOMAIN out.entries : i < j => out.entries[i].n < out.entries[j].n
    <3>1. \A i, j \in DOMAIN out.entries : i < j => k + i < k + j
      BY <1>3, <1>6
    <3>. QED  BY <1>6, <2>2, <3>1
  <2>5. ASSUME NEW m \in N, NEW j \in DOMAIN out.entries
        PROVE  m.n < out.entries[j].n
    <3>1. CASE m \in M
      BY <1>6, <2>2, <3>1
    <3>2. ASSUME NEW i \in 1..k, m = Mark(frames[i])
          PROVE  m.n < out.entries[j].n
      <4>1. i < k + j
        BY <1>3, <1>6
      <4>. QED  BY <1>6, <1>10, <2>2, <3>2, <4>1
    <3>. QED  BY <1>12, <3>1, <3>2
  <2>. QED  BY <2>3, <2>4, <2>5 DEF Ordered
<1>16. Fits(q, out, M \cup MarksOf(frames))
  <2>1. Fits(q, out, N)
    BY <1>9, <1>14, <1>15 DEF Fits
  <2>. QED  BY <2>1 DEF N
<1>17. \A i \in DOMAIN frames : qu.serial <= frames[i].serial /\ frames[i].n \in Names(qu)
  <2>1. \A i \in 1..k : qu.serial <= qu.serial + i
    BY <1>1
  <2>. QED  BY <1>10, <1>11, <2>1 DEF Names
<1>18. \A i, j \in DOMAIN frames : i < j => frames[i].serial <= frames[j].serial
  <2>1. \A i, j \in 1..k : i < j => qu.serial + i <= qu.serial + j
    BY <1>1
  <2>. QED  BY <1>10, <1>11, <2>1
<1>19. qu.serial <= out.serial
  BY <1>1, <1>3, <1>5
<1>. QED  BY <1>4, <1>16, <1>17, <1>18, <1>19, FollowsIs

LEMMA PassFollows ==
  ASSUME NEW q \in Queues, NEW qu \in Queue, NEW M \in SUBSET MarkType,
         Fits(q, qu, M), NEW ok \in 0..MaxCmds
  PROVE  Follows(q, qu, CheckTxQueue(q, qu, ok), M)
<1>1. CASE AckPending(q, qu)
  BY <1>1, IdleFollows DEF CheckTxQueue
<1>2. CASE ~AckPending(q, qu)
  <2>. DEFINE qx == Expire(q, qu)
              sending == Transmit(q, qx, ok)
              out == [sending EXCEPT !.notes = @ \cup ExpireNotes(q, qu)]
  <2>1. /\ qx \in Queue /\ Fits(q, qx, M) /\ qx.serial = qu.serial
        /\ Names(qx) \subseteq Names(qu)
    BY ExpireType, ExpireFits, ExpireNames DEF Accounts
  <2>2. CheckTxQueue(q, qu, ok) = out
    BY <1>2 DEF CheckTxQueue
  <2>. HIDE DEF qx
  <2>3. /\ Follows(q, qx, sending, M)
        /\ \E a, b, c, d : sending = Pass(a, b, c, d)
    <3>1. qx.entries # <<>> /\ WithAck(q) /\ Unsent(qx) => Follows(q, qx, TransmitHead(q, qx, ok), M)
      BY <2>1, TransmitHeadFollows
    <3>2. qx.entries # <<>> /\ ~WithAck(q) => Follows(q, qx, TransmitAll(q, qx, ok), M)
      BY <2>1, TransmitAllFollows
    <3>3. \A t : Follows(q, qx, Pass(qx, <<>>, {}, t), M)
      BY <2>1, IdleFollows
    <3>4. CASE qx.entries = <<>>
      BY <3>3, <3>4 DEF Transmit, Unsent
    <3>5. CASE Unsent(qx) /\ TooSoon(q, qx)
      BY <3>3, <3>5 DEF Transmit, Unsent
    <3>6. CASE Unsent(qx) /\ ~TooSoon(q, qx) /\ WithAck(q)
      <4>1. sending = TransmitHead(q, qx, ok)
        BY <3>6 DEF Transmit, Unsent
      <4>2. \E a, b, c, d : TransmitHead(q, qx, ok) = Pass(a, b, c, d)
        BY DEF TransmitHead
      <4>. QED  BY <3>1, <3>6, <4>1, <4>2 DEF Unsent
    <3>7. CASE Unsent(qx) /\ ~TooSoon(q, qx) /\ ~WithAck(q)
      <4>1. sending = TransmitAll(q, qx, ok)
        BY <3>7 DEF Transmit, Unsent
      <4>2. \E a, b, c, d : TransmitAll(q, qx, ok) = Pass(a, b, c, d)
        BY DEF TransmitAll
      <4>. QED  BY <3>2, <3>7, <4>1, <4>2 DEF Unsent
    <3>8. CASE qx.entries # <<>> /\ ~Unsent(qx)
      BY <3>3, <3>8 DEF Transmit, Unsent
    <3>. QED  BY <3>4, <3>5, <3>6, <3>7, <3>8
  <2>. HIDE DEF sending
  <2>4. out.queue = sending.queue /\ out.frames = sending.frames
    <3>1. \A a, b, c, d, e : LET p == Pass(a, b, c, d)
                             IN  /\ [p EXCEPT !.notes = e].queue = p.queue
                                 /\ [p EXCEPT !.notes = e].frames = p.frames
      BY DEF Pass
    <3>2. out = [sending EXCEPT !.notes = sending.notes \cup ExpireNotes(q, qu)]
      OBVIOUS
    <3>. HIDE DEF out
    <3>. QED  BY <2>3, <3>1, <3>2
  <2>. HIDE DEF out
  <2>5. Follows(q, qu, out, M)
    BY <2>1, <2>3, <2>4 DEF Follows
  <2>. QED  BY <2>2, <2>5
<1>. QED  BY <1>1, <1>2

(* A command named later than all others joins its queue.                  *)
LEMMA QueueAddFits ==
  ASSUME NEW q \in Queues, NEW qu \in Queue, NEW M \in SUBSET MarkType,
         NEW n \in Cmds, NEW kind \in Kinds, Fits(q, qu, M),
         \A m \in M : m.n < n, \A x \in Names(qu) : x < n
  PROVE  LET added == QueueAdd(q, qu, n, kind).queue
         IN  Fits(q, added, M) /\ added.serial = qu.serial
<1>. DEFINE R == Replaceable(q, qu, kind)
            i == CHOOSE i \in R : TRUE
            e == NewEntry(n, kind)
            added == QueueAdd(q, qu, n, kind).queue
<1>1. /\ e \in Entry /\ e.n = n /\ e.waiting = FALSE /\ e.retry = 0
      /\ qu.entries \in Seq(Entry)
      /\ DOMAIN qu.entries = 1..Len(qu.entries) /\ Len(qu.entries) \in Nat
      /\ \A j \in DOMAIN qu.entries : qu.entries[j].n < n
  BY NewEntryType, QueueType DEF NewEntry, Names
<1>2. CASE R = {}
  <2>. DEFINE grown == [qu EXCEPT !.entries = Append(qu.entries, e)]
  <2>1. added = grown
    BY <1>2 DEF QueueAdd
  <2>2. Append(qu.entries, e) \in Seq(Entry)
    BY <1>1
  <2>. HIDE DEF e, added
  <2>3. /\ grown \in Queue /\ grown.entries = Append(qu.entries, e)
        /\ grown.serial = qu.serial /\ grown.seq = qu.seq
    BY <2>2 DEF Queue
  <2>. HIDE DEF grown
  <2>4. /\ DOMAIN grown.entries = 1..(Len(qu.entries) + 1)
        /\ \A j \in 1..Len(qu.entries) : grown.entries[j] = qu.entries[j]
        /\ grown.entries[Len(qu.entries) + 1] = e
    BY <1>1, <2>3, AppendProperties, LenProperties
  <2>5. \A j \in DOMAIN grown.entries :
           \/ j \in DOMAIN qu.entries /\ grown.entries[j] = qu.entries[j]
           \/ j = Len(qu.entries) + 1 /\ grown.entries[j] = e
    BY <1>1, <2>4
  <2>6. /\ grown.entries # <<>> /\ Head(grown.entries) = grown.entries[1]
        /\ 1 \in DOMAIN grown.entries
    <3>1. 1 \in DOMAIN grown.entries
      BY <1>1, <2>4
    <3>. QED  BY <2>3, <3>1, QueueType
  <2>7. CASE qu.entries = <<>>
    <3>1. grown.entries[1] = e
      BY <1>1, <2>5, <2>6, <2>7
    <3>2. ~Opened(grown) /\ ~InFlight(grown) /\ ~Opened(qu)
      <4>1. ~(e.retry > 0)
        BY <1>1
      <4>. QED  BY <1>1, <2>6, <2>7, <3>1, <4>1 DEF Opened, InFlight
    <3>3. DOMAIN grown.entries = {1}
      BY <1>1, <2>4, <2>7
    <3>4. Shaped(q, grown)
      BY <1>1, <2>3, <3>1, <3>2, <3>3 DEF Fits, Shaped
    <3>5. Agrees(grown, M)
      BY <2>3, <3>2 DEF Fits, Agrees
    <3>6. Ordered(qu, M) => Ordered(grown, M)
      BY <1>1, <3>1, <3>3 DEF Ordered
    <3>7. Fits(q, grown, M)
      BY <3>4, <3>5, <3>6 DEF Fits
    <3>. QED  BY <2>1, <2>3, <3>7 DEF added
  <2>8. CASE qu.entries # <<>>
    <3>1. 1 \in DOMAIN qu.entries /\ Head(qu.entries) = qu.entries[1]
          /\ grown.entries[1] = qu.entries[1]
      BY <2>4, <2>8, QueueType
    <3>2. (Opened(grown) <=> Opened(qu)) /\ (InFlight(grown) <=> InFlight(qu))
      BY <2>6, <2>8, <3>1 DEF Opened, InFlight
    <3>3. Len(qu.entries) + 1 > 1
      BY <1>1, <3>1
    <3>4. Shaped(q, grown)
      <4>1. \A j \in DOMAIN grown.entries :
               j > 1 \/ ~WithAck(q) => ~grown.entries[j].waiting /\ grown.entries[j].retry = 0
        BY <1>1, <2>5 DEF Fits, Shaped
      <4>. QED  BY <2>3, <3>1, <3>2, <4>1 DEF Fits, Shaped
    <3>5. Agrees(grown, M)
      BY <2>3, <3>1, <3>2 DEF Fits, Agrees
    <3>6. ASSUME Ordered(qu, M)
          PROVE  Ordered(grown, M)
      <4>1. \A j, l \in DOMAIN grown.entries : j < l => grown.entries[j].n < grown.entries[l].n
        <5>1. \A j \in DOMAIN qu.entries : ~(Len(qu.entries) + 1 < j)
          BY <1>1
        <5>2. ~(Len(qu.entries) + 1 < Len(qu.entries) + 1)
          BY <1>1
        <5>. QED  BY <1>1, <2>5, <3>6, <5>1, <5>2 DEF Ordered
      <4>2. \A m \in M, j \in DOMAIN grown.entries :
               m.n < grown.entries[j].n \/ (j = 1 /\ Opened(grown) /\ m.serial = grown.serial)
        BY <1>1, <2>3, <2>5, <3>2, <3>6 DEF Ordered
      <4>3. \A a, b \in M : a.serial < b.serial => a.n < b.n
        BY <3>6 DEF Ordered
      <4>. QED  BY <4>1, <4>2, <4>3 DEF Ordered
    <3>7. Fits(q, grown, M)
      BY <3>4, <3>5, <3>6 DEF Fits
    <3>. QED  BY <2>1, <2>3, <3>7 DEF added
  <2>. QED  BY <2>7, <2>8
<1>3. CASE R # {}
  <2>. DEFINE new == [qu EXCEPT !.entries[i] = e]
  <2>1. added = new
    BY <1>3 DEF QueueAdd
  <2>2. i \in DOMAIN qu.entries /\ ~qu.entries[i].waiting /\ Info[q].overwrite
    <3>1. i \in R
      BY <1>3
    <3>. QED  BY <3>1 DEF Replaceable
  <2>. HIDE DEF R, i, e, added
  <2>3. /\ new \in Queue
        /\ DOMAIN new.entries = DOMAIN qu.entries
        /\ \A j \in DOMAIN qu.entries : new.entries[j] = IF j = i THEN e ELSE qu.entries[j]
    BY <1>1, <2>2, ReplaceEntry
  <2>4. new.serial = qu.serial /\ new.seq = qu.seq
    BY DEF Queue
  <2>. HIDE DEF new
  <2>5. /\ new.entries # <<>> /\ Head(new.entries) = new.entries[1] /\ 1 \in DOMAIN qu.entries
        /\ qu.entries # <<>> /\ Head(qu.entries) = qu.entries[1]
    <3>1. qu.entries # <<>> /\ new.entries # <<>>
      BY <2>2, <2>3
    <3>. QED  BY <2>3, <3>1, QueueType
  <2>6. Shaped(q, new)
    <3>1. \A j \in DOMAIN new.entries :
             j > 1 \/ ~WithAck(q) => ~new.entries[j].waiting /\ new.entries[j].retry = 0
      BY <1>1, <2>3 DEF Fits, Shaped
    <3>2. InFlight(new) => InFlight(qu) /\ new.entries[1] = qu.entries[1]
      BY <1>1, <2>3, <2>5 DEF InFlight
    <3>3. Opened(new) => Opened(qu)
      <4>1. ~(e.retry > 0)
        BY <1>1
      <4>. QED  BY <1>1, <2>3, <2>5, <4>1 DEF Opened
    <3>. QED  BY <2>4, <3>1, <3>2, <3>3 DEF Fits, Shaped
  <2>7. Agrees(new, M)
    <3>1. Opened(new) => Opened(qu) /\ new.entries[1] = qu.entries[1]
      <4>1. ~(e.retry > 0)
        BY <1>1
      <4>. QED  BY <1>1, <2>3, <2>5, <4>1 DEF Opened
    <3>. QED  BY <2>4, <3>1 DEF Fits, Agrees
  <2>8. Fits(q, new, M)
    BY <2>2, <2>6, <2>7 DEF Fits
  <2>. QED  BY <2>1, <2>4, <2>8 DEF added
<1>. QED  BY <1>2, <1>3

(* Time and stop change nothing of what was sent.                          *)
LEMMA AgedFits ==
  ASSUME NEW q \in Queues, NEW qu \in Queue, NEW M, Fits(q, qu, M)
  PROVE  Fits(q, Aged(q, qu), M) /\ Aged(q, qu).serial = qu.serial
<1>. DEFINE new == Aged(q, qu)
<1>1. /\ new.serial = qu.serial /\ new.seq = qu.seq /\ new \in Queue
      /\ new.entries = [i \in DOMAIN qu.entries |-> AgedEntry(q, qu.entries[i])]
  BY AgedSound DEF Aged, Queue
<1>. HIDE DEF new
<1>2. ASSUME NEW e \in Entry
      PROVE  /\ AgedEntry(q, e).n = e.n /\ AgedEntry(q, e).seq = e.seq
             /\ AgedEntry(q, e).waiting = e.waiting /\ AgedEntry(q, e).retry = e.retry
  BY DEF AgedEntry, Entry
<1>3. /\ DOMAIN new.entries = DOMAIN qu.entries
      /\ \A i \in DOMAIN qu.entries :
            /\ new.entries[i].n = qu.entries[i].n /\ new.entries[i].seq = qu.entries[i].seq
            /\ new.entries[i].waiting = qu.entries[i].waiting
            /\ new.entries[i].retry = qu.entries[i].retry
  BY <1>1, <1>2, QueueType
<1>4. /\ new.entries = <<>> <=> qu.entries = <<>>
      /\ qu.entries # <<>> => /\ Head(new.entries) = new.entries[1]
                              /\ Head(qu.entries) = qu.entries[1]
                              /\ 1 \in DOMAIN qu.entries
  <2>1. new.entries = <<>> <=> qu.entries = <<>>
    BY <1>1, <1>3, QueueType
  <2>. QED  BY <1>1, <2>1, QueueType
<1>5. (Opened(new) <=> Opened(qu)) /\ (InFlight(new) <=> InFlight(qu))
  BY <1>3, <1>4 DEF Opened, InFlight
<1>6. InFlight(qu) => new.entries[1].seq = qu.entries[1].seq
  BY <1>3, <1>4 DEF InFlight
<1>7. Opened(qu) => new.entries[1].n = qu.entries[1].n
  BY <1>3, <1>4 DEF Opened
<1>8. Shaped(q, new)
  BY <1>1, <1>3, <1>5, <1>6 DEF Fits, Shaped
<1>9. Agrees(new, M)
  BY <1>1, <1>5, <1>7 DEF Fits, Agrees
<1>10. Ordered(qu, M) => Ordered(new, M)
  BY <1>1, <1>3, <1>5 DEF Ordered
<1>11. Fits(q, new, M)
  BY <1>8, <1>9, <1>10 DEF Fits
<1>. QED  BY <1>1, <1>11 DEF new

LEMMA EmptiedFits ==
  ASSUME NEW q \in Queues, NEW qu \in Queue, NEW M, Fits(q, qu, M)
  PROVE  LET new == [qu EXCEPT !.entries = <<>>]
         IN  Fits(q, new, M) /\ new.serial = qu.serial
<1>. DEFINE none == <<>>
            new == [qu EXCEPT !.entries = none]
<1>1. new.serial = qu.serial /\ new.seq = qu.seq /\ new.entries = none
  BY DEF Queue
<1>2. DOMAIN none = {}
  OBVIOUS
<1>3. ~Opened(new) /\ ~InFlight(new)
  BY <1>1 DEF Opened, InFlight
<1>. HIDE DEF new, none
<1>4. Shaped(q, new) /\ Agrees(new, M)
  BY <1>1, <1>2, <1>3 DEF Fits, Shaped, Agrees
<1>5. Ordered(qu, M) => Ordered(new, M)
  BY <1>1, <1>2 DEF Ordered
<1>6. Fits(q, new, M)
  BY <1>4, <1>5 DEF Fits
<1>. QED  BY <1>1, <1>6 DEF new, none

(***************************************************************************)
(* Channels                                                                *)
(***************************************************************************)

Rising(c) == \A i, j \in DOMAIN c : i < j => c[i].serial <= c[j].serial

LEMMA MarksType ==
  ASSUME NEW c \in Seq(Datagram)
  PROVE  MarksOf(c) \in SUBSET MarkType
<1>1. \A i \in DOMAIN c : c[i] \in Datagram
  BY LenProperties
<1>2. \A d \in Datagram : Mark(d) \in MarkType
  BY DEF Datagram, Mark, MarkType
<1>. QED  BY <1>1, <1>2 DEF MarksOf

LEMMA PutIs ==
  ASSUME NEW c \in Seq(Datagram), NEW f \in Seq(Datagram)
  PROVE  /\ MarksOf(Put(c, f)) \subseteq MarksOf(c) \cup MarksOf(f)
         /\ \A i \in DOMAIN Put(c, f) : \/ \E j \in DOMAIN c : Put(c, f)[i] = c[j]
                                        \/ \E j \in DOMAIN f : Put(c, f)[i] = f[j]
         /\ Rising(c) /\ Rising(f)
            /\ (\A i \in DOMAIN c, j \in DOMAIN f : c[i].serial <= f[j].serial)
              => Rising(Put(c, f))
<1>. DEFINE p == Put(c, f)
<1>1. /\ Len(c) \in Nat /\ Len(f) \in Nat
      /\ DOMAIN c = 1..Len(c) /\ DOMAIN f = 1..Len(f)
  BY LenProperties
<1>2. CASE p = c
  <2>. HIDE DEF p
  <2>1. /\ MarksOf(p) \subseteq MarksOf(c) \cup MarksOf(f)
        /\ \A i \in DOMAIN p : \E j \in DOMAIN c : p[i] = c[j]
        /\ Rising(c) => Rising(p)
    BY <1>2
  <2>. QED  BY <2>1 DEF p
<1>3. CASE p = c \o f
  <2>. HIDE DEF p
  <2>1. /\ DOMAIN p = 1..(Len(c) + Len(f))
        /\ \A i \in DOMAIN p : p[i] = IF i <= Len(c) THEN c[i] ELSE f[i - Len(c)]
    BY <1>1, <1>3, ConcatProperties, LenProperties
  <2>2. ASSUME NEW i \in DOMAIN p
        PROVE  \/ i \in DOMAIN c /\ p[i] = c[i]
               \/ i - Len(c) \in DOMAIN f /\ p[i] = f[i - Len(c)] /\ i > Len(c)
    BY <1>1, <2>1
  <2>3. \A i \in DOMAIN p : \/ \E j \in DOMAIN c : p[i] = c[j]
                            \/ \E j \in DOMAIN f : p[i] = f[j]
    BY <2>2
  <2>4. MarksOf(p) \subseteq MarksOf(c) \cup MarksOf(f)
    BY <2>3 DEF MarksOf
  <2>5. ASSUME Rising(c), Rising(f),
               \A i \in DOMAIN c, j \in DOMAIN f : c[i].serial <= f[j].serial
        PROVE  Rising(p)
    <3>1. ASSUME NEW i \in DOMAIN p, NEW j \in DOMAIN p, i < j
          PROVE  p[i].serial <= p[j].serial
      <4>1. CASE i \in DOMAIN c /\ p[i] = c[i] /\ j \in DOMAIN c /\ p[j] = c[j]
        BY <2>5, <3>1, <4>1 DEF Rising
      <4>2. CASE i \in DOMAIN c /\ p[i] = c[i]
                 /\ j - Len(c) \in DOMAIN f /\ p[j] = f[j - Len(c)]
        BY <2>5, <4>2
      <4>3. CASE /\ i - Len(c) \in DOMAIN f /\ p[i] = f[i - Len(c)]
                 /\ j - Len(c) \in DOMAIN f /\ p[j] = f[j - Len(c)]
        <5>1. i - Len(c) < j - Len(c)
          BY <1>1, <2>1, <3>1
        <5>. QED  BY <2>5, <4>3, <5>1 DEF Rising
      <4>4. i > Len(c) => ~(j \in DOMAIN c)
        BY <1>1, <2>1, <3>1
      <4>. QED  BY <2>2, <4>1, <4>2, <4>3, <4>4
    <3>. QED  BY <3>1 DEF Rising
  <2>. QED  BY <2>3, <2>4, <2>5 DEF p
<1>. QED  BY <1>2, <1>3 DEF Put

LEMMA RemoveAtIs ==
  ASSUME NEW S, NEW s \in Seq(S), NEW i \in DOMAIN s
  PROVE  /\ RemoveAt(s, i) \in Seq(S)
         /\ \A j \in DOMAIN RemoveAt(s, i) :
               LET k == IF j < i THEN j ELSE j + 1
               IN  k \in DOMAIN s /\ RemoveAt(s, i)[j] = s[k] /\ j \in Int /\ i \in Int
<1>1. /\ Len(s) \in Nat /\ i \in 1..Len(s) /\ DOMAIN s = 1..Len(s)
      /\ \A j \in 1..Len(s) : s[j] \in S
  BY LenProperties
<1>. DEFINE a == SubSeq(s, 1, i - 1)
            b == SubSeq(s, i + 1, Len(s))
<1>2. /\ a \in Seq(S) /\ Len(a) = i - 1
      /\ \A j \in 1..(i - 1) : a[j] = s[j]
  BY <1>1, SubSeqProperties
<1>3. /\ b \in Seq(S) /\ Len(b) = Len(s) - i
      /\ \A j \in 1..(Len(s) - i) : b[j] = s[i + j]
  BY <1>1, SubSeqProperties
<1>. HIDE DEF a, b
<1>4. RemoveAt(s, i) = a \o b
  BY DEF RemoveAt, a, b
<1>5. /\ DOMAIN (a \o b) = 1..(Len(s) - 1)
      /\ \A j \in 1..(Len(s) - 1) : (a \o b)[j] = IF j <= i - 1 THEN a[j] ELSE b[j - (i - 1)]
  <2>1. /\ a \o b \in Seq(S) /\ Len(a \o b) = Len(a) + Len(b)
        /\ \A j \in 1..(Len(a) + Len(b)) :
              (a \o b)[j] = IF j <= Len(a) THEN a[j] ELSE b[j - Len(a)]
    BY <1>2, <1>3, ConcatProperties
  <2>2. Len(a) + Len(b) = Len(s) - 1
    BY <1>1, <1>2, <1>3
  <2>3. DOMAIN (a \o b) = 1..Len(a \o b)
    BY <2>1, LenProperties
  <2>. QED  BY <1>2, <2>1, <2>2, <2>3
<1>6. ASSUME NEW j \in 1..(Len(s) - 1)
      PROVE  LET k == IF j < i THEN j ELSE j + 1
             IN  k \in DOMAIN s /\ (a \o b)[j] = s[k] /\ j \in Int /\ i \in Int
  <2>1. CASE j < i
    <3>1. j \in 1..(i - 1) /\ j <= i - 1 /\ j \in DOMAIN s
      BY <1>1, <2>1
    <3>2. (a \o b)[j] = s[j]
      BY <1>2, <1>5, <3>1
    <3>. QED  BY <1>1, <2>1, <3>1, <3>2
  <2>2. CASE ~(j < i)
    <3>1. j - (i - 1) \in 1..(Len(s) - i) /\ i + (j - (i - 1)) = j + 1
      BY <1>1, <2>2
    <3>2. (a \o b)[j] = s[j + 1]
      <4>1. ~(j <= i - 1)
        BY <1>1, <2>2
      <4>2. (a \o b)[j] = b[j - (i - 1)]
        BY <1>5, <4>1
      <4>3. b[j - (i - 1)] = s[i + (j - (i - 1))]
        BY <1>3, <3>1
      <4>. QED  BY <3>1, <4>2, <4>3
    <3>. QED  BY <1>1, <2>2, <3>2
  <2>. QED  BY <2>1, <2>2
<1>. QED  BY <1>4, <1>5, <1>6, RemoveAtType

LEMMA RemoveAtRising ==
  ASSUME NEW s \in Seq(Datagram), NEW i \in DOMAIN s
  PROVE  /\ MarksOf(RemoveAt(s, i)) \subseteq MarksOf(s)
         /\ \A j \in DOMAIN RemoveAt(s, i) : \E k \in DOMAIN s : RemoveAt(s, i)[j] = s[k]
         /\ Rising(s) => Rising(RemoveAt(s, i))
<1>. DEFINE r == RemoveAt(s, i)
            at(j) == IF j < i THEN j ELSE j + 1
<1>1. \A j \in DOMAIN r : at(j) \in DOMAIN s /\ r[j] = s[at(j)] /\ j \in Int /\ i \in Int
  BY RemoveAtIs
<1>2. \A j, k \in DOMAIN r : j < k => at(j) < at(k)
  <2>1. \A j, k \in Int : i \in Int /\ j < k => at(j) < at(k)
    OBVIOUS
  <2>. HIDE DEF at
  <2>. QED  BY <1>1, <2>1
<1>. HIDE DEF at, r
<1>3. \A j \in DOMAIN r : \E k \in DOMAIN s : r[j] = s[k]
  BY <1>1
<1>4. MarksOf(r) \subseteq MarksOf(s)
  BY <1>3 DEF MarksOf
<1>5. Rising(s) => Rising(r)
  BY <1>1, <1>2 DEF Rising
<1>. QED  BY <1>3, <1>4, <1>5 DEF r

LEMMA TakenIs ==
  ASSUME NEW c \in Seq(Datagram), NEW i \in DOMAIN c, NEW copy \in BOOLEAN
  PROVE  /\ MarksOf(Taken(c, i, copy)) \subseteq MarksOf(c)
         /\ \A j \in DOMAIN Taken(c, i, copy) :
               \E k \in DOMAIN c : Mark(Taken(c, i, copy)[j]) = Mark(c[k])
         /\ Rising(c) => Rising(Taken(c, i, copy))
<1>. DEFINE o == Overtake(c, i)
<1>1. DOMAIN o = DOMAIN c /\ \A j \in DOMAIN c : c[j] \in Datagram
  BY LenProperties DEF Overtake
<1>2. ASSUME NEW j \in DOMAIN c
      PROVE  /\ o[j] \in Datagram /\ Mark(o[j]) = Mark(c[j])
             /\ o[j].serial = c[j].serial
  <2>1. \A d \in Datagram, k \in Nat : /\ [d EXCEPT !.late = k] \in Datagram
                                       /\ Mark([d EXCEPT !.late = k]) = Mark(d)
                                       /\ [d EXCEPT !.late = k].serial = d.serial
    BY DEF Datagram, Mark
  <2>2. \A d \in Datagram : d.late + 1 \in Nat
    BY DEF Datagram
  <2>3. o[j] = IF j < i THEN [c[j] EXCEPT !.late = c[j].late + 1] ELSE c[j]
    BY DEF Overtake
  <2>. QED  BY <1>1, <2>1, <2>2, <2>3
<1>3. o \in Seq(Datagram)
  <2>1. o = [j \in 1..Len(c) |-> o[j]] /\ Len(c) \in Nat /\ DOMAIN c = 1..Len(c)
    BY <1>1, LenProperties DEF Overtake
  <2>2. o \in [1..Len(c) -> Datagram]
    BY <1>2, <2>1
  <2>. QED  BY <2>1, <2>2
<1>. HIDE DEF o
<1>4. MarksOf(o) \subseteq MarksOf(c) /\ (Rising(c) => Rising(o))
      /\ \A j \in DOMAIN o : \E k \in DOMAIN c : Mark(o[j]) = Mark(c[k])
  BY <1>1, <1>2 DEF MarksOf, Rising
<1>5. CASE copy
  BY <1>4, <1>5 DEF Taken, o
<1>6. CASE ~copy
  <2>1. Taken(c, i, copy) = RemoveAt(o, i) /\ i \in DOMAIN o
    BY <1>1, <1>6 DEF Taken, o
  <2>. QED  BY <1>3, <1>4, <2>1, RemoveAtRising
<1>. QED  BY <1>5, <1>6

(* Nothing overtakes on a link that keeps the order.                       *)
LEMMA FirstArrives ==
  ASSUME NEW c \in Seq(Datagram), NEW i \in Arriving(c), MaxReorder = 0
  PROVE  i = 1 /\ i \in DOMAIN c
<1>1. /\ DOMAIN c = 1..Len(c) /\ Len(c) \in Nat /\ i \in DOMAIN c
      /\ \A j \in DOMAIN c : c[j].late \in Nat
      /\ \A j \in 1..(i - 1) : c[j].late < 0
  <2>1. \A j \in DOMAIN c : c[j] \in Datagram
    BY LenProperties
  <2>. QED  BY <2>1, LenProperties DEF Arriving, Datagram
<1>2. i > 1 => 1 \in 1..(i - 1) /\ 1 \in DOMAIN c
  BY <1>1
<1>3. ~(i > 1)
  <2>1. \A x \in Nat : ~(x < 0)
    OBVIOUS
  <2>. QED  BY <1>1, <1>2, <2>1
<1>. QED  BY <1>1, <1>3

(***************************************************************************)
(* The inductive invariant                                                 *)
(***************************************************************************)

(* What the receiver remembers of the last command it delivered.           *)
LastMark(q) ==
    IF delivered[q] = <<>> THEN {}
    ELSE {[seq |-> recv[q], serial |-> rserial[q],
           n |-> delivered[q][Len(delivered[q])]]}
Marks(q) == MarksOf(data[q]) \cup MarksOf(acks[q]) \cup LastMark(q)

Linked(q) ==
    /\ Fits(q, tx[q], Marks(q))
    /\ delivered[q] = <<>> => recv[q] = NumberOf(0) /\ rserial[q] = 0
    /\ \A m \in Marks(q) : m.n <= sent

(* An acknowledgement is of a delivered command, or too old to count.      *)
Known(q) ==
    synced[q] =>
        /\ InWindow(q)
        /\ \A i \in DOMAIN acks[q] : \/ acks[q][i].n \in Range(delivered[q])
                                     \/ acks[q][i].serial < tx[q].serial

Increasing(s) == \A i, j \in DOMAIN s : i < j => s[i] < s[j]
InOrder(q) ==
    MaxReorder = 0 =>
        /\ Rising(data[q])
        /\ \A i \in DOMAIN data[q] : rserial[q] <= data[q][i].serial
        /\ ~Info[q].overwrite => Increasing(delivered[q])

DeliveryInv ==
    /\ IInv
    /\ AckSound
    /\ \A q \in Queues : Linked(q) /\ Known(q) /\ InOrder(q)

LEMMA MarksAre ==
  ASSUME IInv, NEW q \in Queues
  PROVE  Marks(q) \in SUBSET MarkType
<1>1. /\ data[q] \in Seq(Datagram) /\ acks[q] \in Seq(Datagram)
      /\ recv[q] \in 0..(SeqSize - 1) /\ rserial[q] \in Nat
      /\ delivered[q] \in Seq(Cmds)
  BY DEF IInv, TypeOK
<1>2. MarksOf(data[q]) \in SUBSET MarkType /\ MarksOf(acks[q]) \in SUBSET MarkType
  BY <1>1, MarksType
<1>3. delivered[q] # <<>> => delivered[q][Len(delivered[q])] \in Cmds
  BY <1>1
<1>4. LastMark(q) \in SUBSET MarkType
  BY <1>1, <1>3 DEF LastMark, MarkType
<1>. QED  BY <1>2, <1>4 DEF Marks

LEMMA NotifyAck ==
  ASSUME NEW d \in DoneType, NEW notes \in SUBSET Notes, NEW n \in Cmds,
         Notify(d, notes)[n] = <<"ACK_RECEIVED">>
  PROVE  \/ d[n] = <<"ACK_RECEIVED">>
         \/ \E x \in notes : x.n = n /\ x.status = "ACK_RECEIVED"
<1>1. CASE ~\E x \in notes : x.n = n
  BY <1>1 DEF Notify
<1>2. CASE \E x \in notes : x.n = n
  <2>. DEFINE x == CHOOSE x \in notes : x.n = n
  <2>1. x \in notes /\ x.n = n
    BY <1>2
  <2>. HIDE DEF x
  <2>2. Append(d[n], x.status) = <<"ACK_RECEIVED">>
    BY <1>2 DEF Notify, x
  <2>3. d[n] \in Seq(FinalStatus) /\ x.status \in FinalStatus
    BY <2>1 DEF DoneType, Notes
  <2>4. /\ Len(d[n]) \in Nat
        /\ Len(Append(d[n], x.status)) = Len(d[n]) + 1
        /\ Append(d[n], x.status)[Len(d[n]) + 1] = x.status
    BY <2>3, AppendProperties, LenProperties
  <2>5. Len(<<"ACK_RECEIVED">>) = 1 /\ <<"ACK_RECEIVED">>[1] = "ACK_RECEIVED"
    OBVIOUS
  <2>6. Len(d[n]) + 1 = 1
    BY <2>2, <2>4, <2>5
  <2>7. x.status = "ACK_RECEIVED"
    BY <2>2, <2>4, <2>5, <2>6
  <2>. QED  BY <2>1, <2>7
<1>. QED  BY <1>1, <1>2

LEMMA AckSoundKept ==
  ASSUME IInv, AckSound, NEW notes \in SUBSET Notes, done' = Notify(done, notes),
         (\A q \in Queues : synced[q]) =>
             \A x \in notes : x.status = "ACK_RECEIVED" => x.n \in Given,
         Given \subseteq Given', \A q \in Queues : synced'[q] => synced[q]
  PROVE  AckSound'
<1>. SUFFICES ASSUME \A q \in Queues : synced'[q], NEW n \in Cmds,
                     done'[n] = <<"ACK_RECEIVED">>
              PROVE  n \in Given'
  BY DEF AckSound
<1>1. done \in DoneType
  BY DEF IInv, TypeOK, DoneType
<1>2. \A q \in Queues : synced[q]
  OBVIOUS
<1>3. \/ done[n] = <<"ACK_RECEIVED">>
      \/ \E x \in notes : x.n = n /\ x.status = "ACK_RECEIVED"
  BY <1>1, NotifyAck
<1>4. n \in Given
  BY <1>2, <1>3 DEF AckSound
<1>. QED  BY <1>4

(* A pass over a queue acknowledges nothing.                               *)
LEMMA PassNotes ==
  ASSUME NEW q, NEW qu, NEW ok
  PROVE  \A x \in CheckTxQueue(q, qu, ok).notes : x.status # "ACK_RECEIVED"
<1>1. \A n, s : Note(n, s).status = s
  BY DEF Note
<1>2. \A x \in ExpireNotes(q, qu) : x.status # "ACK_RECEIVED"
  BY <1>1 DEF ExpireNotes
<1>3. \A a, b, c, d : Pass(a, b, c, d).notes = c
  BY DEF Pass
<1>. DEFINE qx == Expire(q, qu)
            sending == Transmit(q, qx, ok)
<1>. HIDE DEF qx
<1>4. \A x \in TransmitHead(q, qx, ok).notes : x.status # "ACK_RECEIVED"
  BY <1>3 DEF TransmitHead
<1>5. \A x \in TransmitAll(q, qx, ok).notes : x.status # "ACK_RECEIVED"
  BY <1>1, <1>3 DEF TransmitAll
<1>6. \A x \in sending.notes : x.status # "ACK_RECEIVED"
  <2>1. CASE qx.entries = <<>>
    BY <1>3, <2>1 DEF Transmit, Unsent
  <2>2. CASE Unsent(qx) /\ TooSoon(q, qx)
    BY <1>3, <2>2 DEF Transmit, Unsent
  <2>3. CASE Unsent(qx) /\ ~TooSoon(q, qx) /\ WithAck(q)
    BY <1>4, <2>3 DEF Transmit, Unsent
  <2>4. CASE Unsent(qx) /\ ~TooSoon(q, qx) /\ ~WithAck(q)
    BY <1>5, <2>4 DEF Transmit, Unsent
  <2>5. CASE qx.entries # <<>> /\ ~Unsent(qx)
    BY <1>3, <2>5 DEF Transmit, Unsent
  <2>. QED  BY <2>1, <2>2, <2>3, <2>4, <2>5
<1>7. \E a, b, c, d : sending = Pass(a, b, c, d)
  <2>1. /\ \E a, b, c, d : TransmitHead(q, qx, ok) = Pass(a, b, c, d)
        /\ \E a, b, c, d : TransmitAll(q, qx, ok) = Pass(a, b, c, d)
    BY DEF TransmitHead, TransmitAll
  <2>2. CASE qx.entries = <<>>
    BY <2>2 DEF Transmit, Unsent
  <2>3. CASE Unsent(qx) /\ TooSoon(q, qx)
    BY <2>3 DEF Transmit, Unsent
  <2>4. CASE Unsent(qx) /\ ~TooSoon(q, qx) /\ WithAck(q)
    BY <2>1, <2>4 DEF Transmit, Unsent
  <2>5. CASE Unsent(qx) /\ ~TooSoon(q, qx) /\ ~WithAck(q)
    BY <2>1, <2>5 DEF Transmit, Unsent
  <2>6. CASE qx.entries # <<>> /\ ~Unsent(qx)
    BY <2>6 DEF Transmit, Unsent
  <2>. QED  BY <2>2, <2>3, <2>4, <2>5, <2>6
<1>. HIDE DEF sending
<1>8. CASE AckPending(q, qu)
  BY <1>3, <1>8 DEF CheckTxQueue
<1>9. CASE ~AckPending(q, qu)
  <2>1. CheckTxQueue(q, qu, ok) =
           [sending EXCEPT !.notes = sending.notes \cup ExpireNotes(q, qu)]
    BY <1>9 DEF CheckTxQueue, sending, qx
  <2>2. \A a, b, c, d, e : [Pass(a, b, c, d) EXCEPT !.notes = e].notes = e
    BY DEF Pass
  <2>3. CheckTxQueue(q, qu, ok).notes = sending.notes \cup ExpireNotes(q, qu)
    BY <1>7, <2>1, <2>2
  <2>. QED  BY <1>2, <1>6, <2>3
<1>. QED  BY <1>8, <1>9

LEMMA WatchIs ==
  ASSUME IInv, Watch, NEW q \in Queues
  PROVE  (synced'[q] => synced[q]) /\ (synced'[q] => InWindow(q)')
  BY DEF Watch

(* What the steps of the sender share: queues t, in which some command was *)
(* added, acknowledged or none, are checked.                               *)
LEMMA CheckDelivery ==
  ASSUME DeliveryInv, IInv',
         NEW t \in [Queues -> Queue], NEW notes \in SUBSET Notes, CheckTxQueues(t, notes),
         \A q \in Queues : /\ Fits(q, t[q], Marks(q)) /\ t[q].serial = tx[q].serial
                           /\ Names(t[q]) \subseteq 1..sent',
         sent <= sent',
         (\A q \in Queues : synced[q]) =>
             \A x \in notes : x.status = "ACK_RECEIVED" => x.n \in Given,
         \A q \in Queues : \A i \in DOMAIN acks'[q] :
             \E k \in DOMAIN acks[q] : Mark(acks'[q][i]) = Mark(acks[q][k]),
         UNCHANGED receiver, Watch
  PROVE  DeliveryInv'
<1>1. PICK ok \in Budget(t) :
        LET pass == [q \in Queues |-> CheckTxQueue(q, t[q], ok[q])]
        IN  /\ tx' = [q \in Queues |-> pass[q].queue]
            /\ data' = [q \in Queues |-> Put(data[q], pass[q].frames)]
            /\ done' = Notify(done, notes \cup UNION {pass[q].notes : q \in Queues})
            /\ timer' = NextTimer({pass[q].timeout : q \in Queues})
  BY DEF CheckTxQueues
<1>. DEFINE pass == [q \in Queues |-> CheckTxQueue(q, t[q], ok[q])]
            all == notes \cup UNION {pass[q].notes : q \in Queues}
<1>2. \A q \in Queues : ok[q] \in 0..MaxCmds
  BY DEF Budget
<1>3. IInv /\ AckSound /\ \A q \in Queues : Linked(q) /\ Known(q) /\ InOrder(q)
  BY DEF DeliveryInv
<1>4. \A q \in Queues : /\ Sound(t[q], pass[q]) /\ Follows(q, t[q], pass[q], Marks(q))
                        /\ \A x \in pass[q].notes : x.status # "ACK_RECEIVED"
  BY <1>2, <1>3, MarksAre, PassSound, PassFollows, PassNotes
<1>5. /\ tx' = [q \in Queues |-> pass[q].queue]
      /\ data' = [q \in Queues |-> Put(data[q], pass[q].frames)]
      /\ done' = Notify(done, all)
  BY <1>1
<1>. HIDE DEF pass
<1>6. /\ \A q \in Queues : synced'[q] => synced[q] /\ InWindow(q)'
      /\ recv' = recv /\ rserial' = rserial /\ delivered' = delivered
  BY <1>3, WatchIs DEF receiver
<1>7. AckSound'
  <2>1. all \in SUBSET Notes
    BY <1>4 DEF Sound, PassResult
  <2>2. (\A q \in Queues : synced[q]) =>
           \A x \in all : x.status = "ACK_RECEIVED" => x.n \in Given
    BY <1>4
  <2>3. Given' = Given
    BY <1>6 DEF Given
  <2>. HIDE DEF all
  <2>. QED  BY <1>3, <1>5, <1>6, <2>1, <2>2, <2>3, AckSoundKept
<1>8. ASSUME NEW q \in Queues
      PROVE  Linked(q)' /\ Known(q)' /\ InOrder(q)'
  <2>. DEFINE p == pass[q]
  <2>1. /\ p.frames \in Seq(Datagram) /\ p.queue \in Queue
        /\ data[q] \in Seq(Datagram) /\ acks[q] \in Seq(Datagram)
        /\ tx'[q] = p.queue /\ data'[q] = Put(data[q], p.frames)
        /\ tx[q].serial \in Nat /\ t[q].serial \in Nat
    <3>1. tx[q] \in Queue /\ t[q] \in Queue
      BY <1>3 DEF IInv, TypeOK
    <3>. QED  BY <1>3, <1>4, <1>5, <3>1, QueueType DEF Sound, PassResult, IInv, TypeOK
  <2>2. /\ Fits(q, p.queue, Marks(q) \cup MarksOf(p.frames))
        /\ tx[q].serial <= p.queue.serial
        /\ \A i \in DOMAIN p.frames : /\ tx[q].serial <= p.frames[i].serial
                                      /\ p.frames[i].n \in 1..sent'
        /\ Rising(p.frames)
    BY <1>4 DEF Follows, Rising
  <2>. HIDE DEF p
  <2>3. MarksOf(acks'[q]) \subseteq MarksOf(acks[q])
    BY DEF MarksOf
  <2>4. Marks(q)' \subseteq Marks(q) \cup MarksOf(p.frames)
    <3>1. MarksOf(data'[q]) \subseteq MarksOf(data[q]) \cup MarksOf(p.frames)
      BY <2>1, PutIs
    <3>2. LastMark(q)' = LastMark(q)
      BY <1>6 DEF LastMark
    <3>3. Marks(q)' = MarksOf(data'[q]) \cup MarksOf(acks'[q]) \cup LastMark(q)'
      BY DEF Marks, MarksOf
    <3>. QED  BY <2>3, <3>1, <3>2, <3>3 DEF Marks
  <2>5. Fits(q, tx'[q], Marks(q)')
    BY <2>1, <2>2, <2>4, FewerMarks
  <2>6. \A m \in Marks(q)' : m.n <= sent'
    <3>1. ASSUME NEW m \in Marks(q)'
          PROVE  m.n <= sent'
      <4>1. CASE m \in Marks(q)
        <5>1. m.n <= sent /\ m.n \in Nat /\ sent \in Nat /\ sent' \in Nat
          BY <1>3, <4>1, MarksAre DEF Linked, MarkType, Cmds, IInv, TypeOK
        <5>. QED  BY <5>1
      <4>2. CASE m \in MarksOf(p.frames)
        <5>1. PICK i \in DOMAIN p.frames : m = Mark(p.frames[i])
          BY <4>2 DEF MarksOf
        <5>2. m.n = p.frames[i].n /\ p.frames[i].n \in 1..sent'
          BY <2>2, <5>1 DEF Mark
        <5>. QED  BY <5>2
      <4>. QED  BY <2>4, <4>1, <4>2
    <3>. QED  BY <3>1
  <2>7. Linked(q)'
    <3>1. Fits(q, tx[q], Marks(q))'
      BY <2>5 DEF Fits, Shaped, Agrees, Ordered, Opened, InFlight
    <3>. QED  BY <1>3, <1>6, <2>6, <3>1 DEF Linked
  <2>8. Known(q)'
    <3>. SUFFICES ASSUME synced'[q], NEW i \in DOMAIN acks'[q]
                  PROVE  \/ acks'[q][i].n \in Range(delivered'[q])
                         \/ acks'[q][i].serial < tx'[q].serial
      BY <1>6 DEF Known
    <3>1. PICK k \in DOMAIN acks[q] : Mark(acks'[q][i]) = Mark(acks[q][k])
      OBVIOUS
    <3>2. acks'[q][i].n = acks[q][k].n /\ acks'[q][i].serial = acks[q][k].serial
      BY <3>1 DEF Mark
    <3>3. acks[q][k].n \in Range(delivered[q]) \/ acks[q][k].serial < tx[q].serial
      BY <1>3, <1>6 DEF Known
    <3>4. acks[q][k].serial \in Nat /\ p.queue.serial \in Nat
      <4>1. acks[q][k] \in Datagram
        BY <2>1
      <4>. QED  BY <2>1, <4>1, QueueType DEF Datagram
    <3>. QED  BY <1>6, <2>1, <2>2, <3>2, <3>3, <3>4
  <2>9. InOrder(q)'
    <3>. SUFFICES ASSUME MaxReorder = 0
                  PROVE  /\ Rising(data'[q])
                         /\ \A i \in DOMAIN data'[q] : rserial[q] <= data'[q][i].serial
                         /\ ~Info[q].overwrite => Increasing(delivered[q])
      BY <1>6 DEF InOrder, Rising, Increasing
    <3>1. /\ Rising(data[q])
          /\ \A i \in DOMAIN data[q] : rserial[q] <= data[q][i].serial
          /\ ~Info[q].overwrite => Increasing(delivered[q])
      BY <1>3 DEF InOrder
    <3>2. \A i \in DOMAIN data[q] : data[q][i].serial \in Nat /\ data[q][i].serial <= tx[q].serial
      <4>1. ASSUME NEW i \in DOMAIN data[q]
            PROVE  data[q][i].serial \in Nat /\ data[q][i].serial <= tx[q].serial
        <5>1. data[q][i].serial \in Nat
          <6>1. data[q][i] \in Datagram
            BY <2>1
          <6>. QED  BY <6>1 DEF Datagram
        <5>2. Mark(data[q][i]) \in Marks(q)
          BY DEF Marks, MarksOf
        <5>3. Mark(data[q][i]).serial <= tx[q].serial
          BY <1>3, <5>2 DEF Linked, Fits, Agrees
        <5>. QED  BY <5>1, <5>3 DEF Mark
      <4>. QED  BY <4>1
    <3>3. rserial[q] \in Nat /\ rserial[q] <= tx[q].serial
      <4>1. rserial[q] \in Nat
        BY <1>3 DEF IInv, TypeOK
      <4>2. CASE delivered[q] = <<>>
        BY <1>3, <2>1, <4>2 DEF Linked
      <4>3. CASE delivered[q] # <<>>
        <5>. DEFINE m == [seq |-> recv[q], serial |-> rserial[q],
                          n |-> delivered[q][Len(delivered[q])]]
        <5>1. m \in Marks(q)
          BY <4>3 DEF Marks, LastMark
        <5>2. m.serial <= tx[q].serial
          BY <1>3, <5>1 DEF Linked, Fits, Agrees
        <5>. QED  BY <4>1, <5>2
      <4>. QED  BY <4>1, <4>2, <4>3
    <3>4. \A i \in DOMAIN p.frames : p.frames[i].serial \in Nat
      <4>1. \A i \in DOMAIN p.frames : p.frames[i] \in Datagram
        BY <2>1
      <4>. QED  BY <4>1 DEF Datagram
    <3>5. Rising(data'[q])
      <4>1. \A i \in DOMAIN data[q], j \in DOMAIN p.frames :
               data[q][i].serial <= p.frames[j].serial
        BY <2>1, <2>2, <3>2, <3>4
      <4>. QED  BY <2>1, <2>2, <3>1, <4>1, PutIs
    <3>6. \A j \in DOMAIN p.frames : rserial[q] <= p.frames[j].serial
      BY <2>1, <2>2, <3>3, <3>4
    <3>7. \A i \in DOMAIN data'[q] : \/ \E j \in DOMAIN data[q] : data'[q][i] = data[q][j]
                                     \/ \E j \in DOMAIN p.frames : data'[q][i] = p.frames[j]
      BY <2>1, PutIs
    <3>. QED  BY <3>1, <3>5, <3>6, <3>7
  <2>. QED  BY <2>7, <2>8, <2>9
<1>. QED  BY <1>7, <1>8 DEF DeliveryInv

LEMMA NamesBound ==
  ASSUME IInv, NEW q \in Queues
  PROVE  Names(tx[q]) \subseteq 1..sent
  BY DEF IInv, Accounted, Ready, AllNames

LEMMA SendDelivery ==
  ASSUME DeliveryInv, NEW bt \in BufferTypes, NEW kind \in Kinds, Send(bt, kind)
  PROVE  DeliveryInv'
<1>1. PICK q \in Queues :
        CheckTxQueues([tx EXCEPT ![q] = QueueAdd(q, tx[q], sent + 1, kind).queue],
                      QueueAdd(q, tx[q], sent + 1, kind).notes)
  BY DEF Send
<1>. DEFINE n == sent + 1
            added == QueueAdd(q, tx[q], n, kind)
            t == [tx EXCEPT ![q] = added.queue]
<1>2. IInv /\ IInv'
  BY SendIInv DEF DeliveryInv
<1>3. /\ tx \in [Queues -> Queue] /\ tx[q] \in Queue
      /\ sent \in Nat /\ sent' = n /\ n \in Cmds /\ n \in Nat /\ sent < n
      /\ acks' = acks /\ UNCHANGED receiver /\ Watch
  BY <1>2, BoundsAssumption DEF IInv, TypeOK, Send, Cmds
<1>4. \A p \in Queues : Names(tx[p]) \subseteq 1..sent /\ n \notin Names(tx[p])
  <2>1. n \notin 1..sent
    BY <1>3
  <2>. QED  BY <1>2, <2>1, NamesBound
<1>5. Distinct(tx[q])
  BY <1>2 DEF IInv, Accounted, Ready, Separate
<1>6. /\ added.queue \in Queue /\ added.notes \in SUBSET Notes
      /\ Names(added.queue) \subseteq Names(tx[q]) \cup {n}
  <2>. HIDE DEF n
  <2>. QED  BY <1>3, <1>4, <1>5, QueueAddSound
<1>7. \A x \in added.notes : x.status # "ACK_RECEIVED"
  BY DEF QueueAdd, Note
<1>8. Fits(q, added.queue, Marks(q)) /\ added.queue.serial = tx[q].serial
  <2>1. Fits(q, tx[q], Marks(q)) /\ Marks(q) \in SUBSET MarkType
    BY <1>2, MarksAre DEF DeliveryInv, Linked
  <2>2. \A m \in Marks(q) : m.n < n
    <3>1. \A m \in Marks(q) : m.n \in Nat /\ m.n <= sent
      BY <2>1 DEF DeliveryInv, Linked, MarkType, Cmds
    <3>. QED  BY <1>3, <3>1
  <2>3. \A x \in Names(tx[q]) : x < n
    BY <1>3, <1>4
  <2>. HIDE DEF n
  <2>. QED  BY <1>3, <2>1, <2>2, <2>3, QueueAddFits
<1>. HIDE DEF added
<1>9. /\ t \in [Queues -> Queue] /\ t[q] = added.queue
      /\ \A p \in Queues : p # q => t[p] = tx[p]
  BY <1>3, <1>6
<1>10. CheckTxQueues(t, added.notes)
  BY <1>1 DEF added
<1>11. \A p \in Queues : /\ Fits(p, t[p], Marks(p)) /\ t[p].serial = tx[p].serial
                         /\ Names(t[p]) \subseteq 1..sent'
  <2>1. ASSUME NEW p \in Queues
        PROVE  /\ Fits(p, t[p], Marks(p)) /\ t[p].serial = tx[p].serial
               /\ Names(t[p]) \subseteq Names(tx[p]) \cup {n}
    <3>1. CASE p = q
      BY <1>6, <1>8, <1>9, <3>1
    <3>2. CASE p # q
      BY <1>9, <3>2 DEF DeliveryInv, Linked
    <3>. QED  BY <3>1, <3>2
  <2>2. 1..sent \cup {n} \subseteq 1..sent'
    BY <1>3
  <2>. HIDE DEF n, t
  <2>. QED  BY <1>4, <2>1, <2>2
<1>12. sent <= sent'
  BY <1>3
<1>. HIDE DEF t
<1>. QED  BY <1>2, <1>3, <1>6, <1>7, <1>9, <1>10, <1>11, <1>12, CheckDelivery

LEMMA TimerCbDelivery ==
  ASSUME DeliveryInv, TimerCb
  PROVE  DeliveryInv'
<1>1. IInv /\ IInv'
  BY TimerCbIInv DEF DeliveryInv
<1>2. /\ tx \in [Queues -> Queue] /\ {} \in SUBSET Notes /\ sent \in Nat
      /\ sent' = sent /\ acks' = acks /\ UNCHANGED receiver /\ Watch
      /\ CheckTxQueues(tx, {})
  BY <1>1 DEF IInv, TypeOK, TimerCb
<1>3. sent <= sent'
  BY <1>2
<1>4. \A q \in Queues : Fits(q, tx[q], Marks(q)) /\ Names(tx[q]) \subseteq 1..sent'
  BY <1>1, <1>2, NamesBound DEF DeliveryInv, Linked
<1>. QED  BY <1>1, <1>2, <1>3, <1>4, CheckDelivery

(* Steps that send nothing and deliver nothing: time, losses, stop.        *)
LEMMA QuietDelivery ==
  ASSUME DeliveryInv, IInv', AckSound', sent' = sent, UNCHANGED receiver,
         \A q \in Queues :
            /\ Fits(q, tx'[q], Marks(q)) /\ tx'[q].serial = tx[q].serial
            /\ \A i \in DOMAIN acks'[q] :
                  \E k \in DOMAIN acks[q] : Mark(acks'[q][i]) = Mark(acks[q][k])
            /\ \A i \in DOMAIN data'[q] :
                  \E k \in DOMAIN data[q] : Mark(data'[q][i]) = Mark(data[q][k])
            /\ Rising(data[q]) => Rising(data'[q])
            /\ synced'[q] => synced[q] /\ InWindow(q)'
  PROVE  DeliveryInv'
<1>1. recv' = recv /\ rserial' = rserial /\ delivered' = delivered
  BY DEF receiver
<1>2. ASSUME NEW p \in Queues
      PROVE  Linked(p)' /\ Known(p)' /\ InOrder(p)'
  <2>1. Marks(p)' \subseteq Marks(p)
    <3>1. /\ MarksOf(acks'[p]) \subseteq MarksOf(acks[p])
          /\ MarksOf(data'[p]) \subseteq MarksOf(data[p])
      BY DEF MarksOf
    <3>2. Marks(p)' = MarksOf(data'[p]) \cup MarksOf(acks'[p]) \cup LastMark(p)
      BY <1>1 DEF Marks, MarksOf, LastMark
    <3>. QED  BY <3>1, <3>2 DEF Marks
  <2>2. Fits(p, tx'[p], Marks(p)')
    BY <2>1, FewerMarks
  <2>3. Linked(p)'
    <3>1. Fits(p, tx[p], Marks(p))'
      BY <2>2 DEF Fits, Shaped, Agrees, Ordered, Opened, InFlight
    <3>. QED  BY <1>1, <2>1, <3>1 DEF DeliveryInv, Linked
  <2>4. Known(p)'
    <3>. SUFFICES ASSUME synced'[p], NEW j \in DOMAIN acks'[p]
                  PROVE  \/ acks'[p][j].n \in Range(delivered'[p])
                         \/ acks'[p][j].serial < tx'[p].serial
      BY DEF Known
    <3>1. PICK k \in DOMAIN acks[p] : Mark(acks'[p][j]) = Mark(acks[p][k])
      OBVIOUS
    <3>2. acks'[p][j].n = acks[p][k].n /\ acks'[p][j].serial = acks[p][k].serial
      BY <3>1 DEF Mark
    <3>. QED  BY <1>1, <3>2 DEF DeliveryInv, Known
  <2>5. InOrder(p)'
    <3>. SUFFICES ASSUME MaxReorder = 0
                  PROVE  /\ Rising(data'[p])
                         /\ \A i \in DOMAIN data'[p] : rserial[p] <= data'[p][i].serial
                         /\ ~Info[p].overwrite => Increasing(delivered[p])
      BY <1>1 DEF InOrder, Rising, Increasing
    <3>1. \A i \in DOMAIN data'[p] : \E k \in DOMAIN data[p] :
             data'[p][i].serial = data[p][k].serial
      BY DEF Mark
    <3>. QED  BY <3>1 DEF DeliveryInv, InOrder
  <2>. QED  BY <2>3, <2>4, <2>5
<1>. QED  BY <1>2 DEF DeliveryInv

(* The acknowledgement taken for the head's is that of the head: no other  *)
(* has its number within the window.                                       *)
LEMMA AcknowledgedIsGiven ==
  ASSUME DeliveryInv, NEW q \in Queues, synced[q], NEW i \in DOMAIN acks[q],
         Acknowledges(acks[q][i], tx[q])
  PROVE  Head(tx[q].entries).n \in Range(delivered[q])
<1>. DEFINE a == acks[q][i]
<1>1. /\ tx[q] \in Queue /\ acks[q] \in Seq(Datagram) /\ a \in Datagram
  BY DEF DeliveryInv, IInv, TypeOK
<1>2. /\ tx[q].entries # <<>> /\ tx[q].entries[1].waiting
      /\ Head(tx[q].entries) = tx[q].entries[1] /\ tx[q].entries[1].seq = a.seq
      /\ InFlight(tx[q])
  BY <1>1, QueueType DEF Acknowledges, InFlight
<1>3. Fits(q, tx[q], Marks(q)) /\ Opened(tx[q])
  BY <1>2 DEF DeliveryInv, Linked, Opened
<1>4. a.seq = tx[q].seq /\ tx[q].seq = NumberOf(tx[q].serial)
  BY <1>2, <1>3 DEF Fits, Shaped
<1>5. Mark(a) \in Marks(q)
  BY DEF Marks, MarksOf
<1>6. a.seq = NumberOf(a.serial) /\ a.serial <= tx[q].serial
  <2>1. Mark(a).seq = NumberOf(Mark(a).serial) /\ Mark(a).serial <= tx[q].serial
    BY <1>3, <1>5 DEF Fits, Agrees
  <2>. QED  BY <2>1 DEF Mark
<1>7. a.serial \in Nat /\ tx[q].serial \in Nat
  BY <1>1, QueueType DEF Datagram
<1>8. tx[q].serial - a.serial < SeqSize
  <2>1. tx[q].serial - a.serial < SeqSize - Window
    BY DEF DeliveryInv, Known, InWindow
  <2>. QED  BY <1>7, <2>1, SeqAssumption
<1>9. a.serial = tx[q].serial
  BY <1>4, <1>6, <1>7, <1>8, NumberUnique
<1>10. a.n = tx[q].entries[1].n
  <2>1. Mark(a).serial = tx[q].serial => Mark(a).n = tx[q].entries[1].n
    BY <1>3, <1>5 DEF Fits, Agrees
  <2>. QED  BY <1>9, <2>1 DEF Mark
<1>11. a.n \in Range(delivered[q])
  <2>1. a.n \in Range(delivered[q]) \/ a.serial < tx[q].serial
    BY DEF DeliveryInv, Known
  <2>. QED  BY <1>7, <1>9, <2>1
<1>. QED  BY <1>2, <1>10, <1>11

LEMMA RecvAckDelivery ==
  ASSUME DeliveryInv, NEW q \in Queues, NEW copy \in BOOLEAN, NEW i \in Arriving(acks[q]),
         RecvAck(q, i, copy)
  PROVE  DeliveryInv'
<1>1. IInv /\ IInv'
  BY RecvAckIInv DEF DeliveryInv
<1>2. /\ tx \in [Queues -> Queue] /\ tx[q] \in Queue /\ sent \in Nat
      /\ acks \in [Queues -> Seq(Datagram)] /\ acks[q] \in Seq(Datagram)
      /\ i \in DOMAIN acks[q] /\ done \in DoneType
  BY <1>1 DEF IInv, TypeOK, Arriving, DoneType
<1>3. \A p \in Queues : \A j \in DOMAIN acks'[p] :
         \E k \in DOMAIN acks[p] : Mark(acks'[p][j]) = Mark(acks[p][k])
  <2>1. acks' = [acks EXCEPT ![q] = Taken(acks[q], i, copy)]
    BY DEF RecvAck
  <2>. QED  BY <1>2, <2>1, TakenIs
<1>4. UNCHANGED <<up, sent, receiver>> /\ Watch
  BY DEF RecvAck
<1>5. sent <= sent'
  BY <1>2, <1>4
<1>6. \A p \in Queues : Fits(p, tx[p], Marks(p)) /\ Names(tx[p]) \subseteq 1..sent'
  BY <1>1, <1>4, NamesBound DEF DeliveryInv, Linked
<1>7. CASE up /\ ~Acknowledges(acks[q][i], tx[q])
  <2>1. CheckTxQueues(tx, {}) /\ {} \in SUBSET Notes
    BY <1>7 DEF RecvAck
  <2>. QED  BY <1>1, <1>2, <1>3, <1>4, <1>5, <1>6, <2>1, CheckDelivery
<1>8. CASE up /\ Acknowledges(acks[q][i], tx[q])
  <2>. DEFINE t == [tx EXCEPT ![q] = QueuePop(tx[q])]
              notes == {Note(Head(tx[q].entries).n, "ACK_RECEIVED")}
  <2>1. CheckTxQueues(t, notes)
    BY <1>8 DEF RecvAck
  <2>2. tx[q].entries # <<>>
    BY <1>8 DEF Acknowledges, InFlight
  <2>3. notes \in SUBSET Notes
    BY <1>2, <2>2, QueueType DEF Notes, Note, FinalStatus, Entry
  <2>4. /\ QueuePop(tx[q]) \in Queue
        /\ Fits(q, QueuePop(tx[q]), Marks(q))
        /\ QueuePop(tx[q]).serial = tx[q].serial
        /\ Names(QueuePop(tx[q])) \subseteq Names(tx[q])
    BY <1>1, <1>2, <1>6, <2>2, QueuePopType, PopFits, PopNames, MarksAre DEF Accounts
  <2>5. (\A p \in Queues : synced[p]) =>
           \A x \in notes : x.status = "ACK_RECEIVED" => x.n \in Given
    <3>1. ASSUME \A p \in Queues : synced[p]
          PROVE  Head(tx[q].entries).n \in Given
      <4>1. Head(tx[q].entries).n \in Range(delivered[q])
        BY <1>2, <1>8, <3>1, AcknowledgedIsGiven
      <4>. QED  BY <4>1 DEF Given
    <3>. QED  BY <3>1 DEF Note
  <2>6. /\ t \in [Queues -> Queue] /\ t[q] = QueuePop(tx[q])
        /\ \A p \in Queues : p # q => t[p] = tx[p]
    BY <1>2, <2>4
  <2>. HIDE DEF notes, t
  <2>7. \A p \in Queues : /\ Fits(p, t[p], Marks(p)) /\ t[p].serial = tx[p].serial
                          /\ Names(t[p]) \subseteq 1..sent'
    <3>1. ASSUME NEW p \in Queues
          PROVE  /\ Fits(p, t[p], Marks(p)) /\ t[p].serial = tx[p].serial
                 /\ Names(t[p]) \subseteq 1..sent'
      <4>1. CASE p = q
        BY <1>6, <2>4, <2>6, <4>1
      <4>2. CASE p # q
        BY <1>6, <2>6, <4>2
      <4>. QED  BY <4>1, <4>2
    <3>. QED  BY <3>1
  <2>. QED  BY <1>1, <1>3, <1>4, <1>5, <2>1, <2>3, <2>5, <2>6, <2>7, CheckDelivery
<1>9. CASE ~up
  <2>1. UNCHANGED <<tx, data, done, timer>>
    BY <1>9 DEF RecvAck
  <2>2. /\ tx' = tx /\ data' = data /\ done' = done /\ sent' = sent
        /\ recv' = recv /\ rserial' = rserial /\ delivered' = delivered
    BY <1>4, <2>1 DEF receiver
  <2>3. \A p \in Queues : synced'[p] => synced[p] /\ InWindow(p)'
    BY <1>1, <1>4, WatchIs
  <2>4. AckSound'
    <3>1. Given' = Given
      BY <2>2 DEF Given
    <3>. QED  BY <2>2, <2>3, <3>1 DEF DeliveryInv, AckSound
  <2>. QED  BY <1>1, <1>3, <1>4, <1>6, <2>2, <2>3, <2>4, QuietDelivery
<1>. QED  BY <1>7, <1>8, <1>9

LEMMA StopDelivery ==
  ASSUME DeliveryInv, Stop
  PROVE  DeliveryInv'
<1>. DEFINE notes == UNION {{Note(tx[q].entries[i].n, "CANCELED") :
                                i \in DOMAIN tx[q].entries} : q \in Queues}
<1>1. IInv /\ IInv'
  BY StopIInv DEF DeliveryInv
<1>2. /\ tx \in [Queues -> Queue] /\ done' = Notify(done, notes) /\ sent' = sent
      /\ tx' = [q \in Queues |-> [tx[q] EXCEPT !.entries = <<>>]]
      /\ data' = data /\ acks' = acks /\ UNCHANGED receiver /\ Watch
  BY <1>1 DEF IInv, TypeOK, Stop
<1>3. \A q \in Queues : Fits(q, tx'[q], Marks(q)) /\ tx'[q].serial = tx[q].serial
  <2>1. \A q \in Queues : Fits(q, tx[q], Marks(q)) /\ tx[q] \in Queue
    BY <1>2 DEF DeliveryInv, Linked
  <2>. QED  BY <1>2, <2>1, EmptiedFits
<1>4. notes \in SUBSET Notes
  <2>1. \A q \in Queues : \A i \in DOMAIN tx[q].entries : tx[q].entries[i].n \in Cmds
    BY <1>2, QueueType DEF Entry
  <2>. QED  BY <2>1 DEF Notes, Note, FinalStatus
<1>5. \A x \in notes : x.status # "ACK_RECEIVED"
  BY DEF Note
<1>. HIDE DEF notes
<1>6. \A q \in Queues : synced'[q] => synced[q] /\ InWindow(q)'
  BY <1>1, <1>2, WatchIs
<1>7. AckSound'
  <2>1. Given' = Given
    BY <1>2 DEF receiver, Given
  <2>. QED  BY <1>1, <1>2, <1>4, <1>5, <1>6, <2>1, AckSoundKept DEF DeliveryInv
<1>. QED  BY <1>1, <1>2, <1>3, <1>6, <1>7, QuietDelivery

LEMMA TickDelivery ==
  ASSUME DeliveryInv, Tick
  PROVE  DeliveryInv'
<1>1. IInv /\ IInv'
  BY TickIInv DEF DeliveryInv
<1>2. /\ tx \in [Queues -> Queue] /\ tx' = [q \in Queues |-> Aged(q, tx[q])]
      /\ done' = done /\ sent' = sent /\ data' = data /\ acks' = acks
      /\ UNCHANGED receiver /\ synced' = synced
  BY <1>1 DEF IInv, TypeOK, Tick
<1>3. \A q \in Queues : Fits(q, tx'[q], Marks(q)) /\ tx'[q].serial = tx[q].serial
  <2>1. \A q \in Queues : Fits(q, tx[q], Marks(q)) /\ tx[q] \in Queue
    BY <1>2 DEF DeliveryInv, Linked
  <2>. QED  BY <1>2, <2>1, AgedFits
<1>4. AckSound'
  <2>1. Given' = Given
    BY <1>2 DEF receiver, Given
  <2>. QED  BY <1>2, <2>1 DEF DeliveryInv, AckSound
<1>5. \A q \in Queues : synced'[q] => synced[q] /\ InWindow(q)'
  <2>1. \A q \in Queues : InWindow(q) => InWindow(q)'
    BY <1>2, <1>3 DEF InWindow, receiver
  <2>. QED  BY <1>2, <2>1 DEF DeliveryInv, Known
<1>. QED  BY <1>1, <1>2, <1>3, <1>4, <1>5, QuietDelivery

LEMMA LoseDelivery ==
  ASSUME DeliveryInv, NEW q \in Queues,
         \/ \E i \in DOMAIN data[q] : LoseData(q, i)
         \/ \E i \in DOMAIN acks[q] : LoseAck(q, i)
  PROVE  DeliveryInv'
<1>1. IInv /\ IInv'
  BY LoseIInv DEF DeliveryInv
<1>2. data \in [Queues -> Seq(Datagram)] /\ acks \in [Queues -> Seq(Datagram)]
  BY <1>1 DEF IInv, TypeOK
<1>3. /\ tx' = tx /\ done' = done /\ sent' = sent /\ UNCHANGED receiver /\ synced' = synced
      /\ \A p \in Queues :
            /\ \A i \in DOMAIN acks'[p] : \E k \in DOMAIN acks[p] : acks'[p][i] = acks[p][k]
            /\ \A i \in DOMAIN data'[p] : \E k \in DOMAIN data[p] : data'[p][i] = data[p][k]
            /\ Rising(data[p]) => Rising(data'[p])
  <2>1. ASSUME NEW i \in DOMAIN data[q], LoseData(q, i)
        PROVE  \A p \in Queues :
                 /\ acks'[p] = acks[p]
                 /\ \A j \in DOMAIN data'[p] : \E k \in DOMAIN data[p] : data'[p][j] = data[p][k]
                 /\ Rising(data[p]) => Rising(data'[p])
    <3>1. data' = [data EXCEPT ![q] = RemoveAt(data[q], i)] /\ acks' = acks
      BY <2>1 DEF LoseData
    <3>. QED  BY <1>2, <3>1, RemoveAtRising
  <2>2. ASSUME NEW i \in DOMAIN acks[q], LoseAck(q, i)
        PROVE  \A p \in Queues :
                 /\ data'[p] = data[p]
                 /\ \A j \in DOMAIN acks'[p] : \E k \in DOMAIN acks[p] : acks'[p][j] = acks[p][k]
    <3>1. acks' = [acks EXCEPT ![q] = RemoveAt(acks[q], i)] /\ data' = data
      BY <2>2 DEF LoseAck
    <3>. QED  BY <1>2, <3>1, RemoveAtRising
  <2>. QED  BY <2>1, <2>2 DEF LoseData, LoseAck
<1>4. AckSound'
  <2>1. Given' = Given
    BY <1>3 DEF receiver, Given
  <2>. QED  BY <1>3, <2>1 DEF DeliveryInv, AckSound
<1>5. \A p \in Queues : synced'[p] => synced[p] /\ InWindow(p)'
  <2>1. \A p \in Queues : InWindow(p) => InWindow(p)'
    BY <1>3 DEF InWindow, receiver
  <2>. QED  BY <1>3, <2>1 DEF DeliveryInv, Known
<1>6. \A p \in Queues : Fits(p, tx'[p], Marks(p))
  BY <1>3 DEF DeliveryInv, Linked
<1>. QED  BY <1>1, <1>3, <1>4, <1>5, <1>6, QuietDelivery

LEMMA RecvDataDelivery ==
  ASSUME DeliveryInv, NEW q \in Queues, NEW copy \in BOOLEAN, NEW i \in Arriving(data[q]),
         RecvData(q, i, copy)
  PROVE  DeliveryInv'
<1>. DEFINE f == data[q][i]
            a == [f EXCEPT !.late = 0]
            processed == ShouldProcess(recv[q], f.seq)
<1>1. IInv /\ IInv'
  BY RecvDataIInv DEF DeliveryInv
<1>2. /\ data \in [Queues -> Seq(Datagram)] /\ data[q] \in Seq(Datagram)
      /\ acks \in [Queues -> Seq(Datagram)] /\ acks[q] \in Seq(Datagram)
      /\ recv \in [Queues -> 0..(SeqSize - 1)] /\ rserial \in [Queues -> Nat]
      /\ delivered \in [Queues -> Seq(Cmds)] /\ tx[q] \in Queue
      /\ i \in DOMAIN data[q] /\ f \in Datagram
  BY <1>1 DEF IInv, TypeOK, Arriving
<1>3. /\ data' = [data EXCEPT ![q] = Taken(data[q], i, copy)]
      /\ acks' = [acks EXCEPT ![q] = IF WithAck(q) THEN Put(acks[q], <<a>>) ELSE acks[q]]
      /\ processed => /\ recv' = [recv EXCEPT ![q] = f.seq]
                      /\ rserial' = [rserial EXCEPT ![q] = f.serial]
                      /\ delivered' = [delivered EXCEPT ![q] = Append(delivered[q], f.n)]
      /\ ~processed => recv' = recv /\ rserial' = rserial /\ delivered' = delivered
      /\ tx' = tx /\ done' = done /\ sent' = sent /\ Watch
  BY DEF RecvData, receiver
<1>4. /\ f.seq \in 0..(SeqSize - 1) /\ f.serial \in Nat /\ f.n \in Cmds
      /\ tx[q].serial \in Nat /\ rserial[q] \in Nat
  BY <1>2, QueueType DEF Datagram
<1>5. a \in Datagram /\ Mark(a) = Mark(f)
  BY <1>2 DEF Datagram, Mark
<1>. HIDE DEF f, a, processed
<1>6. Mark(f) \in Marks(q)
  BY <1>2 DEF Marks, MarksOf, f
<1>7. /\ \A j \in DOMAIN data'[q] : \E k \in DOMAIN data[q] : Mark(data'[q][j]) = Mark(data[q][k])
      /\ Rising(data[q]) => Rising(data'[q])
      /\ MarksOf(data'[q]) \subseteq MarksOf(data[q])
  BY <1>2, <1>3, TakenIs
<1>8. \A j \in DOMAIN acks'[q] : \/ \E k \in DOMAIN acks[q] : acks'[q][j] = acks[q][k]
                                 \/ acks'[q][j] = a
  <2>1. CASE WithAck(q)
    <3>1. <<a>> \in Seq(Datagram) /\ DOMAIN <<a>> = {1} /\ <<a>>[1] = a
      BY <1>5
    <3>2. acks'[q] = Put(acks[q], <<a>>)
      BY <1>2, <1>3, <2>1
    <3>3. \A j \in DOMAIN Put(acks[q], <<a>>) :
             \/ \E k \in DOMAIN acks[q] : Put(acks[q], <<a>>)[j] = acks[q][k]
             \/ \E k \in DOMAIN <<a>> : Put(acks[q], <<a>>)[j] = <<a>>[k]
      BY <1>2, <3>1, PutIs
    <3>. QED  BY <3>1, <3>2, <3>3
  <2>2. CASE ~WithAck(q)
    BY <1>2, <1>3, <2>2
  <2>. QED  BY <2>1, <2>2
<1>9. /\ recv'[q] = IF processed THEN f.seq ELSE recv[q]
      /\ rserial'[q] = IF processed THEN f.serial ELSE rserial[q]
      /\ delivered'[q] = IF processed THEN Append(delivered[q], f.n) ELSE delivered[q]
      /\ \A p \in Queues : p # q => /\ recv'[p] = recv[p] /\ rserial'[p] = rserial[p]
                                    /\ delivered'[p] = delivered[p]
                                    /\ data'[p] = data[p] /\ acks'[p] = acks[p]
  BY <1>2, <1>3
<1>10. /\ processed => /\ delivered'[q] # <<>>
                       /\ Len(delivered'[q]) = Len(delivered[q]) + 1
                       /\ delivered'[q][Len(delivered[q]) + 1] = f.n
       /\ Range(delivered[q]) \subseteq Range(delivered'[q])
       /\ processed => f.n \in Range(delivered'[q])
  <2>1. CASE processed
    <3>1. delivered'[q] = Append(delivered[q], f.n) /\ Len(delivered[q]) \in Nat
      BY <1>2, <1>9, <2>1
    <3>. DEFINE d == Append(delivered[q], f.n)
    <3>2. /\ d \in Seq(Cmds) /\ Len(d) = Len(delivered[q]) + 1
          /\ d[Len(delivered[q]) + 1] = f.n
          /\ \A j \in 1..Len(delivered[q]) : d[j] = delivered[q][j]
          /\ DOMAIN d = 1..(Len(delivered[q]) + 1)
          /\ DOMAIN delivered[q] = 1..Len(delivered[q])
      BY <1>2, <1>4, AppendProperties, LenProperties
    <3>. HIDE DEF d
    <3>3. Len(delivered[q]) + 1 \in DOMAIN d /\ \A j \in DOMAIN delivered[q] : j \in DOMAIN d
      BY <3>1, <3>2
    <3>4. d # <<>>
      BY <3>3
    <3>5. f.n \in Range(d) /\ Range(delivered[q]) \subseteq Range(d)
      BY <3>2, <3>3 DEF Range
    <3>6. delivered'[q] = d
      BY <3>1 DEF d
    <3>. QED  BY <3>2, <3>4, <3>5, <3>6
  <2>2. CASE ~processed
    BY <1>9, <2>2
  <2>. QED  BY <2>1, <2>2
<1>11. LastMark(q)' \subseteq Marks(q)
  <2>1. LastMark(q)' = IF delivered'[q] = <<>> THEN {}
                       ELSE {[seq |-> recv'[q], serial |-> rserial'[q],
                              n |-> delivered'[q][Len(delivered'[q])]]}
    BY DEF LastMark
  <2>2. CASE processed
    BY <1>6, <1>9, <1>10, <2>1, <2>2 DEF Mark
  <2>3. CASE ~processed
    <3>1. LastMark(q)' = LastMark(q)
      BY <1>9, <2>1, <2>3 DEF LastMark
    <3>. QED  BY <3>1 DEF Marks
  <2>. QED  BY <2>2, <2>3
<1>12. Marks(q)' \subseteq Marks(q)
  <2>1. MarksOf(acks'[q]) \subseteq Marks(q)
    <3>1. \A j \in DOMAIN acks'[q] : Mark(acks'[q][j]) \in Marks(q)
      BY <1>5, <1>6, <1>8 DEF Marks, MarksOf
    <3>. QED  BY <3>1 DEF MarksOf
  <2>2. Marks(q)' = MarksOf(data'[q]) \cup MarksOf(acks'[q]) \cup LastMark(q)'
    BY DEF Marks, MarksOf
  <2>3. MarksOf(data[q]) \subseteq Marks(q)
    BY DEF Marks
  <2>. QED  BY <1>7, <1>11, <2>1, <2>2, <2>3
<1>13. \A p \in Queues : p # q => Marks(p)' = Marks(p)
  BY <1>9 DEF Marks, MarksOf, LastMark
<1>14. \A p \in Queues : synced'[p] => synced[p] /\ InWindow(p)'
  BY <1>1, <1>3, WatchIs
<1>15. AckSound'
  <2>1. \A p \in Queues : Range(delivered[p]) \subseteq Range(delivered'[p])
    BY <1>9, <1>10
  <2>2. Given \subseteq Given'
    BY <2>1 DEF Given
  <2>. QED  BY <1>3, <1>14, <2>2 DEF DeliveryInv, AckSound
(* What the receiver remembers is a mark, or nothing was delivered.        *)
<1>16. /\ recv[q] = NumberOf(rserial[q])
       /\ rserial[q] > 0 =>
             /\ delivered[q] # <<>>
             /\ [seq |-> recv[q], serial |-> rserial[q],
                 n |-> delivered[q][Len(delivered[q])]] \in Marks(q)
       /\ rserial[q] <= tx[q].serial
       /\ f.seq = NumberOf(f.serial) /\ f.serial > 0 /\ f.serial <= tx[q].serial
  <2>1. /\ Agrees(tx[q], Marks(q))
        /\ delivered[q] = <<>> => recv[q] = NumberOf(0) /\ rserial[q] = 0
    BY DEF DeliveryInv, Linked, Fits
  <2>2. f.seq = NumberOf(f.serial) /\ f.serial > 0 /\ f.serial <= tx[q].serial
    <3>1. Mark(f).seq = NumberOf(Mark(f).serial) /\ 0 < Mark(f).serial
          /\ Mark(f).serial <= tx[q].serial
      BY <1>6, <2>1 DEF Agrees
    <3>. QED  BY <1>4, <3>1 DEF Mark
  <2>3. CASE delivered[q] = <<>>
    BY <1>4, <2>1, <2>2, <2>3
  <2>4. CASE delivered[q] # <<>>
    <3>. DEFINE m == [seq |-> recv[q], serial |-> rserial[q],
                      n |-> delivered[q][Len(delivered[q])]]
    <3>1. m \in Marks(q)
      BY <2>4 DEF Marks, LastMark
    <3>2. m.seq = NumberOf(m.serial) /\ m.serial <= tx[q].serial
      BY <2>1, <3>1 DEF Agrees
    <3>. QED  BY <2>2, <2>4, <3>1, <3>2
  <2>. QED  BY <2>3, <2>4
<1>17. ASSUME NEW p \in Queues
       PROVE  Linked(p)'
  <2>1. Marks(p)' \subseteq Marks(p)
    BY <1>12, <1>13
  <2>2. Fits(p, tx[p], Marks(p)')
    BY <2>1, FewerMarks DEF DeliveryInv, Linked
  <2>3. Fits(p, tx[p], Marks(p))'
    BY <1>3, <2>2 DEF Fits, Shaped, Agrees, Ordered, Opened, InFlight
  <2>4. delivered'[p] = <<>> => recv'[p] = NumberOf(0) /\ rserial'[p] = 0
    BY <1>9, <1>10 DEF DeliveryInv, Linked
  <2>. QED  BY <1>3, <2>1, <2>3, <2>4 DEF DeliveryInv, Linked
(* A frame that is filtered out was delivered before, or is old.           *)
<1>18. ASSUME synced[q], ~processed
       PROVE  f.n \in Range(delivered[q]) \/ f.serial < tx[q].serial
  <2>1. InWindow(q)
    BY <1>18 DEF DeliveryInv, Known
  <2>2. ~(rserial[q] < f.serial)
    <3>1. f.serial - rserial[q] < SeqSize - Window
      <4>1. tx[q].serial - rserial[q] < SeqSize - Window
        BY <2>1 DEF InWindow
      <4>. QED  BY <1>4, <1>16, <4>1, SeqAssumption
    <3>2. rserial[q] < f.serial => ShouldProcess(NumberOf(rserial[q]), NumberOf(f.serial))
      BY <1>4, <3>1, NewerIsProcessed
    <3>. QED  BY <1>16, <1>18, <3>2 DEF processed
  <2>3. CASE f.serial = rserial[q]
    <3>. DEFINE m == [seq |-> recv[q], serial |-> rserial[q],
                      n |-> delivered[q][Len(delivered[q])]]
    <3>1. m \in Marks(q) /\ delivered[q] # <<>>
      BY <1>16, <2>3
    <3>2. Mark(f).serial = m.serial
      BY <2>3 DEF Mark
    <3>3. Mark(f).n = m.n
      BY <1>6, <3>1, <3>2 DEF DeliveryInv, Linked, Fits, Agrees
    <3>4. f.n = delivered[q][Len(delivered[q])]
      BY <3>3 DEF Mark
    <3>5. Len(delivered[q]) \in DOMAIN delivered[q]
      BY <1>2, <3>1
    <3>. QED  BY <3>4, <3>5 DEF Range
  <2>4. CASE f.serial < rserial[q]
    BY <1>4, <1>16, <2>4
  <2>. QED  BY <1>4, <2>2, <2>3, <2>4
<1>19. ASSUME NEW p \in Queues
       PROVE  Known(p)'
  <2>. SUFFICES ASSUME synced'[p], NEW j \in DOMAIN acks'[p]
                PROVE  \/ acks'[p][j].n \in Range(delivered'[p])
                       \/ acks'[p][j].serial < tx'[p].serial
    BY <1>14 DEF Known
  <2>1. synced[p]
    BY <1>14
  <2>2. \A k \in DOMAIN acks[p] : \/ acks[p][k].n \in Range(delivered[p])
                                  \/ acks[p][k].serial < tx[p].serial
    BY <2>1 DEF DeliveryInv, Known
  <2>3. CASE p # q
    BY <1>3, <1>9, <2>2, <2>3
  <2>4. CASE p = q
    <3>1. ASSUME NEW k \in DOMAIN acks[q], acks'[q][j] = acks[q][k]
          PROVE  \/ acks'[q][j].n \in Range(delivered'[q])
                 \/ acks'[q][j].serial < tx'[q].serial
      BY <1>3, <1>10, <2>2, <2>4, <3>1
    <3>2. CASE acks'[q][j] = a
      <4>1. acks'[q][j].n = f.n /\ acks'[q][j].serial = f.serial
        BY <1>5, <3>2 DEF Mark
      <4>2. f.n \in Range(delivered'[q]) \/ f.serial < tx[q].serial
        BY <1>10, <1>18, <2>1, <2>4
      <4>. QED  BY <1>3, <2>4, <4>1, <4>2
    <3>. QED  BY <1>8, <2>4, <3>1, <3>2
  <2>. QED  BY <2>3, <2>4
<1>20. InOrder(q)'
  <2>. SUFFICES ASSUME MaxReorder = 0
                PROVE  /\ Rising(data'[q])
                       /\ \A j \in DOMAIN data'[q] : rserial'[q] <= data'[q][j].serial
                       /\ ~Info[q].overwrite => Increasing(delivered'[q])
    BY DEF InOrder, Rising, Increasing
  <2>1. /\ Rising(data[q])
        /\ \A j \in DOMAIN data[q] : rserial[q] <= data[q][j].serial
        /\ ~Info[q].overwrite => Increasing(delivered[q])
    BY DEF DeliveryInv, InOrder
  <2>2. i = 1 /\ DOMAIN data[q] = 1..Len(data[q]) /\ Len(data[q]) \in Nat
    BY <1>2, FirstArrives, LenProperties
  <2>3. \A j \in DOMAIN data[q] : f.serial <= data[q][j].serial
    <3>1. \A j \in DOMAIN data[q] : j = 1 \/ 1 < j
      BY <2>2
    <3>2. f.serial <= f.serial
      BY <1>4
    <3>. QED  BY <1>2, <2>1, <2>2, <3>1, <3>2 DEF Rising, f
  <2>4. \A j \in DOMAIN data'[q] : \E k \in DOMAIN data[q] : data'[q][j].serial = data[q][k].serial
    BY <1>7 DEF Mark
  <2>5. \A j \in DOMAIN data'[q] : rserial'[q] <= data'[q][j].serial
    BY <1>9, <2>1, <2>3, <2>4
  <2>6. ASSUME ~Info[q].overwrite
        PROVE  Increasing(delivered'[q])
    <3>1. CASE ~processed
      BY <1>9, <2>1, <2>6, <3>1
    <3>2. CASE processed
      <4>. DEFINE d == delivered[q]
                  L == Len(delivered[q])
      <4>1. /\ delivered'[q] = Append(d, f.n) /\ d \in Seq(Cmds) /\ L \in Nat
            /\ DOMAIN d = 1..L /\ Increasing(d)
        BY <1>2, <1>9, <2>1, <2>6, <3>2
      <4>2. /\ DOMAIN delivered'[q] = 1..(L + 1)
            /\ \A j \in 1..L : delivered'[q][j] = d[j]
            /\ delivered'[q][L + 1] = f.n
        BY <1>4, <4>1, AppendProperties, LenProperties
      <4>3. \A j \in DOMAIN d : d[j] < f.n
        <5>1. SUFFICES ASSUME NEW j \in DOMAIN d
                       PROVE  d[j] < f.n
          OBVIOUS
        <5>2. d # <<>> /\ L \in DOMAIN d /\ d[L] \in Nat /\ d[j] \in Nat /\ f.n \in Nat
          <6>1. L \in DOMAIN d
            BY <4>1, <5>1
          <6>2. d[L] \in Cmds /\ d[j] \in Cmds
            BY <4>1, <5>1, <6>1, LenProperties
          <6>3. d # <<>>
            BY <6>1
          <6>. QED  BY <1>4, <6>1, <6>2, <6>3 DEF Cmds
        <5>. DEFINE m == [seq |-> recv[q], serial |-> rserial[q], n |-> d[L]]
        <5>3. m \in Marks(q)
          BY <5>2 DEF Marks, LastMark
        <5>4. rserial[q] < f.serial
          <6>1. rserial[q] <= f.serial
            BY <1>2, <2>1 DEF f
          <6>2. rserial[q] # f.serial
            <7>1. ~ShouldProcess(recv[q], recv[q])
              <8>1. recv[q] \in Nat
                BY <1>2, SeqAssumption
              <8>. QED  BY <8>1, SeqAssumption DEF ShouldProcess
            <7>. QED  BY <1>16, <3>2, <7>1 DEF processed
          <6>. QED  BY <1>4, <6>1, <6>2
        <5>5. m.serial < Mark(f).serial
          BY <5>4 DEF Mark
        <5>6. Ordered(tx[q], Marks(q))
          BY <2>6 DEF DeliveryInv, Linked, Fits
        <5>7. m.n < Mark(f).n
          BY <1>6, <5>3, <5>5, <5>6 DEF Ordered
        <5>8. d[L] < f.n
          BY <5>7 DEF Mark
        <5>9. j = L \/ d[j] < d[L]
          <6>1. j = L \/ j < L
            BY <4>1
          <6>. QED  BY <4>1, <5>2, <6>1 DEF Increasing
        <5>. QED  BY <5>2, <5>8, <5>9
      <4>. HIDE DEF d, L
      <4>4. ASSUME NEW j \in DOMAIN delivered'[q], NEW k \in DOMAIN delivered'[q], j < k
            PROVE  delivered'[q][j] < delivered'[q][k]
        <5>1. j \in DOMAIN d
          BY <4>1, <4>2, <4>4
        <5>2. CASE k \in DOMAIN d
          BY <4>1, <4>2, <4>4, <5>1, <5>2 DEF Increasing
        <5>3. CASE k = L + 1
          BY <4>1, <4>2, <4>3, <5>1, <5>3
        <5>. QED  BY <4>1, <4>2, <5>2, <5>3
      <4>. QED  BY <4>4 DEF Increasing
    <3>. QED  BY <3>1, <3>2
  <2>. QED  BY <1>7, <2>1, <2>5, <2>6
<1>21. \A p \in Queues : p # q => InOrder(p)'
  BY <1>9 DEF DeliveryInv, InOrder, Rising, Increasing
<1>. QED  BY <1>1, <1>15, <1>17, <1>19, <1>20, <1>21 DEF DeliveryInv

LEMMA InitDelivery == Init => DeliveryInv
<1>. SUFFICES ASSUME Init
              PROVE  DeliveryInv
  OBVIOUS
<1>1. IInv
  BY InitIInv
<1>. DEFINE none == <<>>
<1>2. DOMAIN none = {} /\ none # <<"ACK_RECEIVED">>
  OBVIOUS
<1>3. AckSound
  BY DEF Init, AckSound
<1>4. ASSUME NEW q \in Queues
      PROVE  Linked(q) /\ Known(q) /\ InOrder(q)
  <2>1. /\ data[q] = none /\ acks[q] = none /\ delivered[q] = none
        /\ recv[q] = SeqSize - 1 /\ rserial[q] = 0 /\ tx[q] = NewQueue(q)
    BY DEF Init
  <2>2. tx[q].entries = none /\ tx[q].seq = SeqSize - 1 /\ tx[q].serial = 0
    BY <2>1 DEF NewQueue
  <2>3. ~Opened(tx[q]) /\ ~InFlight(tx[q])
    BY <2>2 DEF Opened, InFlight
  <2>4. LastMark(q) = {}
    BY <2>1 DEF LastMark
  <2>. HIDE DEF none
  <2>5. Marks(q) = {}
    BY <1>2, <2>1, <2>4 DEF Marks, MarksOf
  <2>6. Fits(q, tx[q], Marks(q))
    BY <1>2, <2>2, <2>3, <2>5, NumberStart DEF Fits, Shaped, Agrees, Ordered
  <2>7. Linked(q)
    BY <2>1, <2>5, <2>6, NumberStart DEF Linked
  <2>8. InWindow(q)
    <3>1. 0 - 0 < SeqSize - Window
      BY SeqAssumption
    <3>. QED  BY <1>2, <2>1, <2>2, <3>1 DEF InWindow
  <2>9. Known(q)
    BY <1>2, <2>1, <2>8 DEF Known
  <2>10. InOrder(q)
    BY <1>2, <2>1 DEF InOrder, Rising, Increasing
  <2>. QED  BY <2>7, <2>9, <2>10
<1>. QED  BY <1>1, <1>3, <1>4 DEF DeliveryInv

LEMMA NextDelivery == DeliveryInv /\ [Next]_vars => DeliveryInv'
<1>. SUFFICES ASSUME DeliveryInv, [Next]_vars
              PROVE  DeliveryInv'
  OBVIOUS
<1>1. ASSUME NEW bt \in BufferTypes, NEW kind \in Kinds, Send(bt, kind)
      PROVE  DeliveryInv'
  BY <1>1, SendDelivery
<1>2. CASE TimerCb
  BY <1>2, TimerCbDelivery
<1>3. ASSUME NEW q \in Queues, NEW copy \in BOOLEAN, NEW i \in Arriving(acks[q]),
             RecvAck(q, i, copy)
      PROVE  DeliveryInv'
  BY <1>3, RecvAckDelivery
<1>4. CASE Stop
  BY <1>4, StopDelivery
<1>5. ASSUME NEW q \in Queues, NEW copy \in BOOLEAN, NEW i \in Arriving(data[q]),
             RecvData(q, i, copy)
      PROVE  DeliveryInv'
  BY <1>5, RecvDataDelivery
<1>6. ASSUME NEW q \in Queues, \/ \E i \in DOMAIN data[q] : LoseData(q, i)
                               \/ \E i \in DOMAIN acks[q] : LoseAck(q, i)
      PROVE  DeliveryInv'
  BY <1>6, LoseDelivery
<1>7. CASE Tick
  BY <1>7, TickDelivery
<1>8. CASE UNCHANGED vars
  <2>1. /\ tx' = tx /\ done' = done /\ sent' = sent /\ data' = data /\ acks' = acks
        /\ UNCHANGED receiver /\ synced' = synced
    BY <1>8 DEF vars, receiver
  <2>2. IInv'
    BY <1>8, NextIInv DEF DeliveryInv
  <2>3. AckSound'
    <3>1. Given' = Given
      BY <2>1 DEF receiver, Given
    <3>. QED  BY <2>1, <3>1 DEF DeliveryInv, AckSound
  <2>4. \A p \in Queues : synced'[p] => synced[p] /\ InWindow(p)'
    BY <2>1 DEF DeliveryInv, Known, InWindow, receiver
  <2>5. \A p \in Queues : Fits(p, tx'[p], Marks(p))
    BY <2>1 DEF DeliveryInv, Linked
  <2>. QED  BY <2>1, <2>2, <2>3, <2>4, <2>5, QuietDelivery
<1>. QED  BY <1>1, <1>2, <1>3, <1>4, <1>5, <1>6, <1>7, <1>8 DEF Next

LEMMA SpecDelivery == Spec => []DeliveryInv
  BY InitDelivery, NextDelivery, PTL DEF Spec

(* A command told ACK_RECEIVED was given to the peer's application, while  *)
(* numbers are unambiguous; and on a link that keeps the order of          *)
(* datagrams the application gets the commands of a queue that does not    *)
(* overwrite in order and once, whatever is lost, sent again, refused or   *)
(* stopped (recv_ack, should_process_data).                                *)
THEOREM AcknowledgedWereDelivered == Spec => []Delivered
<1>1. DeliveryInv => Delivered
  BY DEF DeliveryInv, InOrder, Increasing, Delivered, InOrderOnce
<1>. QED  BY <1>1, SpecDelivery, PTL

(***************************************************************************)
(* One queue with acknowledgement is a reliable channel                    *)
(***************************************************************************)

(* The only queue, which neither overwrites nor gives up.                  *)
Alone ==
    /\ Len(Info) = 1 /\ WithAck(1) /\ ~Info[1].overwrite
    /\ Kinds \subseteq RetryKinds \/ Info[1].maxRetry <= 0 \/ Info[1].maxRetry = IntMax

(* The socket refuses no frame, so that each command uses one number; and  *)
(* the link keeps the order of datagrams or, while numbers do not wrap,    *)
(* lets at most Window of them overtake one (should_process_data).         *)
Unambiguous ==
    /\ RefuseUntil = 0
    /\ MaxReorder = 0 \/ (MaxReorder <= Window /\ MaxCmds <= SeqSize)

(* Queue qu holds the last of k accepted commands; its serial number is    *)
(* the name of the last command it sent; those before its head were        *)
(* acknowledged (d says what was notified), and the receiver is at most    *)
(* one command behind.                                                     *)
Ended(qu, k) == k - Len(qu.entries)
Counted(qu, k, r, open, d) ==
    /\ \A i \in DOMAIN qu.entries : qu.entries[i].n = Ended(qu, k) + i
    /\ qu.serial <= r + 1 /\ qu.serial <= k
    /\ ~open => qu.entries = <<>>
    /\ open => /\ qu.serial = IF Opened(qu) THEN Ended(qu, k) + 1 ELSE Ended(qu, k)
               /\ 0 <= Ended(qu, k) /\ Ended(qu, k) <= r
               /\ \A n \in 1..Ended(qu, k) : d[n] = <<"ACK_RECEIVED">>

(* The peer's application got commands 1 to r.                             *)
Received(s, r, serial) ==
    /\ r = Len(s) /\ r <= serial
    /\ \A i \in DOMAIN s : s[i] = i

(* A frame is behind the receiver by no more than what overtook it.        *)
Travelling(c, r) ==
    /\ Rising(c)
    /\ \A i \in DOMAIN c : /\ c[i].n = c[i].serial
                            /\ c[i].late <= MaxReorder
                            /\ r <= c[i].serial + c[i].late

(* What was acknowledged was received; and in order, the acknowledgements  *)
(* in the network are of the last command that ended or of the next.       *)
Returning(c, r, ended, open) ==
    /\ \A i \in DOMAIN c : c[i].serial <= r
    /\ MaxReorder = 0 =>
          /\ Rising(c)
          /\ open => \A i \in DOMAIN c : ended <= c[i].serial

ChanInv ==
    /\ DeliveryInv
    /\ Counted(tx[1], sent, rserial[1], up, done)
    /\ Received(delivered[1], rserial[1], tx[1].serial)
    /\ Travelling(data[1], rserial[1])
    /\ Returning(acks[1], rserial[1], Ended(tx[1], sent), up)

LEMMA ChanInvNext ==
  ASSUME DeliveryInv',
         Counted(tx'[1], sent', rserial'[1], up', done'),
         Received(delivered'[1], rserial'[1], tx'[1].serial),
         Travelling(data'[1], rserial'[1]),
         Returning(acks'[1], rserial'[1], Ended(tx'[1], sent'), up')
  PROVE  ChanInv'
  BY DEF ChanInv, Counted, Ended, Opened, Received, Travelling, Returning, Rising

LEMMA AloneIs ==
  ASSUME Alone
  PROVE  /\ Queues = {1} /\ 1 \in Queues
         /\ \A e \in Entry : ~GivesUp(1, e)
<1>1. Queues = {1} /\ 1 \in Queues
  BY DEF Alone, Queues
<1>2. ASSUME NEW e \in Entry
      PROVE  ~GivesUp(1, e)
  <2>1. e.kind \in Kinds /\ e.retry \in 0..RetryCap /\ RetryCap \in Nat
    BY BoundsAssumption DEF Entry
  <2>2. Info[1].maxRetry \in Int
    BY <1>1, QueueInfoType, <2>1 DEF QueueInfo, IntMax
  <2>3. MaxRetry(1, e) = IntMax \/ (MaxRetry(1, e) \in Int /\ MaxRetry(1, e) <= 0)
    BY <2>1, <2>2 DEF MaxRetry, Alone
  <2>. QED  BY <2>1, <2>3 DEF GivesUp, IntMax
<1>. QED  BY <1>1, <1>2

(* What a pass leaves of a queue that gives up on nothing: the same        *)
(* commands, and the head either as it was or sent, under the number it    *)
(* has or, the first time, the next one.                                   *)
Kept(qu, new) ==
    /\ new \in Queue
    /\ DOMAIN new.entries = DOMAIN qu.entries /\ Len(new.entries) = Len(qu.entries)
    /\ \A i \in DOMAIN qu.entries : new.entries[i].n = qu.entries[i].n
Idle(qu, pass) ==
    /\ pass.frames = <<>>
    /\ pass.queue.serial = qu.serial
    /\ Opened(pass.queue) <=> Opened(qu)
Sends(qu, pass) ==
    /\ qu.entries # <<>> /\ Opened(pass.queue)
    /\ pass.queue.serial = IF Opened(qu) THEN qu.serial ELSE qu.serial + 1
    /\ \E f \in Datagram : /\ pass.frames = <<f>>
                           /\ f.n = qu.entries[1].n /\ f.late = 0
                           /\ f.serial = pass.queue.serial
Passed(qu, pass) ==
    pass.notes = {} /\ Kept(qu, pass.queue) /\ (Idle(qu, pass) \/ Sends(qu, pass))

LEMMA KeptTwice ==
  ASSUME NEW a, NEW b, NEW c, Kept(a, b), Kept(b, c)
  PROVE  Kept(a, c)
  BY DEF Kept

LEMMA IdlePassed ==
  ASSUME NEW qu \in Queue, NEW new, Kept(qu, new), new.serial = qu.serial,
         Opened(new) <=> Opened(qu), NEW timeout
  PROVE  Passed(qu, Pass(new, <<>>, {}, timeout))
<1>. DEFINE pass == Pass(new, <<>>, {}, timeout)
<1>1. pass.queue = new /\ pass.frames = <<>> /\ pass.notes = {}
  BY DEF Pass
<1>2. Passed(qu, pass)
  <2>. HIDE DEF pass
  <2>. QED  BY <1>1 DEF Passed, Idle
<1>. QED  BY <1>2

LEMMA ExpireKept ==
  ASSUME Alone, NEW qu \in Queue
  PROVE  /\ Expire(1, qu) \in Queue /\ Kept(qu, Expire(1, qu))
         /\ Expire(1, qu).serial = qu.serial
         /\ Opened(Expire(1, qu)) <=> Opened(qu)
         /\ ~InFlight(Expire(1, qu))
         /\ ExpireNotes(1, qu) = {}
<1>1. CASE ~InFlight(qu)
  BY <1>1 DEF Expire, ExpireNotes, Kept
<1>2. CASE InFlight(qu)
  <2>1. /\ 1 \in DOMAIN qu.entries /\ qu.entries[1] \in Entry
        /\ qu.entries # <<>> /\ Head(qu.entries) = qu.entries[1]
        /\ qu.entries[1].waiting
    BY <1>2, QueueType DEF InFlight
  <2>2. ~GivesUp(1, Head(qu.entries))
    BY <2>1, AloneIs
  <2>. DEFINE e == Retried(qu.entries[1])
              new == [qu EXCEPT !.entries[1] = e]
  <2>3. Expire(1, qu) = new /\ ExpireNotes(1, qu) = {}
    BY <1>2, <2>2 DEF Expire, ExpireNotes
  <2>4. e \in Entry /\ e.n = qu.entries[1].n /\ e.waiting = FALSE /\ e.retry > 0
    BY <2>1, RetriedType
  <2>5. new.serial = qu.serial
    BY DEF Queue
  <2>. HIDE DEF e
  <2>6. /\ new \in Queue /\ DOMAIN new.entries = DOMAIN qu.entries
        /\ Len(new.entries) = Len(qu.entries)
        /\ \A j \in DOMAIN qu.entries :
              new.entries[j] = IF j = 1 THEN e ELSE qu.entries[j]
    BY <2>1, <2>4, ReplaceEntry
  <2>. HIDE DEF new
  <2>7. new.entries # <<>> /\ new.entries[1] = e /\ Head(new.entries) = new.entries[1]
    BY <2>1, <2>6, QueueType
  <2>8. Kept(qu, new)
    BY <2>4, <2>6 DEF Kept
  <2>9. Opened(new) /\ Opened(qu) /\ ~InFlight(new)
    BY <2>1, <2>4, <2>7 DEF Opened, InFlight
  <2>. QED  BY <2>3, <2>5, <2>6, <2>8, <2>9
<1>. QED  BY <1>1, <1>2

LEMMA HeadPassed ==
  ASSUME Alone, NEW qu \in Queue, qu.entries # <<>>, ~qu.entries[1].waiting
  PROVE  Passed(qu, TransmitHead(1, qu, MaxCmds))
<1>. DEFINE num == Numbered(qu)
            e   == [num.entries[1] EXCEPT !.seq = num.seq, !.waiting = TRUE, !.age = 0]
            out == [num EXCEPT !.txAge = 0, !.entries[1] = e]
            f   == Frame(num, 1, 0)
            mid == [num EXCEPT !.txAge = 0]
            pass == TransmitHead(1, qu, MaxCmds)
<1>1. /\ 1 \in DOMAIN qu.entries /\ qu.entries[1] \in Entry
      /\ Head(qu.entries) = qu.entries[1] /\ qu.serial \in Nat
      /\ qu.entries[1].retry \in Nat
  <2>1. 1 \in DOMAIN qu.entries /\ qu.entries[1] \in Entry
    BY QueueType
  <2>. QED  BY <2>1, QueueType, BoundsAssumption DEF Entry
<1>2. /\ num \in Queue /\ num.entries = qu.entries
      /\ num.seq \in 0..(SeqSize - 1) /\ num.serial \in Nat
  BY NumberedType, QueueType
<1>3. num.serial = IF Opened(qu) THEN qu.serial ELSE qu.serial + 1
  <2>1. Opened(qu) <=> qu.entries[1].retry # 0
    BY <1>1 DEF Opened
  <2>2. num.serial = IF qu.entries[1].retry = 0 THEN qu.serial + 1 ELSE qu.serial
    BY <1>1 DEF Numbered, Queue
  <2>. QED  BY <2>1, <2>2
<1>4. f \in Datagram /\ f.n = qu.entries[1].n /\ f.late = 0 /\ f.serial = num.serial
  <2>1. f \in Datagram
    BY <1>1, <1>2, FrameType
  <2>. QED  BY <1>2, <2>1 DEF Frame
<1>5. pass.queue = out /\ pass.frames = <<f>> /\ pass.notes = {}
  <2>1. pass = Pass(out, <<f>>, {}, Info[1].ackTimeout)
    <3>1. MaxCmds # 0
      <4>1. qu.entries[1].n \in 1..MaxCmds
        BY <1>1 DEF Entry, Cmds
      <4>. QED  BY <4>1, BoundsAssumption
    <3>. QED  BY <1>1, <1>2, <3>1 DEF TransmitHead
  <2>. HIDE DEF out, f, pass
  <2>. QED  BY <2>1 DEF Pass
<1>. HIDE DEF num, f, pass
<1>6. e \in Entry /\ e.n = qu.entries[1].n /\ e.waiting
  BY <1>1, <1>2 DEF Entry
<1>7. /\ mid \in Queue /\ mid.entries = qu.entries /\ mid.serial = num.serial
      /\ out = [mid EXCEPT !.entries[1] = e]
  BY <1>2 DEF Queue
<1>9. out.serial = num.serial
  BY <1>2 DEF Queue
<1>. HIDE DEF e, mid, out
<1>8. /\ out \in Queue /\ DOMAIN out.entries = DOMAIN qu.entries
      /\ Len(out.entries) = Len(qu.entries)
      /\ \A j \in DOMAIN qu.entries : out.entries[j] = IF j = 1 THEN e ELSE qu.entries[j]
  BY <1>1, <1>6, <1>7, ReplaceEntry
<1>10. Kept(qu, out)
  BY <1>6, <1>8 DEF Kept
<1>11. Opened(out)
  <2>1. out.entries[1] = e /\ out.entries # <<>>
    BY <1>1, <1>8, QueueType
  <2>. QED  BY <1>6, <2>1 DEF Opened
<1>12. Sends(qu, pass)
  BY <1>3, <1>4, <1>5, <1>9, <1>11 DEF Sends
<1>13. Passed(qu, pass)
  BY <1>5, <1>10, <1>12 DEF Passed
<1>. QED  BY <1>13 DEF pass

LEMMA PassPassed ==
  ASSUME Alone, NEW qu \in Queue
  PROVE  Passed(qu, CheckTxQueue(1, qu, MaxCmds))
<1>1. Kept(qu, qu)
  BY DEF Kept
<1>2. CASE AckPending(1, qu)
  <2>1. Passed(qu, Pass(qu, <<>>, {}, Info[1].ackTimeout - Head(qu.entries).age))
    BY <1>1, IdlePassed
  <2>. QED  BY <1>2, <2>1 DEF CheckTxQueue
<1>3. CASE ~AckPending(1, qu)
  <2>. DEFINE qx == Expire(1, qu)
              sending == Transmit(1, qx, MaxCmds)
  <2>1. /\ qx \in Queue /\ Kept(qu, qx) /\ qx.serial = qu.serial
        /\ Opened(qx) <=> Opened(qu)
        /\ ~InFlight(qx) /\ ExpireNotes(1, qu) = {}
    BY ExpireKept
  <2>2. CheckTxQueue(1, qu, MaxCmds) = [sending EXCEPT !.notes = @ \cup {}]
    BY <1>3, <2>1 DEF CheckTxQueue
  <2>. HIDE DEF qx
  <2>3. CASE Unsent(qx) /\ ~TooSoon(1, qx)
    <3>1. qx.entries # <<>> /\ ~qx.entries[1].waiting
      BY <2>1, <2>3, QueueType DEF Unsent
    <3>2. sending = TransmitHead(1, qx, MaxCmds)
      BY <2>3, <3>1 DEF Transmit, Alone
    <3>3. Passed(qx, sending)
      BY <2>1, <3>1, <3>2, HeadPassed
    <3>4. [sending EXCEPT !.notes = @ \cup {}] = sending
      <4>1. \A a, b, c, d : [Pass(a, b, c, d) EXCEPT !.notes = @ \cup {}] = Pass(a, b, c, d)
        BY DEF Pass
      <4>2. \E a, b, c, d : sending = Pass(a, b, c, d)
        BY <3>2 DEF TransmitHead
      <4>. QED  BY <4>1, <4>2
    <3>. HIDE DEF sending
    <3>5. qx.entries[1].n = qu.entries[1].n /\ qu.entries # <<>>
      <4>1. 1 \in DOMAIN qx.entries
        BY <2>1, <3>1, QueueType
      <4>2. 1 \in DOMAIN qu.entries
        BY <2>1, <4>1 DEF Kept
      <4>. QED  BY <2>1, <4>2 DEF Kept
    <3>6. Kept(qu, sending.queue)
      BY <2>1, <3>3, KeptTwice DEF Passed
    <3>7. Idle(qx, sending) => Idle(qu, sending)
      BY <2>1 DEF Idle
    <3>8. Sends(qx, sending) => Sends(qu, sending)
      BY <2>1, <3>5 DEF Sends
    <3>. QED  BY <2>2, <3>3, <3>4, <3>6, <3>7, <3>8 DEF Passed
  <2>4. CASE ~(Unsent(qx) /\ ~TooSoon(1, qx))
    <3>1. \E timeout : sending = Pass(qx, <<>>, {}, timeout)
      <4>1. CASE qx.entries = <<>>
        <5>1. ~Unsent(qx)
          BY <4>1 DEF Unsent
        <5>. QED  BY <4>1, <5>1 DEF Transmit
      <4>2. CASE qx.entries # <<>> /\ Unsent(qx) /\ TooSoon(1, qx)
        BY <4>2 DEF Transmit
      <4>3. CASE qx.entries # <<>> /\ ~Unsent(qx)
        BY <4>3 DEF Transmit
      <4>. QED  BY <2>4, <4>1, <4>2, <4>3
    <3>2. PICK timeout : sending = Pass(qx, <<>>, {}, timeout)
      BY <3>1
    <3>3. CheckTxQueue(1, qu, MaxCmds) = Pass(qx, <<>>, {}, timeout)
      BY <2>2, <3>2 DEF Pass
    <3>. QED  BY <2>1, <3>3, IdlePassed
  <2>. QED  BY <2>3, <2>4
<1>. QED  BY <1>2, <1>3

LEMMA CountedPass ==
  ASSUME NEW qu \in Queue, NEW pass, Passed(qu, pass), NEW k \in Nat, NEW r \in Nat,
         NEW open, NEW d, Counted(qu, k, r, open, d)
  PROVE  /\ Counted(pass.queue, k, r, open, d)
         /\ Ended(pass.queue, k) = Ended(qu, k)
         /\ qu.serial <= pass.queue.serial
         /\ pass.frames = <<>>
            \/ \E f \in Datagram : /\ pass.frames = <<f>> /\ f.n = f.serial
                                   /\ f.late = 0 /\ f.serial = pass.queue.serial
<1>. DEFINE new == pass.queue
<1>1. /\ new \in Queue /\ DOMAIN new.entries = DOMAIN qu.entries
      /\ Len(new.entries) = Len(qu.entries) /\ Len(qu.entries) \in Nat
      /\ DOMAIN qu.entries = 1..Len(qu.entries)
      /\ \A i \in DOMAIN qu.entries : new.entries[i].n = qu.entries[i].n
      /\ qu.serial \in Nat
  BY QueueType DEF Passed, Kept
<1>2. Ended(new, k) = Ended(qu, k) /\ Ended(qu, k) \in Int
  BY <1>1 DEF Ended
<1>3. \A i \in DOMAIN new.entries : new.entries[i].n = Ended(new, k) + i
  BY <1>1, <1>2 DEF Counted
<1>4. ~open => new.entries = <<>>
  <2>1. ~open => Len(new.entries) = 0
    BY <1>1 DEF Counted
  <2>2. new.entries \in Seq(Entry)
    BY <1>1, QueueType
  <2>. QED  BY <2>1, <2>2, EmptySeq
<1>5. CASE Idle(qu, pass)
  <2>1. new.serial = qu.serial /\ (Opened(new) <=> Opened(qu)) /\ pass.frames = <<>>
    BY <1>5 DEF Idle
  <2>2. Counted(new, k, r, open, d)
    BY <1>2, <1>3, <1>4, <2>1 DEF Counted
  <2>. QED  BY <1>1, <1>2, <2>1, <2>2
<1>6. CASE Sends(qu, pass)
  <2>1. PICK f \in Datagram : /\ pass.frames = <<f>> /\ f.n = qu.entries[1].n
                              /\ f.late = 0 /\ f.serial = new.serial
    BY <1>6 DEF Sends
  <2>2. /\ qu.entries # <<>> /\ Opened(new)
        /\ new.serial = IF Opened(qu) THEN qu.serial ELSE qu.serial + 1
    BY <1>6 DEF Sends
  <2>3. open
    BY <2>2 DEF Counted
  <2>4. 1 \in DOMAIN qu.entries /\ Len(qu.entries) >= 1
    BY <1>1, <2>2, QueueType
  <2>5. /\ qu.serial = IF Opened(qu) THEN Ended(qu, k) + 1 ELSE Ended(qu, k)
        /\ 0 <= Ended(qu, k) /\ Ended(qu, k) <= r
        /\ \A n \in 1..Ended(qu, k) : d[n] = <<"ACK_RECEIVED">>
        /\ qu.entries[1].n = Ended(qu, k) + 1
    BY <2>3, <2>4 DEF Counted
  <2>6. new.serial = Ended(qu, k) + 1
    BY <1>2, <2>2, <2>5
  <2>7. Ended(qu, k) + 1 <= k
    BY <1>1, <2>4 DEF Ended
  <2>8. new.serial <= r + 1 /\ new.serial <= k /\ qu.serial <= new.serial
    BY <1>2, <2>5, <2>6, <2>7
  <2>9. Counted(new, k, r, open, d)
    BY <1>2, <1>3, <1>4, <2>2, <2>5, <2>6, <2>8 DEF Counted
  <2>10. f.n = f.serial
    BY <2>1, <2>5, <2>6
  <2>. QED  BY <1>2, <2>1, <2>8, <2>9, <2>10
<1>. QED  BY <1>5, <1>6 DEF Passed

LEMMA TravellingPut ==
  ASSUME NEW c \in Seq(Datagram), NEW r \in Nat, Travelling(c, r),
         NEW f \in Datagram, f.n = f.serial, f.late = 0, r <= f.serial,
         \A i \in DOMAIN c : c[i].serial <= f.serial
  PROVE  Travelling(Put(c, <<f>>), r)
<1>. DEFINE g == <<f>>
            p == Put(c, g)
<1>1. g \in Seq(Datagram) /\ DOMAIN g = {1} /\ g[1] = f
  OBVIOUS
<1>2. f.serial \in Nat /\ MaxReorder \in Nat
  BY BoundsAssumption DEF Datagram
<1>. HIDE DEF g
<1>3. Rising(g)
  BY <1>1, <1>2 DEF Rising
<1>4. \A i \in DOMAIN c, j \in DOMAIN g : c[i].serial <= g[j].serial
  BY <1>1
<1>5. Rising(c)
  BY DEF Travelling
<1>6. /\ \A i \in DOMAIN p : \/ \E j \in DOMAIN c : p[i] = c[j]
                             \/ \E j \in DOMAIN g : p[i] = g[j]
      /\ Rising(p)
  BY <1>1, <1>3, <1>4, <1>5, PutIs
<1>. HIDE DEF p
<1>7. /\ f.late <= MaxReorder /\ r <= f.serial + f.late
  BY <1>2
<1>8. \A i \in DOMAIN p : /\ p[i].n = p[i].serial /\ p[i].late <= MaxReorder
                          /\ r <= p[i].serial + p[i].late
  BY <1>1, <1>6, <1>7 DEF Travelling
<1>9. Travelling(p, r)
  BY <1>6, <1>8 DEF Travelling
<1>. QED  BY <1>9 DEF p, g

LEMMA MarkedSerials ==
  ASSUME DeliveryInv, 1 \in Queues
  PROVE  /\ \A i \in DOMAIN data[1] : /\ data[1][i] \in Datagram
                                      /\ 0 < data[1][i].serial
                                      /\ data[1][i].serial <= tx[1].serial
                                      /\ data[1][i].seq = NumberOf(data[1][i].serial)
         /\ \A i \in DOMAIN acks[1] : /\ acks[1][i] \in Datagram
                                      /\ 0 < acks[1][i].serial
                                      /\ acks[1][i].serial <= tx[1].serial
                                      /\ acks[1][i].seq = NumberOf(acks[1][i].serial)
<1>1. data[1] \in Seq(Datagram) /\ acks[1] \in Seq(Datagram)
  BY DEF DeliveryInv, IInv, TypeOK
<1>2. \A m \in Marks(1) : /\ 0 < m.serial /\ m.serial <= tx[1].serial
                          /\ m.seq = NumberOf(m.serial)
  BY DEF DeliveryInv, Linked, Fits, Agrees
<1>3. ASSUME NEW d \in Datagram, Mark(d) \in Marks(1)
      PROVE  0 < d.serial /\ d.serial <= tx[1].serial /\ d.seq = NumberOf(d.serial)
  <2>1. /\ 0 < Mark(d).serial /\ Mark(d).serial <= tx[1].serial
        /\ Mark(d).seq = NumberOf(Mark(d).serial)
    BY <1>2, <1>3
  <2>. QED  BY <2>1 DEF Mark
<1>4. \A i \in DOMAIN data[1] : data[1][i] \in Datagram /\ Mark(data[1][i]) \in Marks(1)
  BY <1>1, LenProperties DEF Marks, MarksOf
<1>5. \A i \in DOMAIN acks[1] : acks[1][i] \in Datagram /\ Mark(acks[1][i]) \in Marks(1)
  BY <1>1, LenProperties DEF Marks, MarksOf
<1>. QED  BY <1>3, <1>4, <1>5

(* What the steps of the sender share: queues t, in which some command was *)
(* added, acknowledged or none, are checked.                               *)
LEMMA ChanCheck ==
  ASSUME Alone, Unambiguous, ChanInv, DeliveryInv',
         NEW t \in [Queues -> Queue], NEW notes, CheckTxQueues(t, notes),
         t[1].serial = tx[1].serial, UNCHANGED receiver,
         Counted(t[1], sent', rserial[1], up', Notify(done, notes))
  PROVE  /\ Counted(tx'[1], sent', rserial'[1], up', done')
         /\ Received(delivered'[1], rserial'[1], tx'[1].serial)
         /\ Travelling(data'[1], rserial'[1])
         /\ Ended(tx'[1], sent') = Ended(t[1], sent')
         /\ done' = Notify(done, notes)
<1>. DEFINE pass == CheckTxQueue(1, t[1], MaxCmds)
<1>1. Queues = {1} /\ 1 \in Queues /\ t[1] \in Queue
  BY AloneIs
<1>2. /\ rserial'[1] = rserial[1] /\ delivered'[1] = delivered[1]
      /\ rserial[1] \in Nat /\ sent' \in Nat /\ data[1] \in Seq(Datagram)
      /\ tx[1].serial \in Nat /\ tx'[1] \in Queue /\ tx'[1].serial \in Nat
  <2>1. tx[1] \in Queue /\ tx'[1] \in Queue
    BY <1>1 DEF ChanInv, DeliveryInv, IInv, TypeOK
  <2>2. sent' \in 0..MaxCmds /\ MaxCmds \in Nat
    BY BoundsAssumption DEF DeliveryInv, IInv, TypeOK
  <2>. QED  BY <1>1, <2>1, <2>2, QueueType DEF receiver, ChanInv, DeliveryInv, IInv, TypeOK
<1>3. Passed(t[1], pass)
  BY <1>1, PassPassed
<1>4. PICK ok \in Budget(t) :
        LET p == [q \in Queues |-> CheckTxQueue(q, t[q], ok[q])]
        IN  /\ tx' = [q \in Queues |-> p[q].queue]
            /\ data' = [q \in Queues |-> Put(data[q], p[q].frames)]
            /\ done' = Notify(done, notes \cup UNION {p[q].notes : q \in Queues})
  BY DEF CheckTxQueues
<1>5. ok[1] = MaxCmds
  <2>1. t[1].serial >= RefuseUntil
    BY <1>2 DEF Unambiguous
  <2>. QED  BY <1>1, <1>4, <2>1 DEF Budget
<1>6. /\ tx'[1] = pass.queue /\ data'[1] = Put(data[1], pass.frames)
      /\ done' = Notify(done, notes)
  <2>1. /\ tx'[1] = pass.queue /\ data'[1] = Put(data[1], pass.frames)
        /\ done' = Notify(done, notes \cup UNION {pass.notes})
    BY <1>1, <1>4, <1>5
  <2>2. pass.notes = {}
    BY <1>3 DEF Passed
  <2>3. notes \cup UNION {pass.notes} = notes
    BY <2>2
  <2>. QED  BY <2>1, <2>3
<1>. HIDE DEF pass
<1>7. /\ Counted(pass.queue, sent', rserial[1], up', done')
      /\ Ended(pass.queue, sent') = Ended(t[1], sent')
      /\ t[1].serial <= pass.queue.serial
      /\ \/ pass.frames = <<>>
         \/ \E f \in Datagram : /\ pass.frames = <<f>> /\ f.n = f.serial
                                /\ f.late = 0 /\ f.serial = pass.queue.serial
  BY <1>1, <1>2, <1>3, <1>6, CountedPass
<1>8. rserial[1] <= tx[1].serial /\ tx[1].serial <= tx'[1].serial
  BY <1>6, <1>7 DEF ChanInv, Received
<1>9. Received(delivered'[1], rserial'[1], tx'[1].serial)
  <2>1. rserial[1] <= tx'[1].serial
    BY <1>2, <1>8
  <2>. QED  BY <1>2, <2>1 DEF ChanInv, Received
<1>10. Travelling(data'[1], rserial[1])
  <2>1. CASE pass.frames = <<>>
    <3>1. Put(data[1], <<>>) = data[1]
      BY <1>2 DEF Put
    <3>. QED  BY <1>6, <2>1, <3>1 DEF ChanInv
  <2>2. ASSUME NEW f \in Datagram, pass.frames = <<f>>, f.n = f.serial,
               f.late = 0, f.serial = tx'[1].serial
        PROVE  Travelling(data'[1], rserial[1])
    <3>1. \A i \in DOMAIN data[1] : data[1][i].serial <= f.serial
      <4>1. SUFFICES ASSUME NEW i \in DOMAIN data[1]
                     PROVE  data[1][i].serial <= f.serial
        OBVIOUS
      <4>2. data[1][i] \in Datagram /\ data[1][i].serial <= tx[1].serial
        BY <1>1, MarkedSerials DEF ChanInv
      <4>3. data[1][i].serial \in Nat
        BY <4>2 DEF Datagram
      <4>. QED  BY <1>2, <1>8, <2>2, <4>2, <4>3
    <3>2. rserial[1] <= f.serial
      BY <1>2, <1>8, <2>2
    <3>3. Travelling(data[1], rserial[1])
      BY DEF ChanInv
    <3>. QED  BY <1>2, <1>6, <2>2, <3>1, <3>2, <3>3, TravellingPut
  <2>. QED  BY <1>6, <1>7, <2>1, <2>2
<1>. QED  BY <1>2, <1>6, <1>7, <1>9, <1>10

LEMMA NotifyNone ==
  ASSUME NEW d \in DoneType
  PROVE  Notify(d, {}) = d
  BY DEF Notify, DoneType

LEMMA ChanTypes ==
  ASSUME Alone, ChanInv
  PROVE  /\ Queues = {1} /\ 1 \in Queues
         /\ tx \in [Queues -> Queue] /\ tx[1] \in Queue /\ tx[1].serial \in Nat
         /\ up \in BOOLEAN /\ sent \in 0..MaxCmds /\ sent \in Nat /\ MaxCmds \in Nat
         /\ done \in DoneType
         /\ data \in [Queues -> Seq(Datagram)] /\ data[1] \in Seq(Datagram)
         /\ acks \in [Queues -> Seq(Datagram)] /\ acks[1] \in Seq(Datagram)
         /\ rserial \in [Queues -> Nat] /\ rserial[1] \in Nat
         /\ delivered \in [Queues -> Seq(Cmds)] /\ delivered[1] \in Seq(Cmds)
         /\ recv \in [Queues -> 0..(SeqSize - 1)]
         /\ Ended(tx[1], sent) \in Int
         /\ Shaped(1, tx[1])
<1>1. Queues = {1} /\ 1 \in Queues
  BY AloneIs
<1>2. TypeOK
  BY DEF ChanInv, DeliveryInv, IInv
<1>3. tx[1] \in Queue /\ sent \in 0..MaxCmds
  BY <1>1, <1>2 DEF TypeOK
<1>4. sent \in Nat /\ MaxCmds \in Nat
  BY <1>3, BoundsAssumption
<1>5. tx[1].serial \in Nat /\ Len(tx[1].entries) \in Nat
  BY <1>3, QueueType
<1>6. Ended(tx[1], sent) \in Int
  BY <1>4, <1>5 DEF Ended
<1>7. Shaped(1, tx[1])
  BY <1>1 DEF ChanInv, DeliveryInv, Linked, Fits
<1>. QED  BY <1>1, <1>2, <1>3, <1>4, <1>5, <1>6, <1>7 DEF TypeOK, DoneType

(* What the sender was told so far.                                        *)
LEMMA ChanDone ==
  ASSUME Alone, ChanInv
  PROVE  /\ \A i \in DOMAIN tx[1].entries : done[tx[1].entries[i].n] = <<>>
         /\ \A n \in Cmds : n > sent => done[n] = <<>>
         /\ up => \A n \in Cmds : n <= Ended(tx[1], sent) => done[n] = <<"ACK_RECEIVED">>
<1>1. /\ \A n \in AllNames(tx) : n \in Cmds => done[n] = <<>>
      /\ \A n \in Cmds : n > sent => done[n] = <<>>
  BY ChanTypes DEF ChanInv, DeliveryInv, IInv, Accounted, Ready
<1>2. \A i \in DOMAIN tx[1].entries : tx[1].entries[i].n \in AllNames(tx)
                                      /\ tx[1].entries[i].n \in Cmds
  <2>1. 1 \in Queues /\ tx[1] \in Queue
    BY ChanTypes
  <2>2. \A i \in DOMAIN tx[1].entries : tx[1].entries[i] \in Entry
    BY <2>1, QueueType
  <2>3. Names(tx[1]) \subseteq AllNames(tx)
    BY <2>1 DEF AllNames
  <2>. QED  BY <2>2, <2>3 DEF Names, Entry
<1>3. up => \A n \in Cmds : n <= Ended(tx[1], sent) => done[n] = <<"ACK_RECEIVED">>
  <2>1. \A n \in Cmds : n <= Ended(tx[1], sent) => n \in 1..Ended(tx[1], sent)
    BY ChanTypes DEF Cmds
  <2>. QED  BY <2>1 DEF ChanInv, Counted
<1>. QED  BY <1>1, <1>2, <1>3

ChanStep == [Channel!Next]_(Channel!chanVars)

LEMMA ChanStutter ==
  ASSUME up' = up, sent' = sent, delivered' = delivered, done' = done
  PROVE  ChanStep
  BY DEF ChanStep, Channel!chanVars

LEMMA SendChan ==
  ASSUME Alone, Unambiguous, ChanInv, NEW bt \in BufferTypes, NEW kind \in Kinds,
         Send(bt, kind)
  PROVE  ChanInv' /\ ChanStep
<1>. DEFINE n == sent + 1
            e == NewEntry(n, kind)
            qu == tx[1]
            added == [qu EXCEPT !.entries = Append(qu.entries, e)]
            t == [tx EXCEPT ![1] = added]
<1>1. DeliveryInv'
  BY SendDelivery DEF ChanInv
<1>2. /\ Queues = {1} /\ 1 \in Queues /\ tx \in [Queues -> Queue] /\ qu \in Queue
      /\ sent \in Nat /\ done \in DoneType /\ Ended(qu, sent) \in Int /\ Shaped(1, qu)
  BY ChanTypes
<1>3. /\ up /\ up' = up /\ sent < MaxCmds /\ sent' = n /\ acks' = acks /\ UNCHANGED receiver
      /\ CheckTxQueues(t, {})
  <2>1. Replaceable(1, qu, kind) = {}
    BY DEF Replaceable, Alone
  <2>2. /\ QueueAdd(1, qu, n, kind).queue = added
        /\ QueueAdd(1, qu, n, kind).notes = {}
    BY <2>1 DEF QueueAdd
  <2>. HIDE DEF added
  <2>3. PICK q \in Queues :
          CheckTxQueues([tx EXCEPT ![q] = QueueAdd(q, tx[q], sent + 1, kind).queue],
                        QueueAdd(q, tx[q], sent + 1, kind).notes)
    BY DEF Send
  <2>4. q = 1
    BY <1>2
  <2>. QED  BY <2>2, <2>3, <2>4 DEF Send
<1>4. n \in Cmds /\ n \in Nat
  BY <1>2, <1>3, BoundsAssumption DEF Cmds
<1>5. e \in Entry /\ e.n = n /\ ~e.waiting /\ e.retry = 0
  BY <1>4, NewEntryType DEF NewEntry
<1>6. /\ qu.entries \in Seq(Entry) /\ Len(qu.entries) \in Nat /\ qu.serial \in Nat
      /\ DOMAIN qu.entries = 1..Len(qu.entries)
  BY <1>2, QueueType
<1>. HIDE DEF e
<1>7. /\ Append(qu.entries, e) \in Seq(Entry)
      /\ Len(Append(qu.entries, e)) = Len(qu.entries) + 1
      /\ DOMAIN Append(qu.entries, e) = 1..(Len(qu.entries) + 1)
      /\ \A i \in DOMAIN qu.entries : Append(qu.entries, e)[i] = qu.entries[i]
      /\ Append(qu.entries, e)[Len(qu.entries) + 1] = e
  BY <1>5, <1>6, AppendProperties
<1>8. added \in Queue /\ added.entries = Append(qu.entries, e) /\ added.serial = qu.serial
  BY <1>2, <1>7 DEF Queue
<1>9. Ended(added, n) = Ended(qu, sent)
  BY <1>2, <1>6, <1>7, <1>8 DEF Ended
<1>. HIDE DEF qu, added
<1>10. Opened(added) <=> Opened(qu)
  <2>1. added.entries # <<>>
    <3>1. Len(added.entries) = Len(qu.entries) + 1
      BY <1>7, <1>8
    <3>. QED  BY <1>6, <3>1
  <2>2. CASE qu.entries = <<>>
    <3>1. Len(qu.entries) = 0
      BY <2>2
    <3>2. added.entries[1] = e
      BY <1>7, <1>8, <3>1
    <3>. QED  BY <1>5, <2>2, <3>2 DEF Opened
  <2>3. CASE qu.entries # <<>>
    <3>1. 1 \in DOMAIN qu.entries
      BY <1>2, <2>3, QueueType
    <3>2. added.entries[1] = qu.entries[1]
      BY <1>7, <1>8, <3>1
    <3>. QED  BY <2>1, <2>3, <3>2 DEF Opened
  <2>. QED  BY <2>2, <2>3
<1>11. Counted(qu, sent, rserial[1], up, done)
  BY DEF ChanInv, qu
<1>12. \A i \in DOMAIN added.entries : added.entries[i].n = Ended(added, n) + i
  <2>1. SUFFICES ASSUME NEW i \in DOMAIN added.entries
                 PROVE  added.entries[i].n = Ended(added, n) + i
    OBVIOUS
  <2>2. CASE i \in DOMAIN qu.entries
    BY <1>7, <1>8, <1>9, <1>11, <2>2 DEF Counted
  <2>3. CASE i = Len(qu.entries) + 1
    <3>1. added.entries[i].n = n
      BY <1>5, <1>7, <1>8, <2>3
    <3>2. Ended(qu, sent) + i = n
      <4>1. \A a, b \in Nat : (a - b) + (b + 1) = a + 1
        OBVIOUS
      <4>. QED  BY <1>2, <1>6, <2>3, <4>1 DEF Ended
    <3>. QED  BY <1>9, <3>1, <3>2
  <2>. QED  BY <1>6, <1>7, <1>8, <2>2, <2>3
<1>13. Counted(added, n, rserial[1], up, done)
  <2>1. qu.serial <= sent /\ qu.serial <= rserial[1] + 1
    BY <1>11 DEF Counted
  <2>2. added.serial <= n /\ added.serial <= rserial[1] + 1
    BY <1>2, <1>6, <1>8, <2>1
  <2>. QED  BY <1>3, <1>8, <1>9, <1>10, <1>11, <1>12, <2>2 DEF Counted
<1>14. t \in [Queues -> Queue] /\ t[1] = added /\ t[1].serial = tx[1].serial
  BY <1>2, <1>8 DEF qu
<1>. HIDE DEF t
<1>15. Notify(done, {}) = done
  BY <1>2, NotifyNone
<1>16. Counted(t[1], sent', rserial[1], up', Notify(done, {}))
  BY <1>3, <1>13, <1>14, <1>15
<1>17. /\ Counted(tx'[1], sent', rserial'[1], up', done')
       /\ Received(delivered'[1], rserial'[1], tx'[1].serial)
       /\ Travelling(data'[1], rserial'[1])
       /\ Ended(tx'[1], sent') = Ended(t[1], sent')
       /\ done' = Notify(done, {})
  BY <1>1, <1>3, <1>14, <1>16, ChanCheck
<1>18. Returning(acks'[1], rserial'[1], Ended(tx'[1], sent'), up')
  <2>1. Ended(tx'[1], sent') = Ended(tx[1], sent)
    BY <1>3, <1>9, <1>14, <1>17 DEF qu
  <2>. QED  BY <1>3, <2>1 DEF ChanInv, receiver
<1>19. ChanInv'
  BY <1>1, <1>17, <1>18, ChanInvNext
<1>20. Channel!Submit
  BY <1>3, <1>15, <1>17 DEF Channel!Submit, receiver
<1>. QED  BY <1>19, <1>20 DEF ChanStep, Channel!Next

(* Queues checked with nothing added and nothing told.                     *)
LEMMA QuietCheck ==
  ASSUME Alone, Unambiguous, ChanInv, DeliveryInv', CheckTxQueues(tx, {}),
         UNCHANGED <<up, sent, receiver>>,
         Returning(acks'[1], rserial[1], Ended(tx[1], sent), up)
  PROVE  ChanInv' /\ ChanStep
<1>1. tx \in [Queues -> Queue] /\ Notify(done, {}) = done
  BY ChanTypes, NotifyNone
<1>2. Counted(tx[1], sent', rserial[1], up', Notify(done, {}))
  BY <1>1 DEF ChanInv
<1>3. /\ Counted(tx'[1], sent', rserial'[1], up', done')
      /\ Received(delivered'[1], rserial'[1], tx'[1].serial)
      /\ Travelling(data'[1], rserial'[1])
      /\ Ended(tx'[1], sent') = Ended(tx[1], sent')
      /\ done' = Notify(done, {})
  BY <1>1, <1>2, ChanCheck
<1>4. Returning(acks'[1], rserial'[1], Ended(tx'[1], sent'), up')
  BY <1>3 DEF receiver
<1>. QED  BY <1>1, <1>3, <1>4, ChanInvNext, ChanStutter DEF receiver

LEMMA TimerCbChan ==
  ASSUME Alone, Unambiguous, ChanInv, TimerCb
  PROVE  ChanInv' /\ ChanStep
<1>1. DeliveryInv'
  BY TimerCbDelivery DEF ChanInv
<1>2. CheckTxQueues(tx, {}) /\ UNCHANGED <<up, sent, receiver>> /\ acks' = acks
  BY DEF TimerCb
<1>3. Returning(acks'[1], rserial[1], Ended(tx[1], sent), up)
  BY <1>2 DEF ChanInv
<1>. QED  BY <1>1, <1>2, <1>3, QuietCheck

(* An acknowledgement taken for the head's is that of the head, and the    *)
(* head was received: no other number in the network equals its own.       *)
LEMMA AckIsHeads ==
  ASSUME Alone, Unambiguous, ChanInv, up, NEW i \in DOMAIN acks[1],
         Acknowledges(acks[1][i], tx[1])
  PROVE  /\ acks[1][i].serial = Ended(tx[1], sent) + 1
         /\ Ended(tx[1], sent) + 1 <= rserial[1]
<1>. DEFINE a == acks[1][i]
            E == Ended(tx[1], sent)
<1>1. /\ tx[1] \in Queue /\ tx[1].serial \in Nat /\ sent \in 0..MaxCmds /\ MaxCmds \in Nat
      /\ rserial[1] \in Nat /\ E \in Int /\ Shaped(1, tx[1]) /\ 1 \in Queues
  BY ChanTypes
<1>2. /\ a \in Datagram /\ 0 < a.serial /\ a.serial <= tx[1].serial
      /\ a.seq = NumberOf(a.serial)
  BY <1>1, MarkedSerials DEF ChanInv
<1>3. a.serial \in Nat
  BY <1>2 DEF Datagram
<1>4. /\ InFlight(tx[1]) /\ Head(tx[1].entries) = tx[1].entries[1]
      /\ tx[1].entries[1].seq = a.seq /\ Opened(tx[1])
  <2>1. InFlight(tx[1]) /\ Head(tx[1].entries).seq = a.seq
    BY DEF Acknowledges
  <2>2. Head(tx[1].entries) = tx[1].entries[1] /\ tx[1].entries # <<>>
    BY <1>1, <2>1, QueueType DEF InFlight
  <2>. QED  BY <2>1, <2>2 DEF InFlight, Opened
<1>5. a.seq = NumberOf(tx[1].serial)
  BY <1>1, <1>4 DEF Shaped
<1>6. tx[1].serial = E + 1 /\ tx[1].serial <= sent
  BY <1>4 DEF ChanInv, Counted
<1>7. a.serial <= rserial[1] /\ (MaxReorder = 0 => E <= a.serial)
  BY DEF ChanInv, Returning
<1>. HIDE DEF a, E
<1>8. tx[1].serial - a.serial < SeqSize
  <2>1. CASE MaxReorder = 0
    BY <1>1, <1>3, <1>6, <1>7, <2>1, SeqAssumption
  <2>2. CASE MaxCmds <= SeqSize
    BY <1>1, <1>2, <1>3, <1>6, <2>2, SeqAssumption
  <2>. QED  BY <2>1, <2>2 DEF Unambiguous
<1>9. a.serial = tx[1].serial
  BY <1>1, <1>2, <1>3, <1>5, <1>8, NumberUnique
<1>10. a.serial = E + 1 /\ E + 1 <= rserial[1]
  BY <1>6, <1>7, <1>9
<1>. QED  BY <1>10 DEF a, E

LEMMA TakenRises ==
  ASSUME NEW c \in Seq(Datagram), NEW i \in DOMAIN c, NEW copy \in BOOLEAN
  PROVE  /\ \A j \in DOMAIN Taken(c, i, copy) :
               \E k \in DOMAIN c : Taken(c, i, copy)[j].serial = c[k].serial
         /\ Rising(c) => Rising(Taken(c, i, copy))
<1>1. /\ \A j \in DOMAIN Taken(c, i, copy) :
            \E k \in DOMAIN c : Mark(Taken(c, i, copy)[j]) = Mark(c[k])
      /\ Rising(c) => Rising(Taken(c, i, copy))
  BY TakenIs
<1>. QED  BY <1>1 DEF Mark

LEMMA FewerReturning ==
  ASSUME NEW c, NEW b, NEW r, NEW ended, NEW open, Returning(c, r, ended, open),
         \A j \in DOMAIN b : \E k \in DOMAIN c : b[j].serial = c[k].serial,
         Rising(c) => Rising(b)
  PROVE  Returning(b, r, ended, open)
<1>1. \A j \in DOMAIN b : b[j].serial <= r
  BY DEF Returning
<1>2. ASSUME MaxReorder = 0
      PROVE  Rising(b) /\ (open => \A j \in DOMAIN b : ended <= b[j].serial)
  BY <1>2 DEF Returning
<1>. QED  BY <1>1, <1>2 DEF Returning

LEMMA Popped ==
  ASSUME Alone, Unambiguous, ChanInv, up, NEW i \in DOMAIN acks[1],
         Acknowledges(acks[1][i], tx[1])
  PROVE  LET n == Ended(tx[1], sent) + 1
             qu == QueuePop(tx[1])
             told == Notify(done, {Note(n, "ACK_RECEIVED")})
         IN  /\ qu \in Queue /\ qu.serial = tx[1].serial
             /\ n \in Cmds /\ Head(tx[1].entries).n = n
             /\ Ended(qu, sent) = n
             /\ Counted(qu, sent, rserial[1], up, told)
             /\ told[n] = <<"ACK_RECEIVED">> /\ done[n] = <<>>
             /\ \A m \in Cmds : m # n => told[m] = done[m]
<1>. DEFINE n == Ended(tx[1], sent) + 1
            qu == QueuePop(tx[1])
            note == Note(n, "ACK_RECEIVED")
            told == Notify(done, {note})
            es == tx[1].entries
<1>1. /\ tx[1] \in Queue /\ tx[1].serial \in Nat /\ sent \in Nat /\ done \in DoneType
      /\ rserial[1] \in Nat /\ Ended(tx[1], sent) \in Int /\ Shaped(1, tx[1])
  BY ChanTypes
<1>2. acks[1][i].serial = n /\ n <= rserial[1]
  BY AckIsHeads
<1>3. es # <<>> /\ Opened(tx[1])
  <2>1. InFlight(tx[1])
    BY DEF Acknowledges
  <2>2. es # <<>> /\ Head(es).waiting
    BY <2>1 DEF InFlight
  <2>3. Head(es) = es[1]
    BY <1>1, <2>2, QueueType
  <2>. QED  BY <2>2, <2>3 DEF Opened
<1>4. /\ es \in Seq(Entry) /\ 1 \in DOMAIN es /\ Head(es) = es[1]
      /\ Len(es) \in Nat /\ Len(es) >= 1 /\ DOMAIN es = 1..Len(es)
      /\ es[1].n \in Cmds
  <2>1. es \in Seq(Entry) /\ 1 \in DOMAIN es /\ Head(es) = es[1] /\ es[1] \in Entry
        /\ Len(es) \in Nat /\ DOMAIN es = 1..Len(es)
    BY <1>1, <1>3, QueueType
  <2>. QED  BY <2>1 DEF Entry
<1>5. qu \in Queue /\ qu.entries = Tail(es) /\ qu.serial = tx[1].serial
  BY <1>1, <1>3, QueuePopType DEF QueuePop, Queue
<1>6. /\ Len(qu.entries) = Len(es) - 1 /\ DOMAIN qu.entries = 1..(Len(es) - 1)
      /\ \A j \in 1..(Len(es) - 1) : qu.entries[j] = es[j + 1]
  BY <1>3, <1>4, <1>5, HeadTailProperties, LenProperties
<1>7. Ended(qu, sent) = n
  BY <1>1, <1>4, <1>6 DEF Ended
<1>8. Counted(tx[1], sent, rserial[1], up, done)
  BY DEF ChanInv
<1>9. /\ \A j \in DOMAIN es : es[j].n = Ended(tx[1], sent) + j
      /\ tx[1].serial <= rserial[1] + 1 /\ tx[1].serial <= sent
      /\ tx[1].serial = n /\ 0 <= Ended(tx[1], sent)
      /\ \A m \in 1..Ended(tx[1], sent) : done[m] = <<"ACK_RECEIVED">>
  BY <1>3, <1>8 DEF Counted
<1>10. Head(es).n = n /\ n \in Cmds
  BY <1>4, <1>9
<1>11. done[n] = <<>>
  BY <1>4, <1>10, ChanDone
<1>12. note.n = n /\ note.status = "ACK_RECEIVED" /\ (CHOOSE x \in {note} : x.n = n) = note
  BY DEF Note
<1>. HIDE DEF note
<1>13. told[n] = <<"ACK_RECEIVED">>
  <2>1. told[n] = Append(done[n], note.status)
    BY <1>10, <1>12 DEF Notify
  <2>2. Append(<<>>, "ACK_RECEIVED") = <<"ACK_RECEIVED">>
    OBVIOUS
  <2>. QED  BY <1>11, <1>12, <2>1, <2>2
<1>14. \A m \in Cmds : m # n => told[m] = done[m]
  BY <1>12 DEF Notify
<1>. HIDE DEF told
<1>15. ~Opened(qu)
  <2>1. SUFFICES ASSUME qu.entries # <<>>
                 PROVE  ~qu.entries[1].waiting /\ ~(qu.entries[1].retry > 0)
    BY DEF Opened
  <2>2. 1 \in DOMAIN qu.entries
    BY <1>5, <2>1, QueueType
  <2>3. 2 \in DOMAIN es /\ qu.entries[1] = es[2]
    BY <1>4, <1>6, <2>2
  <2>4. ~es[2].waiting /\ es[2].retry = 0
    BY <1>1, <2>3 DEF Shaped
  <2>5. ~(es[2].retry > 0)
    BY <2>4
  <2>. QED  BY <2>3, <2>4, <2>5
<1>16. \A j \in DOMAIN qu.entries : qu.entries[j].n = Ended(qu, sent) + j
  <2>1. SUFFICES ASSUME NEW j \in DOMAIN qu.entries
                 PROVE  qu.entries[j].n = Ended(qu, sent) + j
    OBVIOUS
  <2>2. j \in Int /\ j + 1 \in DOMAIN es /\ qu.entries[j] = es[j + 1]
    BY <1>4, <1>6
  <2>3. qu.entries[j].n = Ended(tx[1], sent) + (j + 1)
    BY <1>9, <2>2
  <2>. QED  BY <1>1, <1>7, <2>2, <2>3
<1>17. \A m \in 1..n : told[m] = <<"ACK_RECEIVED">>
  <2>1. SUFFICES ASSUME NEW m \in 1..n, m # n
                 PROVE  told[m] = <<"ACK_RECEIVED">>
    BY <1>13
  <2>2. m \in 1..Ended(tx[1], sent)
    BY <1>1, <2>1
  <2>3. m \in Cmds
    <3>1. n \in 1..MaxCmds /\ MaxCmds \in Nat
      BY <1>10, BoundsAssumption DEF Cmds
    <3>. QED  BY <1>1, <2>1, <3>1 DEF Cmds
  <2>. QED  BY <1>9, <1>14, <2>1, <2>2, <2>3
<1>18. Counted(qu, sent, rserial[1], up, told)
  <2>1. qu.serial <= rserial[1] + 1 /\ qu.serial <= sent /\ qu.serial = n
    BY <1>5, <1>9
  <2>2. 0 <= n
    BY <1>1, <1>9
  <2>. HIDE DEF n, qu
  <2>. QED  BY <1>2, <1>7, <1>15, <1>16, <1>17, <2>1, <2>2 DEF Counted
<1>. QED  BY <1>5, <1>7, <1>10, <1>11, <1>13, <1>14, <1>18 DEF told, note

LEMMA RecvAckChan ==
  ASSUME Alone, Unambiguous, ChanInv, NEW q \in Queues, NEW copy \in BOOLEAN,
         NEW i \in Arriving(acks[q]), RecvAck(q, i, copy)
  PROVE  ChanInv' /\ ChanStep
<1>1. DeliveryInv'
  BY RecvAckDelivery DEF ChanInv
<1>2. /\ q = 1 /\ 1 \in Queues /\ acks \in [Queues -> Seq(Datagram)]
      /\ acks[1] \in Seq(Datagram) /\ tx \in [Queues -> Queue] /\ tx[1] \in Queue
      /\ rserial[1] \in Nat /\ sent \in Nat
  BY ChanTypes
<1>3. i \in DOMAIN acks[1] /\ i \in Arriving(acks[1])
  BY <1>2 DEF Arriving
<1>4. acks'[1] = Taken(acks[1], i, copy) /\ UNCHANGED <<up, sent, receiver>>
  BY <1>2 DEF RecvAck
<1>5. /\ \A j \in DOMAIN acks'[1] : \E k \in DOMAIN acks[1] : acks'[1][j].serial = acks[1][k].serial
      /\ Rising(acks[1]) => Rising(acks'[1])
  BY <1>2, <1>3, <1>4, TakenRises
<1>6. Returning(acks[1], rserial[1], Ended(tx[1], sent), up)
  BY DEF ChanInv
<1>7. Returning(acks'[1], rserial[1], Ended(tx[1], sent), up)
  BY <1>5, <1>6, FewerReturning
<1>8. CASE ~up
  <2>1. tx' = tx /\ data' = data /\ done' = done
    BY <1>8 DEF RecvAck
  <2>. QED  BY <1>1, <1>4, <1>7, <2>1, ChanInvNext, ChanStutter DEF ChanInv, receiver
<1>9. CASE up /\ ~Acknowledges(acks[1][i], tx[1])
  <2>1. CheckTxQueues(tx, {})
    BY <1>2, <1>9 DEF RecvAck
  <2>. QED  BY <1>1, <1>4, <1>7, <2>1, QuietCheck
<1>10. CASE up /\ Acknowledges(acks[1][i], tx[1])
  <2>. DEFINE n == Ended(tx[1], sent) + 1
              qu == QueuePop(tx[1])
              notes == {Note(n, "ACK_RECEIVED")}
              told == Notify(done, notes)
              t == [tx EXCEPT ![1] = qu]
  <2>1. /\ qu \in Queue /\ qu.serial = tx[1].serial
        /\ n \in Cmds /\ Head(tx[1].entries).n = n
        /\ Ended(qu, sent) = n
        /\ Counted(qu, sent, rserial[1], up, told)
        /\ told[n] = <<"ACK_RECEIVED">> /\ done[n] = <<>>
        /\ \A m \in Cmds : m # n => told[m] = done[m]
    BY <1>3, <1>10, Popped
  <2>2. CheckTxQueues(t, notes)
    BY <1>2, <1>10, <2>1 DEF RecvAck
  <2>3. t \in [Queues -> Queue] /\ t[1] = qu
    BY <1>2, <2>1
  <2>4. acks[1][i].serial = n /\ n <= rserial[1]
    BY <1>3, <1>10, AckIsHeads
  <2>5. \A m \in Cmds : m < n => done[m] = <<"ACK_RECEIVED">>
    <3>1. \A m \in Cmds : m <= Ended(tx[1], sent) => done[m] = <<"ACK_RECEIVED">>
      BY <1>10, ChanDone
    <3>2. Ended(tx[1], sent) \in Int
      BY ChanTypes
    <3>. QED  BY <3>1, <3>2 DEF Cmds
  <2>. HIDE DEF qu, t, notes, told, n
  <2>6. /\ Counted(tx'[1], sent', rserial'[1], up', done')
        /\ Received(delivered'[1], rserial'[1], tx'[1].serial)
        /\ Travelling(data'[1], rserial'[1])
        /\ Ended(tx'[1], sent') = Ended(t[1], sent')
        /\ done' = told
    <3>1. Counted(t[1], sent', rserial[1], up', told)
      BY <1>4, <2>1, <2>3
    <3>. QED  BY <1>1, <1>4, <2>1, <2>2, <2>3, <3>1, ChanCheck DEF told
  <2>7. Ended(tx'[1], sent') = n
    BY <1>4, <2>1, <2>3, <2>6
  <2>8. Returning(acks'[1], rserial[1], n, up)
    <3>1. \A j \in DOMAIN acks'[1] : acks'[1][j].serial <= rserial[1]
      BY <1>7 DEF Returning
    <3>2. ASSUME MaxReorder = 0
          PROVE  Rising(acks'[1]) /\ \A j \in DOMAIN acks'[1] : n <= acks'[1][j].serial
      <4>1. i = 1 /\ Rising(acks[1]) /\ Rising(acks'[1])
        BY <1>2, <1>3, <1>5, <1>6, <3>2, FirstArrives DEF Returning
      <4>2. \A k \in DOMAIN acks[1] : n <= acks[1][k].serial
        <5>1. SUFFICES ASSUME NEW k \in DOMAIN acks[1]
                       PROVE  acks[1][1].serial <= acks[1][k].serial
          BY <2>4, <4>1
        <5>2. acks[1][k].serial \in Nat
          <6>1. acks[1][k] \in Datagram
            BY <1>2, LenProperties
          <6>. QED  BY <6>1 DEF Datagram
        <5>3. k = 1 \/ 1 < k
          BY <1>2, LenProperties
        <5>. QED  BY <1>3, <4>1, <5>2, <5>3 DEF Rising
      <4>. QED  BY <1>5, <4>1, <4>2
    <3>. QED  BY <3>1, <3>2 DEF Returning
  <2>9. ChanInv'
    <3>1. Returning(acks'[1], rserial'[1], Ended(tx'[1], sent'), up')
      BY <1>4, <2>7, <2>8 DEF receiver
    <3>. QED  BY <1>1, <2>6, <3>1, ChanInvNext
  <2>10. Channel!Acknowledge(n)
    <3>1. n <= Len(delivered[1])
      BY <2>4 DEF ChanInv, Received
    <3>2. \A m \in Cmds : (IF done'[m] = <<>> THEN "none" ELSE Head(done'[m])) =
             IF m <= n THEN "ACK_RECEIVED"
             ELSE IF done[m] = <<>> THEN "none" ELSE Head(done[m])
      <4>1. SUFFICES ASSUME NEW m \in Cmds
                     PROVE  (IF done'[m] = <<>> THEN "none" ELSE Head(done'[m])) =
                              IF m <= n THEN "ACK_RECEIVED"
                              ELSE IF done[m] = <<>> THEN "none" ELSE Head(done[m])
        OBVIOUS
      <4>2. <<"ACK_RECEIVED">> # <<>> /\ Head(<<"ACK_RECEIVED">>) = "ACK_RECEIVED"
        OBVIOUS
      <4>3. m \in Nat /\ n \in Nat
        BY <2>1 DEF Cmds
      <4>4. CASE m = n
        BY <2>1, <2>6, <4>2, <4>3, <4>4
      <4>5. CASE m < n
        <5>1. done'[m] = <<"ACK_RECEIVED">> /\ m <= n
          BY <2>1, <2>5, <2>6, <4>3, <4>5
        <5>. QED  BY <4>2, <5>1
      <4>6. CASE m > n
        <5>1. done'[m] = done[m] /\ ~(m <= n)
          BY <2>1, <2>6, <4>3, <4>6
        <5>. QED  BY <5>1
      <4>. QED  BY <4>3, <4>4, <4>5, <4>6
    <3>3. Channel!Cmds = Cmds
      BY DEF Channel!Cmds, Cmds
    <3>. QED  BY <1>4, <1>10, <2>1, <3>1, <3>2, <3>3 DEF Channel!Acknowledge, receiver
  <2>11. n \in Channel!Cmds
    BY <2>1 DEF Channel!Cmds, Cmds
  <2>12. Channel!Next
    BY <2>10, <2>11 DEF Channel!Next, Channel!Acknowledge
  <2>13. ChanStep
    BY <2>12 DEF ChanStep
  <2>. QED  BY <2>9, <2>13
<1>. QED  BY <1>8, <1>9, <1>10

LEMMA StopChan ==
  ASSUME Alone, Unambiguous, ChanInv, Stop
  PROVE  ChanInv' /\ ChanStep
<1>. DEFINE es == tx[1].entries
            notes == {Note(es[i].n, "CANCELED") : i \in DOMAIN es}
            empty == [tx[1] EXCEPT !.entries = <<>>]
            E == Ended(tx[1], sent)
<1>1. DeliveryInv'
  BY StopDelivery DEF ChanInv
<1>2. /\ Queues = {1} /\ 1 \in Queues /\ tx \in [Queues -> Queue] /\ tx[1] \in Queue
      /\ sent \in Nat /\ done \in DoneType /\ E \in Int /\ tx[1].serial \in Nat
  BY ChanTypes
<1>3. /\ up /\ up' = FALSE /\ done' = Notify(done, notes) /\ sent' = sent
      /\ tx'[1] = empty /\ data' = data /\ acks' = acks
      /\ UNCHANGED receiver
  <2>1. /\ done' = Notify(done, UNION {{Note(tx[q].entries[i].n, "CANCELED") :
                                          i \in DOMAIN tx[q].entries} : q \in Queues})
        /\ tx' = [q \in Queues |-> [tx[q] EXCEPT !.entries = <<>>]]
    BY DEF Stop
  <2>2. UNION {{Note(tx[q].entries[i].n, "CANCELED") : i \in DOMAIN tx[q].entries} :
                 q \in Queues} = notes
    BY <1>2
  <2>3. tx'[1] = empty
    BY <1>2, <2>1
  <2>. HIDE DEF notes, empty
  <2>. QED  BY <2>1, <2>2, <2>3 DEF Stop
<1>4. empty.entries = <<>> /\ empty.serial = tx[1].serial
  BY <1>2 DEF Queue
<1>5. Counted(tx[1], sent, rserial[1], up, done)
  BY DEF ChanInv
<1>6. Counted(tx'[1], sent', rserial'[1], up', done')
  <2>1. DOMAIN empty.entries = {}
    BY <1>4
  <2>. HIDE DEF empty
  <2>. QED  BY <1>3, <1>4, <1>5, <2>1 DEF Counted, receiver
<1>7. Returning(acks'[1], rserial'[1], Ended(tx'[1], sent'), up')
  BY <1>3 DEF ChanInv, Returning, receiver
<1>8. ChanInv'
  <2>1. tx'[1].serial = tx[1].serial
    BY <1>3, <1>4
  <2>2. /\ Received(delivered'[1], rserial'[1], tx'[1].serial)
        /\ Travelling(data'[1], rserial'[1])
    BY <1>3, <2>1 DEF ChanInv, receiver
  <2>. QED  BY <1>1, <1>6, <1>7, <2>2, ChanInvNext
<1>9. /\ \A i \in DOMAIN es : es[i].n = E + i /\ es[i].n \in Cmds /\ done[es[i].n] = <<>>
      /\ Len(es) \in Nat /\ DOMAIN es = 1..Len(es) /\ E + Len(es) = sent
  <2>1. \A i \in DOMAIN es : es[i] \in Entry
    BY <1>2, QueueType
  <2>2. Len(es) \in Nat /\ DOMAIN es = 1..Len(es)
    BY <1>2, QueueType
  <2>3. E + Len(es) = sent
    <3>1. \A a, b \in Nat : (a - b) + b = a
      OBVIOUS
    <3>. QED  BY <1>2, <2>2, <3>1 DEF Ended
  <2>. QED  BY <1>5, <2>1, <2>2, <2>3, ChanDone DEF Counted, Entry
<1>10. /\ \A m \in Cmds : m > sent => done[m] = <<>>
       /\ \A m \in Cmds : m <= E => done[m] = <<"ACK_RECEIVED">>
  BY <1>3, ChanDone
<1>. HIDE DEF E, es
<1>11. ASSUME NEW m \in Cmds, m <= sent, ~(m <= E)
       PROVE  done[m] = <<>> /\ done'[m] = <<"CANCELED">>
  <2>1. PICK i \in DOMAIN es : m = es[i].n
    <3>1. m - E \in DOMAIN es
      <4>1. m \in Nat
        BY DEF Cmds
      <4>. QED  BY <1>2, <1>9, <1>11, <4>1
    <3>2. es[m - E].n = m
      <4>1. m \in Int
        BY DEF Cmds
      <4>2. E + (m - E) = m
        BY <1>2, <4>1
      <4>. QED  BY <1>9, <3>1, <4>2
    <3>. QED  BY <3>1, <3>2
  <2>. DEFINE x == CHOOSE x \in notes : x.n = m
  <2>2. Note(es[i].n, "CANCELED") \in notes /\ Note(es[i].n, "CANCELED").n = m
    BY <2>1 DEF Note
  <2>3. x \in notes /\ x.n = m
    BY <2>2
  <2>4. x.status = "CANCELED"
    <3>1. \A y \in notes : y.status = "CANCELED"
      BY DEF Note
    <3>. HIDE DEF x, notes
    <3>. QED  BY <2>3, <3>1
  <2>5. done'[m] = Append(done[m], x.status)
    BY <1>3, <2>2 DEF Notify
  <2>6. done[m] = <<>>
    BY <1>9, <2>1
  <2>7. Append(<<>>, "CANCELED") = <<"CANCELED">>
    OBVIOUS
  <2>. HIDE DEF x, notes
  <2>. QED  BY <2>4, <2>5, <2>6, <2>7
<1>12. ASSUME NEW m \in Cmds, m > sent \/ m <= E
       PROVE  done'[m] = done[m]
  <2>1. ~\E x \in notes : x.n = m
    <3>1. SUFFICES ASSUME NEW i \in DOMAIN es
                   PROVE  es[i].n # m
      BY DEF Note
    <3>2. i \in 1..Len(es) /\ es[i].n = E + i /\ m \in Nat
      BY <1>9 DEF Cmds
    <3>. QED  BY <1>2, <1>9, <1>12, <3>2
  <2>. HIDE DEF notes
  <2>. QED  BY <1>3, <2>1 DEF Notify
<1>13. Channel!Close
  <2>1. \A m \in Cmds : (IF done'[m] = <<>> THEN "none" ELSE Head(done'[m])) =
           IF m <= sent /\ (IF done[m] = <<>> THEN "none" ELSE Head(done[m])) = "none"
           THEN "CANCELED"
           ELSE IF done[m] = <<>> THEN "none" ELSE Head(done[m])
    <3>1. SUFFICES ASSUME NEW m \in Cmds
                   PROVE  (IF done'[m] = <<>> THEN "none" ELSE Head(done'[m])) =
                            IF m <= sent /\ (IF done[m] = <<>> THEN "none" ELSE Head(done[m])) = "none"
                            THEN "CANCELED"
                            ELSE IF done[m] = <<>> THEN "none" ELSE Head(done[m])
      OBVIOUS
    <3>2. /\ <<"ACK_RECEIVED">> # <<>> /\ Head(<<"ACK_RECEIVED">>) = "ACK_RECEIVED"
          /\ <<"CANCELED">> # <<>> /\ Head(<<"CANCELED">>) = "CANCELED"
      OBVIOUS
    <3>3. CASE m <= E
      BY <1>10, <1>12, <3>2, <3>3
    <3>4. CASE ~(m <= E) /\ m <= sent
      BY <1>11, <3>2, <3>4
    <3>5. CASE m > sent
      <4>1. ~(m <= sent)
        BY <1>2, <3>5 DEF Cmds
      <4>. QED  BY <1>10, <1>12, <3>5, <4>1
    <3>6. m \in Nat
      BY DEF Cmds
    <3>. QED  BY <1>2, <3>3, <3>4, <3>5, <3>6
  <2>2. Channel!Cmds = Cmds
    BY DEF Channel!Cmds, Cmds
  <2>. QED  BY <1>3, <2>1, <2>2 DEF Channel!Close, receiver
<1>. QED  BY <1>8, <1>13 DEF ChanStep, Channel!Next

LEMMA NumberPlain ==
  ASSUME NEW s \in Nat, 1 <= s, s <= SeqSize
  PROVE  NumberOf(s) = s - 1
<1>1. PICK c \in Nat : SeqSize - 1 + s = c * SeqSize + NumberOf(s)
  BY NumberIs
<1>2. 1 * SeqSize = SeqSize /\ s - 1 \in 0..(SeqSize - 1)
  BY SeqAssumption
<1>3. c * SeqSize + NumberOf(s) = 1 * SeqSize + (s - 1)
  BY <1>1, <1>2, SeqAssumption
<1>4. 1 \in Int /\ c \in Int /\ NumberOf(s) \in 0..(SeqSize - 1)
  BY NumberIs
<1>. QED  BY <1>2, <1>3, <1>4, OneRemainder

(* The number behind recv[1] is that of the last command received.         *)
LEMMA RecvIs ==
  ASSUME Alone, ChanInv
  PROVE  recv[1] = NumberOf(rserial[1])
<1>1. /\ Agrees(tx[1], Marks(1))
      /\ delivered[1] = <<>> => recv[1] = NumberOf(0) /\ rserial[1] = 0
  BY ChanTypes DEF ChanInv, DeliveryInv, Linked, Fits
<1>2. CASE delivered[1] = <<>>
  BY <1>1, <1>2
<1>3. CASE delivered[1] # <<>>
  <2>. DEFINE m == [seq |-> recv[1], serial |-> rserial[1],
                    n |-> delivered[1][Len(delivered[1])]]
  <2>1. m \in Marks(1)
    BY <1>3 DEF Marks, LastMark
  <2>2. m.seq = NumberOf(m.serial)
    BY <1>1, <2>1 DEF Agrees
  <2>. QED  BY <2>2
<1>. QED  BY <1>2, <1>3

(* The receiver takes the next command, and nothing else.                  *)
LEMMA OnlyNext ==
  ASSUME Alone, Unambiguous, ChanInv, NEW i \in DOMAIN data[1]
  PROVE  LET f == data[1][i]
         IN  /\ ShouldProcess(recv[1], f.seq) => f.serial = rserial[1] + 1
             /\ ~ShouldProcess(recv[1], f.seq) => f.serial <= rserial[1]
<1>. DEFINE f == data[1][i]
            s == f.serial
            r == rserial[1]
<1>1. /\ r \in Nat /\ MaxCmds \in Nat /\ sent \in 0..MaxCmds /\ tx[1].serial \in Nat
      /\ 1 \in Queues
  BY ChanTypes
<1>2. f \in Datagram /\ 0 < s /\ s <= tx[1].serial /\ f.seq = NumberOf(s)
  BY <1>1, MarkedSerials DEF ChanInv
<1>3. s \in Nat /\ f.late \in Nat
  BY <1>2 DEF Datagram
<1>4. /\ tx[1].serial <= r + 1 /\ tx[1].serial <= sent
      /\ r <= tx[1].serial /\ f.late <= MaxReorder /\ r <= s + f.late
  BY DEF ChanInv, Counted, Received, Travelling
<1>5. recv[1] = NumberOf(r)
  BY RecvIs
<1>6. SeqSize \in Nat /\ Window \in Nat /\ SeqSize > Window + 1 /\ MaxReorder \in Nat
  BY SeqAssumption, BoundsAssumption
<1>. HIDE DEF f, s, r
<1>7. CASE s > r
  <2>1. s = r + 1
    BY <1>1, <1>2, <1>3, <1>4, <1>7
  <2>2. s - r < SeqSize - Window /\ r < s
    BY <1>1, <1>3, <1>6, <2>1
  <2>3. ShouldProcess(NumberOf(r), NumberOf(s))
    BY <1>1, <1>3, <2>2, NewerIsProcessed
  <2>4. ShouldProcess(recv[1], f.seq)
    BY <1>2, <1>5, <2>3
  <2>. QED  BY <2>1, <2>4 DEF f, s, r
<1>8. CASE s = r
  <2>1. NumberOf(s) \in Int
    BY <1>3, <1>6, NumberIs
  <2>2. ~ShouldProcess(recv[1], f.seq)
    <3>1. recv[1] = NumberOf(s) /\ f.seq = NumberOf(s)
      BY <1>2, <1>5, <1>8
    <3>2. \A x \in Int : ~ShouldProcess(x, x)
      BY <1>6 DEF ShouldProcess
    <3>. QED  BY <2>1, <3>1, <3>2
  <2>3. s <= r
    BY <1>1, <1>8
  <2>. QED  BY <2>2, <2>3 DEF f, s, r
<1>9. CASE s < r
  <2>1. MaxReorder <= Window /\ MaxCmds <= SeqSize
    BY <1>1, <1>3, <1>4, <1>6, <1>9 DEF Unambiguous
  <2>2. r <= SeqSize /\ s <= SeqSize /\ 1 <= s /\ 1 <= r
    BY <1>1, <1>2, <1>3, <1>4, <1>6, <1>9, <2>1
  <2>3. NumberOf(s) = s - 1 /\ NumberOf(r) = r - 1
    BY <1>1, <1>3, <2>2, NumberPlain
  <2>4. r <= s + Window
    BY <1>1, <1>3, <1>4, <1>6, <2>1
  <2>5. ~ShouldProcess(r - 1, s - 1)
    BY <1>1, <1>3, <1>6, <1>9, <2>4 DEF ShouldProcess
  <2>6. ~ShouldProcess(recv[1], f.seq)
    BY <1>2, <1>5, <2>3, <2>5
  <2>7. s <= r
    BY <1>1, <1>3, <1>9
  <2>. QED  BY <2>6, <2>7 DEF f, s, r
<1>. QED  BY <1>1, <1>3, <1>7, <1>8, <1>9

(* A datagram that is passed by another is later by one.                   *)
LEMMA TakenTravels ==
  ASSUME NEW c \in Seq(Datagram), NEW i \in Arriving(c), NEW copy \in BOOLEAN,
         NEW r \in Nat, Travelling(c, r), NEW s \in Nat,
         s = r \/ (s = r + 1 /\ s = c[i].serial)
  PROVE  Travelling(Taken(c, i, copy), s)
<1>. DEFINE o == Overtake(c, i)
            t == Taken(c, i, copy)
<1>1. /\ i \in DOMAIN c /\ Len(c) \in Nat /\ DOMAIN c = 1..Len(c)
      /\ \A j \in 1..(i - 1) : c[j].late < MaxReorder
      /\ \A j \in DOMAIN c : c[j] \in Datagram
  BY LenProperties DEF Arriving
<1>2. DOMAIN o = DOMAIN c /\ \A j \in DOMAIN c : o[j] = IF j < i THEN [c[j] EXCEPT !.late = @ + 1] ELSE c[j]
  BY DEF Overtake
<1>3. \A j \in DOMAIN c : c[j].serial \in Nat /\ c[j].late \in Nat /\ MaxReorder \in Nat
  BY <1>1, BoundsAssumption DEF Datagram
<1>4. ASSUME NEW j \in DOMAIN c
      PROVE  /\ o[j] \in Datagram
             /\ o[j].n = o[j].serial /\ o[j].late <= MaxReorder
             /\ s <= o[j].serial + o[j].late
  <2>1. /\ c[j].n = c[j].serial /\ c[j].late <= MaxReorder
        /\ r <= c[j].serial + c[j].late
    BY DEF Travelling
  <2>2. CASE j < i
    <3>1. c[j].late < MaxReorder
      BY <1>1, <2>2
    <3>2. /\ o[j] \in Datagram /\ o[j].n = c[j].n /\ o[j].serial = c[j].serial
          /\ o[j].late = c[j].late + 1
      <4>1. \A d \in Datagram, k \in Nat :
               LET x == [d EXCEPT !.late = k]
               IN  x \in Datagram /\ x.n = d.n /\ x.serial = d.serial /\ x.late = k
        BY DEF Datagram
      <4>2. o[j] = [c[j] EXCEPT !.late = c[j].late + 1]
        BY <1>2, <2>2
      <4>3. c[j] \in Datagram /\ c[j].late + 1 \in Nat
        BY <1>1, <1>3
      <4>. HIDE DEF o
      <4>. QED  BY <4>1, <4>2, <4>3
    <3>. QED  BY <1>3, <2>1, <3>1, <3>2
  <2>3. CASE ~(j < i)
    <3>1. o[j] = c[j] /\ o[j] \in Datagram
      BY <1>1, <1>2, <2>3
    <3>2. s <= c[j].serial + c[j].late
      <4>1. CASE s = r
        BY <2>1, <4>1
      <4>2. CASE s = c[i].serial
        <5>1. c[i].serial <= c[j].serial
          <6>1. j = i \/ i < j
            BY <1>1, <2>3
          <6>. QED  BY <1>1, <1>3, <6>1 DEF Travelling, Rising
        <5>. QED  BY <1>1, <1>3, <4>2, <5>1
      <4>. QED  BY <4>1, <4>2
    <3>. QED  BY <2>1, <3>1, <3>2
  <2>. QED  BY <2>2, <2>3
<1>5. Rising(t)
  BY <1>1, TakenIs DEF Travelling
<1>6. \A j \in DOMAIN t : \E k \in DOMAIN c : t[j] = o[k]
  <2>1. o \in Seq(Datagram)
    <3>1. \A n \in Nat : \A x \in [1..n -> Datagram] : x \in Seq(Datagram)
      OBVIOUS
    <3>2. o \in [1..Len(c) -> Datagram]
      BY <1>1, <1>4 DEF Overtake
    <3>. HIDE DEF o
    <3>. QED  BY <1>1, <3>1, <3>2
  <2>. HIDE DEF o
  <2>2. CASE copy
    BY <1>2, <2>2 DEF Taken, o
  <2>3. CASE ~copy
    <3>1. t = RemoveAt(o, i)
      BY <2>3 DEF Taken, o
    <3>2. \A j \in DOMAIN RemoveAt(o, i) : \E k \in DOMAIN o : RemoveAt(o, i)[j] = o[k]
      BY <1>1, <1>2, <2>1, RemoveAtRising
    <3>. QED  BY <1>2, <3>1, <3>2
  <2>. QED  BY <2>2, <2>3
<1>. HIDE DEF o, t
<1>7. Travelling(t, s)
  BY <1>4, <1>5, <1>6 DEF Travelling
<1>. QED  BY <1>7 DEF t

LEMMA RecvDataChan ==
  ASSUME Alone, Unambiguous, ChanInv, NEW q \in Queues, NEW copy \in BOOLEAN,
         NEW i \in Arriving(data[q]), RecvData(q, i, copy)
  PROVE  ChanInv' /\ ChanStep
<1>. DEFINE f == data[1][i]
            a == [f EXCEPT !.late = 0]
            g == <<a>>
            r == rserial[1]
            E == Ended(tx[1], sent)
            processed == ShouldProcess(recv[1], f.seq)
<1>1. DeliveryInv'
  BY RecvDataDelivery DEF ChanInv
<1>2. /\ q = 1 /\ Queues = {1} /\ 1 \in Queues /\ data \in [Queues -> Seq(Datagram)]
      /\ data[1] \in Seq(Datagram) /\ acks \in [Queues -> Seq(Datagram)]
      /\ acks[1] \in Seq(Datagram) /\ tx[1].serial \in Nat
      /\ rserial \in [Queues -> Nat] /\ r \in Nat
      /\ delivered \in [Queues -> Seq(Cmds)] /\ delivered[1] \in Seq(Cmds)
      /\ recv \in [Queues -> 0..(SeqSize - 1)]
      /\ sent \in 0..MaxCmds /\ sent \in Nat /\ MaxCmds \in Nat /\ E \in Int
  BY ChanTypes
<1>3. i \in Arriving(data[1]) /\ i \in DOMAIN data[1] /\ f \in Datagram
  BY <1>2, LenProperties DEF Arriving
<1>4. f.serial \in Nat /\ f.late \in Nat /\ 0 < f.serial /\ f.serial <= tx[1].serial
  <2>1. 0 < f.serial /\ f.serial <= tx[1].serial
    BY <1>2, <1>3, MarkedSerials DEF ChanInv
  <2>. QED  BY <1>3, <2>1 DEF Datagram
<1>5. a \in Datagram /\ a.serial = f.serial /\ g \in Seq(Datagram)
      /\ DOMAIN g = {1} /\ g[1] = a
  <2>1. a \in Datagram /\ a.serial = f.serial
    BY <1>3 DEF Datagram
  <2>. HIDE DEF a
  <2>. QED  BY <2>1
<1>6. /\ data'[1] = Taken(data[1], i, copy)
      /\ acks'[1] = Put(acks[1], g)
      /\ processed => /\ recv' = [recv EXCEPT ![1] = f.seq]
                      /\ rserial' = [rserial EXCEPT ![1] = f.serial]
                      /\ delivered' = [delivered EXCEPT ![1] = Append(delivered[1], f.n)]
      /\ ~processed => recv' = recv /\ rserial' = rserial /\ delivered' = delivered
      /\ tx' = tx /\ up' = up /\ sent' = sent /\ done' = done
  BY <1>2 DEF RecvData, receiver, Alone
<1>7. /\ processed => f.serial = r + 1
      /\ ~processed => f.serial <= r
  BY <1>3, OnlyNext
<1>8. /\ Counted(tx[1], sent, r, up, done) /\ Received(delivered[1], r, tx[1].serial)
      /\ Travelling(data[1], r) /\ Returning(acks[1], r, E, up)
  BY DEF ChanInv
<1>9. f.n = f.serial /\ f.late <= MaxReorder /\ r <= f.serial + f.late
  BY <1>3, <1>8 DEF Travelling
<1>10. rserial'[1] = IF processed THEN r + 1 ELSE r
  BY <1>2, <1>6, <1>7
<1>11. delivered'[1] = IF processed THEN Append(delivered[1], r + 1) ELSE delivered[1]
  BY <1>2, <1>6, <1>7, <1>9
<1>. HIDE DEF f, a, g, r, E, processed
<1>12. rserial'[1] \in Nat /\ r <= rserial'[1] /\ f.serial <= rserial'[1]
  BY <1>2, <1>4, <1>7, <1>10
<1>13. Counted(tx'[1], sent', rserial'[1], up', done')
  <2>1. tx[1].serial <= rserial'[1] + 1 /\ (E <= r => E <= rserial'[1])
    <3>1. tx[1].serial <= r + 1
      BY <1>8 DEF Counted
    <3>. QED  BY <1>2, <1>12, <3>1
  <2>2. Counted(tx[1], sent, rserial'[1], up, done)
    BY <1>8, <2>1 DEF Counted, E
  <2>. QED  BY <1>6, <2>2
<1>14. Received(delivered'[1], rserial'[1], tx'[1].serial)
  <2>1. CASE ~processed
    BY <1>6, <1>8, <1>10, <1>11, <2>1
  <2>2. CASE processed
    <3>. DEFINE d == delivered[1]
                new == Append(d, r + 1)
    <3>1. /\ delivered'[1] = new /\ rserial'[1] = r + 1 /\ d \in Seq(Cmds)
          /\ Len(d) = r /\ DOMAIN d = 1..r /\ \A j \in DOMAIN d : d[j] = j
      BY <1>2, <1>8, <1>10, <1>11, <2>2, LenProperties DEF Received
    <3>2. r + 1 \in Cmds
      <4>1. tx[1].serial <= sent
        BY <1>8 DEF Counted
      <4>. QED  BY <1>2, <1>4, <1>7, <2>2, <4>1 DEF Cmds
    <3>3. /\ new \in Seq(Cmds) /\ Len(new) = r + 1 /\ DOMAIN new = 1..(r + 1)
          /\ \A j \in 1..r : new[j] = d[j]
          /\ new[r + 1] = r + 1
      BY <1>2, <3>1, <3>2, AppendProperties, LenProperties
    <3>. HIDE DEF d, new
    <3>4. \A j \in DOMAIN new : new[j] = j
      <4>1. SUFFICES ASSUME NEW j \in 1..(r + 1)
                     PROVE  new[j] = j
        BY <3>3
      <4>2. j \in 1..r \/ j = r + 1
        BY <1>2
      <4>. QED  BY <3>1, <3>3, <4>2
    <3>5. r + 1 <= tx'[1].serial
      BY <1>4, <1>6, <1>7, <2>2
    <3>. QED  BY <3>1, <3>3, <3>4, <3>5 DEF Received
  <2>. QED  BY <2>1, <2>2
<1>15. Travelling(data'[1], rserial'[1])
  <2>1. rserial'[1] = r \/ (rserial'[1] = r + 1 /\ rserial'[1] = data[1][i].serial)
    BY <1>7, <1>10 DEF f
  <2>. QED  BY <1>2, <1>3, <1>6, <1>8, <1>12, <2>1, TakenTravels
<1>16. Returning(acks'[1], rserial'[1], E, up)
  <2>1. /\ \A j \in DOMAIN acks'[1] : \/ \E k \in DOMAIN acks[1] : acks'[1][j] = acks[1][k]
                                      \/ \E k \in DOMAIN g : acks'[1][j] = g[k]
        /\ Rising(acks[1]) /\ Rising(g)
           /\ (\A j \in DOMAIN acks[1], k \in DOMAIN g : acks[1][j].serial <= g[k].serial)
             => Rising(acks'[1])
    <3>1. LET p == Put(acks[1], g)
          IN  /\ \A j \in DOMAIN p : \/ \E k \in DOMAIN acks[1] : p[j] = acks[1][k]
                                     \/ \E k \in DOMAIN g : p[j] = g[k]
              /\ Rising(acks[1]) /\ Rising(g)
                 /\ (\A j \in DOMAIN acks[1], k \in DOMAIN g : acks[1][j].serial <= g[k].serial)
                   => Rising(p)
      BY <1>2, <1>5, PutIs
    <3>2. acks'[1] = Put(acks[1], g)
      BY <1>6
    <3>. QED  BY ONLY <3>1, <3>2
  <2>2. \A j \in DOMAIN acks'[1] : \/ \E k \in DOMAIN acks[1] : acks'[1][j] = acks[1][k]
                                   \/ acks'[1][j] = a
    BY <1>5, <2>1
  <2>3. \A k \in DOMAIN acks[1] : acks[1][k].serial \in Nat /\ acks[1][k].serial <= r
    <3>1. \A k \in DOMAIN acks[1] : acks[1][k] \in Datagram
      BY <1>2, LenProperties
    <3>. QED  BY <1>8, <3>1 DEF Returning, Datagram
  <2>4. \A j \in DOMAIN acks'[1] : acks'[1][j].serial <= rserial'[1]
    <3>1. SUFFICES ASSUME NEW j \in DOMAIN acks'[1]
                   PROVE  acks'[1][j].serial <= rserial'[1]
      OBVIOUS
    <3>2. CASE acks'[1][j] = a
      BY <1>5, <1>12, <3>2
    <3>3. ASSUME NEW k \in DOMAIN acks[1], acks'[1][j] = acks[1][k]
          PROVE  acks'[1][j].serial <= rserial'[1]
      BY <1>2, <1>12, <2>3, <3>3
    <3>. QED  BY <2>2, <3>2, <3>3
  <2>5. ASSUME MaxReorder = 0
        PROVE  Rising(acks'[1]) /\ (up => \A j \in DOMAIN acks'[1] : E <= acks'[1][j].serial)
    <3>1. r <= f.serial
      <4>1. f.late = 0
        BY <1>4, <1>9, <2>5
      <4>. QED  BY <1>4, <1>9, <4>1
    <3>2. Rising(acks[1]) /\ (up => \A j \in DOMAIN acks[1] : E <= acks[1][j].serial)
      BY <1>8, <2>5 DEF Returning
    <3>3. \A j \in DOMAIN acks[1], k \in DOMAIN g : acks[1][j].serial <= g[k].serial
      <4>1. \A j \in DOMAIN acks[1] : acks[1][j].serial <= f.serial
        BY <1>2, <1>4, <2>3, <3>1
      <4>. QED  BY <1>5, <4>1
    <3>4. Rising(g)
      BY <1>4, <1>5 DEF Rising
    <3>5. up => E <= a.serial
      <4>1. up => E <= r
        BY <1>8 DEF Counted, E
      <4>. QED  BY <1>2, <1>4, <1>5, <3>1, <4>1
    <3>. QED  BY <2>1, <2>2, <3>2, <3>3, <3>4, <3>5
  <2>. QED  BY <2>4, <2>5 DEF Returning
<1>17. ChanInv'
  <2>1. Returning(acks'[1], rserial'[1], Ended(tx'[1], sent'), up')
    BY <1>6, <1>16 DEF E
  <2>. QED  BY <1>1, <1>13, <1>14, <1>15, <2>1, ChanInvNext
<1>18. CASE ~processed
  BY <1>6, <1>17, <1>18, ChanStutter
<1>19. CASE processed
  <2>1. Len(delivered[1]) = r /\ Len(delivered'[1]) = r + 1
    BY <1>8, <1>10, <1>14, <1>19 DEF Received
  <2>2. r + 1 \in Channel!Cmds /\ r < r + 1 /\ r + 1 <= sent
    <3>1. tx[1].serial <= sent
      BY <1>8 DEF Counted
    <3>. QED  BY <1>2, <1>4, <1>7, <1>19, <3>1 DEF Channel!Cmds
  <2>3. Channel!Deliver
    BY <1>6, <2>1, <2>2 DEF Channel!Deliver
  <2>. QED  BY <1>17, <2>3 DEF ChanStep, Channel!Next
<1>. QED  BY <1>18, <1>19

LEMMA LoseChan ==
  ASSUME Alone, Unambiguous, ChanInv, NEW q \in Queues,
         \/ \E i \in DOMAIN data[q] : LoseData(q, i)
         \/ \E i \in DOMAIN acks[q] : LoseAck(q, i)
  PROVE  ChanInv' /\ ChanStep
<1>1. DeliveryInv'
  BY LoseDelivery DEF ChanInv
<1>2. /\ q = 1 /\ 1 \in Queues /\ data \in [Queues -> Seq(Datagram)]
      /\ data[1] \in Seq(Datagram)
      /\ acks \in [Queues -> Seq(Datagram)] /\ acks[1] \in Seq(Datagram)
  BY ChanTypes
<1>3. /\ Counted(tx[1], sent, rserial[1], up, done)
      /\ Received(delivered[1], rserial[1], tx[1].serial)
      /\ Travelling(data[1], rserial[1])
      /\ Returning(acks[1], rserial[1], Ended(tx[1], sent), up)
  BY DEF ChanInv
<1>4. ASSUME NEW i \in DOMAIN data[1], LoseData(1, i)
      PROVE  ChanInv' /\ ChanStep
  <2>1. /\ data'[1] = RemoveAt(data[1], i) /\ acks' = acks /\ tx' = tx /\ sent' = sent
        /\ up' = up /\ done' = done /\ UNCHANGED receiver
    BY <1>2, <1>4 DEF LoseData
  <2>2. /\ \A j \in DOMAIN data'[1] : \E k \in DOMAIN data[1] : data'[1][j] = data[1][k]
        /\ Rising(data[1]) => Rising(data'[1])
    BY <1>2, <2>1, RemoveAtRising
  <2>3. Travelling(data'[1], rserial'[1])
    BY <1>3, <2>1, <2>2 DEF Travelling, receiver
  <2>. QED  BY <1>1, <1>3, <2>1, <2>3, ChanInvNext, ChanStutter DEF receiver
<1>5. ASSUME NEW i \in DOMAIN acks[1], LoseAck(1, i)
      PROVE  ChanInv' /\ ChanStep
  <2>1. /\ acks'[1] = RemoveAt(acks[1], i) /\ data' = data /\ tx' = tx /\ sent' = sent
        /\ up' = up /\ done' = done /\ UNCHANGED receiver
    BY <1>2, <1>5 DEF LoseAck
  <2>2. /\ \A j \in DOMAIN acks'[1] : \E k \in DOMAIN acks[1] : acks'[1][j] = acks[1][k]
        /\ Rising(acks[1]) => Rising(acks'[1])
    BY <1>2, <2>1, RemoveAtRising
  <2>3. \A j \in DOMAIN acks'[1] : \E k \in DOMAIN acks[1] : acks'[1][j].serial = acks[1][k].serial
    BY <2>2
  <2>4. Returning(acks'[1], rserial[1], Ended(tx[1], sent), up)
    BY <1>3, <2>2, <2>3, FewerReturning
  <2>. QED  BY <1>1, <1>3, <2>1, <2>4, ChanInvNext, ChanStutter DEF receiver
<1>. QED  BY <1>2, <1>4, <1>5

LEMMA TickChan ==
  ASSUME Alone, Unambiguous, ChanInv, Tick
  PROVE  ChanInv' /\ ChanStep
<1>. DEFINE new == Aged(1, tx[1])
<1>1. DeliveryInv'
  BY TickDelivery DEF ChanInv
<1>2. 1 \in Queues /\ tx[1] \in Queue
  BY ChanTypes
<1>3. /\ tx'[1] = new /\ sent' = sent /\ up' = up /\ done' = done /\ data' = data
      /\ acks' = acks /\ UNCHANGED receiver
  BY <1>2 DEF Tick
<1>4. /\ new.serial = tx[1].serial /\ new \in Queue
      /\ new.entries = [i \in DOMAIN tx[1].entries |-> AgedEntry(1, tx[1].entries[i])]
  BY <1>2, AgedSound DEF Aged, Queue
<1>. HIDE DEF new
<1>5. DOMAIN tx[1].entries = 1..Len(tx[1].entries) /\ Len(tx[1].entries) \in Nat
      /\ \A i \in DOMAIN tx[1].entries : tx[1].entries[i] \in Entry
      /\ DOMAIN new.entries = 1..Len(new.entries) /\ Len(new.entries) \in Nat
  BY <1>2, <1>4, QueueType
<1>6. DOMAIN new.entries = DOMAIN tx[1].entries /\ Len(new.entries) = Len(tx[1].entries)
  <2>1. DOMAIN new.entries = DOMAIN tx[1].entries
    BY <1>4
  <2>2. 1..Len(new.entries) = 1..Len(tx[1].entries)
    BY <1>5, <2>1
  <2>3. \A a, b \in Nat : 1..a = 1..b => a = b
    OBVIOUS
  <2>. QED  BY <1>5, <2>1, <2>2, <2>3
<1>7. \A e \in Entry : /\ AgedEntry(1, e).n = e.n /\ AgedEntry(1, e).waiting = e.waiting
                       /\ AgedEntry(1, e).retry = e.retry
  BY DEF AgedEntry, Entry
<1>8. \A i \in DOMAIN tx[1].entries :
         /\ new.entries[i].n = tx[1].entries[i].n
         /\ new.entries[i].waiting = tx[1].entries[i].waiting
         /\ new.entries[i].retry = tx[1].entries[i].retry
  BY <1>4, <1>5, <1>7
<1>9. /\ tx[1].entries = <<>> <=> new.entries = <<>>
      /\ Ended(new, sent) = Ended(tx[1], sent)
  <2>1. /\ tx[1].entries \in Seq(Entry) /\ new.entries \in Seq(Entry)
    BY <1>2, <1>4, QueueType
  <2>. QED  BY <1>6, <2>1, EmptySeq DEF Ended
<1>10. Opened(new) <=> Opened(tx[1])
  <2>1. tx[1].entries # <<>> => 1 \in DOMAIN tx[1].entries
    BY <1>2, QueueType
  <2>. QED  BY <1>8, <1>9, <2>1 DEF Opened
<1>11. Counted(new, sent, rserial[1], up, done)
  <2>1. Counted(tx[1], sent, rserial[1], up, done)
    BY DEF ChanInv
  <2>. QED  BY <1>4, <1>6, <1>8, <1>9, <1>10, <2>1 DEF Counted
<1>12. /\ Received(delivered'[1], rserial'[1], tx'[1].serial)
       /\ Travelling(data'[1], rserial'[1])
       /\ Returning(acks'[1], rserial'[1], Ended(tx'[1], sent'), up')
  BY <1>3, <1>4, <1>9 DEF ChanInv, receiver
<1>13. Counted(tx'[1], sent', rserial'[1], up', done')
  BY <1>3, <1>11 DEF receiver
<1>. QED  BY <1>1, <1>3, <1>12, <1>13, ChanInvNext, ChanStutter DEF receiver

LEMMA InitChan ==
  ASSUME Alone, Init
  PROVE  ChanInv /\ Channel!Init
<1>. DEFINE none == <<>>
<1>1. DeliveryInv
  BY InitDelivery
<1>2. /\ 1 \in Queues /\ tx[1] \in Queue
  BY <1>1, AloneIs DEF DeliveryInv, IInv, TypeOK
<1>3. /\ tx[1].entries = none /\ tx[1].serial = 0 /\ data[1] = none /\ acks[1] = none
      /\ delivered[1] = none /\ rserial[1] = 0 /\ sent = 0 /\ up = TRUE
      /\ done = [n \in Cmds |-> none]
  BY <1>2 DEF Init, NewQueue
<1>4. DOMAIN none = {} /\ Len(none) = 0 /\ none = <<>>
  OBVIOUS
<1>. HIDE DEF none
<1>5. ~Opened(tx[1]) /\ Ended(tx[1], sent) = 0
  BY <1>3, <1>4 DEF Opened, Ended
<1>6. Counted(tx[1], sent, rserial[1], up, done)
  BY <1>3, <1>4, <1>5 DEF Counted
<1>7. /\ Received(delivered[1], rserial[1], tx[1].serial)
      /\ Travelling(data[1], rserial[1])
      /\ Returning(acks[1], rserial[1], Ended(tx[1], sent), up)
  BY <1>3, <1>4 DEF Received, Travelling, Returning, Rising
<1>8. ChanInv
  BY <1>1, <1>6, <1>7 DEF ChanInv
<1>9. Channel!Init
  <2>1. Channel!Cmds = Cmds
    BY DEF Channel!Cmds, Cmds
  <2>2. [n \in Cmds |-> IF done[n] = <<>> THEN "none" ELSE Head(done[n])]
          = [n \in Cmds |-> "none"]
    BY <1>3, <1>4
  <2>. QED  BY <1>3, <1>4, <2>1, <2>2 DEF Channel!Init
<1>. QED  BY <1>8, <1>9

LEMMA NextChan ==
  ASSUME Alone, Unambiguous, ChanInv, [Next]_vars
  PROVE  ChanInv' /\ ChanStep
<1>1. ASSUME NEW bt \in BufferTypes, NEW kind \in Kinds, Send(bt, kind)
      PROVE  ChanInv' /\ ChanStep
  BY <1>1, SendChan
<1>2. CASE TimerCb
  BY <1>2, TimerCbChan
<1>3. ASSUME NEW q \in Queues, NEW copy \in BOOLEAN, NEW i \in Arriving(acks[q]),
             RecvAck(q, i, copy)
      PROVE  ChanInv' /\ ChanStep
  BY <1>3, RecvAckChan
<1>4. CASE Stop
  BY <1>4, StopChan
<1>5. ASSUME NEW q \in Queues, NEW copy \in BOOLEAN, NEW i \in Arriving(data[q]),
             RecvData(q, i, copy)
      PROVE  ChanInv' /\ ChanStep
  BY <1>5, RecvDataChan
<1>6. ASSUME NEW q \in Queues, \/ \E i \in DOMAIN data[q] : LoseData(q, i)
                               \/ \E i \in DOMAIN acks[q] : LoseAck(q, i)
      PROVE  ChanInv' /\ ChanStep
  BY <1>6, LoseChan
<1>7. CASE Tick
  BY <1>7, TickChan
<1>8. CASE UNCHANGED vars
  <2>1. /\ tx' = tx /\ up' = up /\ done' = done /\ sent' = sent /\ data' = data
        /\ acks' = acks /\ UNCHANGED receiver
    BY <1>8 DEF vars, receiver
  <2>2. DeliveryInv'
    BY NextDelivery DEF ChanInv
  <2>. QED  BY <2>1, <2>2, ChanInvNext, ChanStutter DEF ChanInv, receiver
<1>. QED  BY <1>1, <1>2, <1>3, <1>4, <1>5, <1>6, <1>7, <1>8 DEF Next

(* What the two applications see of a single queue that never gives up is  *)
(* the abstract channel of CmdChannel.                                     *)
THEOREM ChannelIsImplemented ==
  ASSUME Alone, Unambiguous
  PROVE  Spec => ImplementsChannel
<1>1. Init => ChanInv /\ Channel!Init
  BY InitChan
<1>2. ChanInv /\ [Next]_vars => ChanInv' /\ ChanStep
  BY NextChan
<1>. QED  BY <1>1, <1>2, PTL DEF Spec, ImplementsChannel, Channel!Spec, ChanStep
=============================================================================
