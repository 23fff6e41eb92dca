-------------------------- MODULE CmdItf2_proofs --------------------------
(***************************************************************************)
(* Theorems about CmdItf2, for every table of queues, every size of packs  *)
(* and of commands, every width of the sequence numbers and every bound.   *)
(***************************************************************************)
EXTENDS CmdItf2Props, TLAPS, SequenceTheorems, FiniteSetTheorems, WellFoundedInduction

(***************************************************************************)
(* Counting up to a bound, the largest and the smallest of some numbers    *)
(***************************************************************************)

LEMMA LeastOf ==
  ASSUME NEW S \in SUBSET Nat, S # {}
  PROVE  \E x \in S : \A y \in S : x <= y
<1>1. \E x \in S : \A y \in S : ~(<<y, x>> \in OpToRel(<, Nat))
  BY NatLessThanWellFounded, WFMin, Zenon
<1>2. PICK x \in S : \A y \in S : ~(<<y, x>> \in OpToRel(<, Nat))
  BY <1>1
<1>3. ASSUME NEW y \in S
      PROVE  x <= y
  <2>1. ~(y < x)
    BY <1>2, <1>3 DEF OpToRel
  <2>. QED  BY <2>1
<1>. QED  BY <1>3

LEMMA MinOfNaturals ==
  ASSUME NEW S \in SUBSET Nat, S # {}
  PROVE  Min(S) \in S /\ \A y \in S : Min(S) <= y
  BY LeastOf DEF Min

LEMMA MaxOfInterval ==
  ASSUME NEW L \in Nat, NEW S \in SUBSET (0..L), S # {}
  PROVE  Max(S) \in S /\ \A y \in S : y <= Max(S)
<1>. DEFINE T == {L - x : x \in S}
<1>1. T \in SUBSET Nat /\ T # {}
  <2>1. \A x \in S : L - x \in Nat
    OBVIOUS
  <2>. QED  BY <2>1
<1>2. PICK d \in T : \A e \in T : d <= e
  BY <1>1, LeastOf
<1>3. PICK x \in S : d = L - x
  BY <1>2
<1>4. ASSUME NEW y \in S
      PROVE  y <= x
  <2>1. L - y \in T
    OBVIOUS
  <2>2. L - x <= L - y
    BY <1>2, <1>3, <2>1
  <2>. QED  BY <2>2
<1>5. \A y \in S : x >= y
  BY <1>4
<1>6. \E m \in S : \A y \in S : m >= y
  BY <1>5
<1>7. Max(S) \in S /\ \A y \in S : Max(S) >= y
  BY <1>6 DEF Max
<1>. QED  BY <1>7

LEMMA CountUp ==
  ASSUME NEW N \in Nat, NEW T, 0 \in T,
         \A k \in 1..N : k - 1 \in T => k \in T
  PROVE  \A k \in 0..N : k \in T
<1>. DEFINE F == {k \in 0..N : k \notin T}
<1>1. SUFFICES ASSUME F # {}
               PROVE  FALSE
  OBVIOUS
<1>2. F \in SUBSET Nat
  OBVIOUS
<1>3. PICK k \in F : \A j \in F : k <= j
  BY <1>1, <1>2, LeastOf
<1>4. k # 0 /\ k \in 1..N
  BY <1>3
<1>5. k - 1 \notin F
  BY <1>3, <1>4
<1>. QED  BY <1>3, <1>4, <1>5

(* A function that is defined from its value for the number before.        *)
Steps(g, S, N) == \A k \in 1..N : \A x \in S : g[<<k, x>>] \in S
Iterates(f, a, g, S, N) ==
    /\ f \in [0..N -> S]
    /\ f[0] = a
    /\ \A k \in 1..N : f[k] = g[<<k, f[k - 1]>>]

LEMMA Recursion ==
  ASSUME NEW S, NEW a \in S, NEW N \in Nat, NEW g, Steps(g, S, N)
  PROVE  \E f : Iterates(f, a, g, S, N)
<1>. DEFINE T == {n \in 0..N : \E f \in [0..n -> S] :
                                  /\ f[0] = a
                                  /\ \A k \in 1..n : f[k] = g[<<k, f[k - 1]>>]}
<1>0. \A k \in 1..N : \A x \in S : g[<<k, x>>] \in S
  BY DEF Steps
<1>1. 0 \in T
  <2>. DEFINE f == [k \in 0..0 |-> a]
  <2>1. f \in [0..0 -> S] /\ f[0] = a /\ \A k \in 1..0 : f[k] = g[<<k, f[k - 1]>>]
    OBVIOUS
  <2>2. 0 \in 0..N
    OBVIOUS
  <2>. HIDE DEF f
  <2>. QED  BY <2>1, <2>2
<1>2. ASSUME NEW n \in 1..N, n - 1 \in T
      PROVE  n \in T
  <2>1. PICK f \in [0..(n - 1) -> S] : /\ f[0] = a
                                       /\ \A k \in 1..(n - 1) : f[k] = g[<<k, f[k - 1]>>]
    BY <1>2
  <2>. DEFINE h == [k \in 0..n |-> IF k = n THEN g[<<n, f[n - 1]>>] ELSE f[k]]
  <2>2. f[n - 1] \in S
    BY <2>1
  <2>3. g[<<n, f[n - 1]>>] \in S
    BY <1>0, <2>2
  <2>4. h \in [0..n -> S]
    BY <2>1, <2>3
  <2>5. h[0] = a
    <3>1. 0 \in 0..n /\ 0 # n
      BY <1>2
    <3>. QED  BY <2>1, <3>1
  <2>6. ASSUME NEW k \in 1..n
        PROVE  h[k] = g[<<k, h[k - 1]>>]
    <3>1. h[k - 1] = f[k - 1]
      OBVIOUS
    <3>2. CASE k = n
      BY <3>1, <3>2
    <3>3. CASE k # n
      <4>1. k \in 1..(n - 1) /\ h[k] = f[k]
        BY <3>3
      <4>. QED  BY <2>1, <3>1, <4>1
    <3>. QED  BY <3>2, <3>3
  <2>. HIDE DEF h
  <2>7. n \in 0..N
    OBVIOUS
  <2>8. \E r \in [0..n -> S] : r[0] = a /\ \A k \in 1..n : r[k] = g[<<k, r[k - 1]>>]
    BY <2>4, <2>5, <2>6
  <2>. QED  BY <2>7, <2>8
<1>. HIDE DEF T
<1>3. N \in T
  BY <1>1, <1>2, CountUp
<1>4. PICK f \in [0..N -> S] : f[0] = a /\ \A k \in 1..N : f[k] = g[<<k, f[k - 1]>>]
  BY <1>3 DEF T
<1>5. Iterates(f, a, g, S, N)
  BY <1>4 DEF Iterates
<1>. QED  BY <1>5

(***************************************************************************)
(* Types of the operators                                                  *)
(***************************************************************************)

LEMMA QueueInfoType ==
  ASSUME NEW q \in Queues
  PROVE  Info[q].ackTimeout \in Nat /\ (WithAck(q) => Info[q].ackTimeout > 0)
<1>1. Info[q] \in QueueInfo
  BY InfoAssumption, ElementOfSeq DEF Queues
<1>. QED  BY <1>1, TimeoutAssumption DEF QueueInfo, WithAck, Queues

LEMMA SeqnumType ==
  ASSUME NEW s \in 0..(SeqSize - 1)
  PROVE  Seqnum(s) \in 0..(SeqSize - 1)
  BY SeqAssumption DEF Seqnum

LEMMA QueueType ==
  ASSUME NEW qu \in Queue
  PROVE  /\ qu.entries \in Seq(Command) /\ qu.seq \in 0..(SeqSize - 1)
         /\ qu.last \in 0..(SeqSize - 1) /\ qu.serial \in Nat /\ qu.refused \in BOOLEAN
         /\ qu.pack \in Pack /\ qu.pack.buf \in Seq(Command) /\ qu.pack.cmds \in Nat
         /\ qu.pack.waiting \in BOOLEAN /\ qu.pack.age \in Nat
         /\ DOMAIN qu.entries = 1..Len(qu.entries) /\ Len(qu.entries) \in Nat
  BY DEF Queue, Pack

LEMMA CommandType ==
  ASSUME NEW es \in Seq(Command)
  PROVE  /\ Len(es) \in Nat /\ DOMAIN es = 1..Len(es)
         /\ \A i \in DOMAIN es : es[i] \in Command /\ es[i].n \in Cmds /\ es[i].size \in Nat
         /\ NamesOf(es) \subseteq Cmds
         /\ es # <<>> => 1 \in DOMAIN es /\ Len(es) > 0
<1>1. /\ Len(es) \in Nat /\ DOMAIN es = 1..Len(es)
      /\ \A i \in DOMAIN es : es[i] \in Command
  BY LenProperties
<1>2. \A c \in Command : c.n \in Cmds /\ c.size \in Nat
  BY SizeAssumption DEF Command
<1>3. es # <<>> => Len(es) > 0
  BY <1>1, EmptySeq
<1>. QED  BY <1>1, <1>2, <1>3 DEF NamesOf

(***************************************************************************)
(* Names of commands: cutting a queue in two loses and doubles none.       *)
(***************************************************************************)

Distinct(es) == \A i, j \in DOMAIN es : es[i].n = es[j].n => i = j
Accounts(before, after, names) ==
    /\ NamesOf(after) \cup names = NamesOf(before)
    /\ Distinct(before) => Distinct(after) /\ NamesOf(after) \cap names = {}

LEMMA SplitIs ==
  ASSUME NEW es \in Seq(Command), NEW k \in 0..Len(es)
  PROVE  /\ SubSeq(es, 1, k) \in Seq(Command) /\ Len(SubSeq(es, 1, k)) = k
         /\ DOMAIN SubSeq(es, 1, k) = 1..k
         /\ \A i \in 1..k : SubSeq(es, 1, k)[i] = es[i]
         /\ SubSeq(es, k + 1, Len(es)) \in Seq(Command)
         /\ Len(SubSeq(es, k + 1, Len(es))) = Len(es) - k
         /\ DOMAIN SubSeq(es, k + 1, Len(es)) = 1..(Len(es) - k)
         /\ \A i \in 1..(Len(es) - k) : SubSeq(es, k + 1, Len(es))[i] = es[i + k]
<1>. DEFINE L == Len(es)
<1>1. L \in Nat /\ DOMAIN es = 1..L /\ \A i \in 1..L : es[i] \in Command
  BY CommandType
<1>2. k \in 0..L
  OBVIOUS
<1>. HIDE DEF L
<1>3. /\ SubSeq(es, 1, k) \in Seq(Command) /\ Len(SubSeq(es, 1, k)) = k
      /\ \A i \in 1..k : SubSeq(es, 1, k)[i] = es[i]
  <2>1. /\ SubSeq(es, 1, k) \in Seq(Command)
        /\ Len(SubSeq(es, 1, k)) = IF 1 <= k THEN k - 1 + 1 ELSE 0
        /\ \A i \in 1..(k - 1 + 1) : SubSeq(es, 1, k)[i] = es[1 + i - 1]
    BY <1>1, <1>2, SubSeqProperties
  <2>2. k - 1 + 1 = k /\ \A i \in Int : 1 + i - 1 = i
    BY <1>1, <1>2
  <2>. QED  BY <1>1, <1>2, <2>1, <2>2
<1>4. /\ SubSeq(es, k + 1, L) \in Seq(Command) /\ Len(SubSeq(es, k + 1, L)) = L - k
      /\ \A i \in 1..(L - k) : SubSeq(es, k + 1, L)[i] = es[i + k]
  <2>1. /\ SubSeq(es, k + 1, L) \in Seq(Command)
        /\ Len(SubSeq(es, k + 1, L)) = IF k + 1 <= L THEN L - (k + 1) + 1 ELSE 0
        /\ \A i \in 1..(L - (k + 1) + 1) : SubSeq(es, k + 1, L)[i] = es[(k + 1) + i - 1]
    BY <1>1, <1>2, SubSeqProperties
  <2>2. L - (k + 1) + 1 = L - k /\ \A i \in Int : (k + 1) + i - 1 = i + k
    BY <1>1, <1>2
  <2>. QED  BY <1>1, <1>2, <2>1, <2>2
<1>5. /\ DOMAIN SubSeq(es, 1, k) = 1..k
      /\ DOMAIN SubSeq(es, k + 1, L) = 1..(L - k)
  BY <1>1, <1>2, <1>3, <1>4, LenProperties
<1>. QED  BY <1>3, <1>4, <1>5 DEF L

LEMMA SplitNames ==
  ASSUME NEW es \in Seq(Command), NEW k \in 0..Len(es)
  PROVE  Accounts(es, SubSeq(es, k + 1, Len(es)), NamesOf(SubSeq(es, 1, k)))
<1>. DEFINE L == Len(es)
            head == SubSeq(es, 1, k)
            rest == SubSeq(es, k + 1, Len(es))
<1>1. L \in Nat /\ DOMAIN es = 1..L /\ k \in 0..L /\ k \in Nat
  BY CommandType
<1>2. /\ DOMAIN head = 1..k /\ \A i \in 1..k : head[i] = es[i]
      /\ DOMAIN rest = 1..(L - k) /\ \A i \in 1..(L - k) : rest[i] = es[i + k]
  BY SplitIs
<1>. HIDE DEF L, head, rest
<1>3. /\ \A x : x \in NamesOf(es) <=> \E i \in 1..L : x = es[i].n
      /\ \A x : x \in NamesOf(head) <=> \E i \in 1..k : x = es[i].n
  BY <1>1, <1>2 DEF NamesOf
<1>4. ASSUME NEW x
      PROVE  x \in NamesOf(rest) <=> \E i \in (k + 1)..L : x = es[i].n
  <2>1. ASSUME NEW i \in (k + 1)..L, x = es[i].n
        PROVE  x \in NamesOf(rest)
    <3>1. i - k \in 1..(L - k) /\ (i - k) + k = i
      BY <1>1
    <3>2. i - k \in DOMAIN rest /\ rest[i - k].n = x
      BY <1>2, <2>1, <3>1
    <3>. QED  BY <3>2 DEF NamesOf
  <2>2. ASSUME NEW i \in 1..(L - k), x = rest[i].n
        PROVE  \E j \in (k + 1)..L : x = es[j].n
    <3>1. i + k \in (k + 1)..L /\ x = es[i + k].n
      BY <1>1, <1>2, <2>2
    <3>. QED  BY <3>1
  <2>. QED  BY <1>2, <2>1, <2>2 DEF NamesOf
<1>5. \A i \in Int : i \in 1..L <=> i \in 1..k \/ i \in (k + 1)..L
  BY <1>1
<1>6. NamesOf(rest) \cup NamesOf(head) = NamesOf(es)
  BY <1>3, <1>4, <1>5
<1>7. ASSUME Distinct(es)
      PROVE  Distinct(rest) /\ NamesOf(rest) \cap NamesOf(head) = {}
  <2>1. ASSUME NEW i \in 1..(L - k), NEW j \in 1..(L - k), rest[i].n = rest[j].n
        PROVE  i = j
    <3>1. i + k \in DOMAIN es /\ j + k \in DOMAIN es
      BY <1>1
    <3>2. i + k = j + k
      BY <1>2, <1>7, <2>1, <3>1 DEF Distinct
    <3>. QED  BY <1>1, <3>2
  <2>2. ASSUME NEW i \in 1..k, NEW j \in (k + 1)..L
        PROVE  es[i].n # es[j].n
    <3>1. i \in DOMAIN es /\ j \in DOMAIN es /\ i # j
      BY <1>1
    <3>. QED  BY <1>7, <3>1 DEF Distinct
  <2>3. Distinct(rest)
    BY <1>2, <2>1 DEF Distinct
  <2>4. \A x : ~(x \in NamesOf(rest) /\ x \in NamesOf(head))
    BY <1>3, <1>4, <2>2
  <2>. QED  BY <2>3, <2>4
<1>. QED  BY <1>6, <1>7 DEF Accounts, head, rest

(***************************************************************************)
(* Packing                                                                 *)
(***************************************************************************)

LEMMA PackedLenIs ==
  ASSUME NEW es \in Seq(Command)
  PROVE  /\ PackedLen(es)[0] = 0
         /\ es # <<>> => PackedLen(es)[1] = es[1].size + 2
<1>. DEFINE L == Len(es)
            g == [p \in (1..L) \X Nat |-> p[2] + es[p[1]].size + 2]
            len == PackedLen(es)
<1>1. L \in Nat /\ (es # <<>> => L > 0) /\ \A i \in 1..L : es[i].size \in Nat
  BY CommandType
<1>2. ASSUME NEW k \in 1..L, NEW x \in Nat
      PROVE  g[<<k, x>>] = x + es[k].size + 2 /\ g[<<k, x>>] \in Nat
  <2>1. <<k, x>> \in (1..L) \X Nat
    OBVIOUS
  <2>2. g[<<k, x>>] = x + es[k].size + 2
    BY <2>1
  <2>3. x + es[k].size + 2 \in Nat
    BY <1>1
  <2>. QED  BY <2>2, <2>3
<1>. HIDE DEF g, L
<1>3. PICK f \in [0..L -> Nat] : f[0] = 0 /\ \A k \in 1..L : f[k] = g[<<k, f[k - 1]>>]
  <2>1. 0 \in Nat /\ L \in Nat
    BY <1>1
  <2>2. Steps(g, Nat, L)
    BY <1>2 DEF Steps
  <2>3. PICK f : Iterates(f, 0, g, Nat, L)
    BY <2>1, <2>2, Recursion
  <2>. QED  BY <2>3 DEF Iterates
<1>4. f = [i \in 0..L |-> IF i = 0 THEN 0 ELSE f[i - 1] + es[i].size + 2]
  <2>1. ASSUME NEW i \in 0..L
        PROVE  f[i] = IF i = 0 THEN 0 ELSE f[i - 1] + es[i].size + 2
    <3>1. CASE i = 0
      BY <1>3, <3>1
    <3>2. CASE i # 0
      <4>1. i \in 1..L /\ i - 1 \in 0..L
        BY <1>1, <3>2
      <4>2. f[i - 1] \in Nat
        BY <4>1
      <4>. QED  BY <1>2, <1>3, <3>2, <4>1, <4>2
    <3>. QED  BY <3>1, <3>2
  <2>. QED  BY <2>1
<1>5. len = [i \in 0..L |-> IF i = 0 THEN 0 ELSE len[i - 1] + es[i].size + 2]
  <2>1. \E h : h = [i \in 0..L |-> IF i = 0 THEN 0 ELSE h[i - 1] + es[i].size + 2]
    BY <1>4
  <2>. QED  BY <2>1 DEF PackedLen, L
<1>. HIDE DEF len
<1>6. len[0] = 0
  <2>1. 0 \in 0..L
    BY <1>1
  <2>. QED  BY <1>5, <2>1
<1>7. ASSUME es # <<>>
      PROVE  len[1] = es[1].size + 2
  <2>1. 1 \in 0..L /\ 1 \in 1..L /\ 1 # 0 /\ 1 - 1 = 0
    BY <1>1, <1>7
  <2>2. len[1] = len[0] + es[1].size + 2
    BY <1>5, <2>1
  <2>. QED  BY <1>1, <1>6, <2>1, <2>2
<1>. QED  BY <1>6, <1>7 DEF len

LEMMA PackCmdsIs ==
  ASSUME NEW es \in Seq(Command)
  PROVE  \E k \in 0..Len(es) :
            /\ PackCmds(es) = SubSeq(es, 1, k)
            /\ es # <<>> /\ ~TooLarge(es[1].size) => k > 0
<1>. DEFINE L == Len(es)
            S == {i \in 0..L : PackedLen(es)[i] <= PackMax}
<1>1. L \in Nat /\ (es # <<>> => L > 0 /\ es[1].size \in Nat)
  BY CommandType
<1>2. 0 \in S
  BY <1>1, PackedLenIs, SizeAssumption
<1>3. S \in SUBSET (0..L) /\ S # {}
  BY <1>2
<1>4. es # <<>> /\ ~TooLarge(es[1].size) => 1 \in S
  BY <1>1, PackedLenIs, SizeAssumption DEF TooLarge
<1>. HIDE DEF S
<1>5. Max(S) \in S /\ \A y \in S : y <= Max(S)
  BY <1>1, <1>3, MaxOfInterval
<1>6. Max(S) \in 0..L /\ (1 \in S => Max(S) > 0)
  <2>1. Max(S) \in 0..L
    BY <1>3, <1>5
  <2>2. 1 \in S => 1 <= Max(S)
    BY <1>5
  <2>. QED  BY <1>1, <2>1, <2>2
<1>7. PackCmds(es) = SubSeq(es, 1, Max(S))
  BY DEF PackCmds, S
<1>. QED  BY <1>4, <1>6, <1>7

LEMMA PackedIs ==
  ASSUME NEW qu \in Queue, qu.pack.cmds <= Len(qu.entries)
  PROVE  LET new == Packed(qu)
         IN  /\ new \in Queue /\ new.entries = qu.entries /\ new.last = qu.last
             /\ new.refused = qu.refused
             /\ new.pack.waiting = qu.pack.waiting /\ new.pack.age = qu.pack.age
             /\ new.pack.cmds <= Len(new.entries)
             /\ new.entries # <<>> /\ ~TooLarge(new.entries[1].size) => new.pack.cmds > 0
             /\ qu.pack.cmds # 0 => new = qu
             /\ qu.pack.cmds = 0 => /\ new.seq = Seqnum(qu.seq)
                                    /\ new.serial = qu.serial + 1
                                    /\ new.pack.buf = SubSeq(qu.entries, 1, new.pack.cmds)
<1>1. CASE qu.pack.cmds # 0
  BY <1>1, QueueType DEF Packed
<1>2. CASE qu.pack.cmds = 0
  <2>. DEFINE buf == PackCmds(qu.entries)
              s == Seqnum(qu.seq)
              n == qu.serial + 1
              new == Packed(qu)
  <2>1. PICK k \in 0..Len(qu.entries) :
            /\ buf = SubSeq(qu.entries, 1, k)
            /\ qu.entries # <<>> /\ ~TooLarge(qu.entries[1].size) => k > 0
    BY QueueType, PackCmdsIs
  <2>2. buf \in Seq(Command) /\ Len(buf) = k
    BY <2>1, QueueType, SplitIs
  <2>3. s \in 0..(SeqSize - 1) /\ n \in Nat /\ k \in Nat
    BY QueueType, SeqnumType
  <2>4. new = [qu EXCEPT !.seq = s, !.serial = n, !.pack.buf = buf, !.pack.cmds = k]
    BY <1>2, <2>2 DEF Packed
  <2>. HIDE DEF buf, s, n, new
  <2>5. /\ new \in Queue /\ new.entries = qu.entries /\ new.last = qu.last
        /\ new.refused = qu.refused /\ new.seq = s /\ new.serial = n
        /\ new.pack.waiting = qu.pack.waiting /\ new.pack.age = qu.pack.age
        /\ new.pack.cmds = k /\ new.pack.buf = buf
    BY <2>2, <2>3, <2>4 DEF Queue, Pack
  <2>6. /\ k <= Len(qu.entries) /\ s = Seqnum(qu.seq) /\ n = qu.serial + 1
        /\ new = Packed(qu)
    BY <2>1 DEF s, n, new
  <2>. QED  BY <1>2, <2>1, <2>5, <2>6
<1>. QED  BY <1>1, <1>2

(***************************************************************************)
(* A pass of check_tx_queue                                                *)
(***************************************************************************)

PassResult == [queue : Queue, frames : Seq(Datagram), packedDone : SUBSET Cmds,
               timeout : Nat \cup {Off}]
AllFit(es) == \A i \in DOMAIN es : ~TooLarge(es[i].size)
Covered(qu) == qu.pack.cmds <= Len(qu.entries)

(* What holds of queue q as long as the interface is up or, if not, stopped.*)
Sane(q, qu, isUp) ==
    /\ qu.pack.waiting => WithAck(q) /\ ~qu.refused
    /\ qu.pack.age <= Info[q].ackTimeout
    /\ IF isUp THEN Covered(qu) ELSE qu.entries = <<>>
    /\ ~WithAck(q) => AllFit(qu.entries)
Watched(q, qu, timeout) ==
    qu.entries # <<>> /\ ~qu.refused =>
        qu.pack.waiting /\ timeout # Off /\ timeout <= Info[q].ackTimeout - qu.pack.age

LEMMA FrameType ==
  ASSUME NEW qu \in Queue
  PROVE  Frame(qu) \in Datagram
  BY QueueType DEF Frame, Datagram

LEMMA FlagsType ==
  ASSUME NEW qu \in Queue
  PROVE  /\ Refused(qu) \in Queue /\ Refused(qu).entries = qu.entries
         /\ Refused(qu).pack = qu.pack /\ Refused(qu).refused
         /\ Refused(qu).serial = qu.serial /\ Refused(qu).seq = qu.seq
         /\ Expire(qu) \in Queue /\ Expire(qu).entries = qu.entries
         /\ ~Expire(qu).pack.waiting /\ Expire(qu).pack.age = 0
         /\ Expire(qu).pack.cmds = qu.pack.cmds /\ Expire(qu).pack.buf = qu.pack.buf
         /\ Expire(qu).serial = qu.serial /\ Expire(qu).seq = qu.seq
         /\ Expire(qu).refused = qu.refused
<1>1. Refused(qu) \in Queue /\ Refused(qu).entries = qu.entries
      /\ Refused(qu).pack = qu.pack /\ Refused(qu).refused
      /\ Refused(qu).serial = qu.serial /\ Refused(qu).seq = qu.seq
  BY DEF Refused, Queue
<1>2. /\ Expire(qu) \in Queue /\ Expire(qu).entries = qu.entries
      /\ Expire(qu).pack = [qu.pack EXCEPT !.waiting = FALSE, !.age = 0]
      /\ Expire(qu).serial = qu.serial /\ Expire(qu).seq = qu.seq
      /\ Expire(qu).refused = qu.refused
  BY DEF Expire, Queue, Pack
<1>3. /\ ~Expire(qu).pack.waiting /\ Expire(qu).pack.age = 0
      /\ Expire(qu).pack.cmds = qu.pack.cmds /\ Expire(qu).pack.buf = qu.pack.buf
  BY <1>2 DEF Queue, Pack
<1>. QED  BY <1>1, <1>2, <1>3

LEMMA FlushedIs ==
  ASSUME NEW qu \in Queue, Covered(qu)
  PROVE  LET new == Flushed(qu)
         IN  /\ new \in Queue
             /\ new.entries = SubSeq(qu.entries, qu.pack.cmds + 1, Len(qu.entries))
             /\ Len(new.entries) = Len(qu.entries) - qu.pack.cmds
             /\ new.pack.cmds = 0 /\ new.pack.waiting = qu.pack.waiting
             /\ new.pack.age = qu.pack.age /\ ~new.refused
             /\ new.serial = qu.serial /\ new.seq = qu.seq /\ Len(new.pack.buf) = 0
             /\ Accounts(qu.entries, new.entries, NamesOf(SubSeq(qu.entries, 1, qu.pack.cmds)))
             /\ AllFit(qu.entries) => AllFit(new.entries)
<1>. DEFINE k == qu.pack.cmds
            rest == SubSeq(qu.entries, k + 1, Len(qu.entries))
            none == <<>>
            new == Flushed(qu)
<1>1. k \in 0..Len(qu.entries) /\ qu.entries \in Seq(Command)
  BY QueueType DEF Covered
<1>2. none \in Seq(Command) /\ Len(none) = 0
  OBVIOUS
<1>3. /\ rest \in Seq(Command) /\ Len(rest) = Len(qu.entries) - k
      /\ DOMAIN rest = 1..(Len(qu.entries) - k)
      /\ \A i \in 1..(Len(qu.entries) - k) : rest[i] = qu.entries[i + k]
  BY <1>1, SplitIs
<1>4. Accounts(qu.entries, rest, NamesOf(SubSeq(qu.entries, 1, k)))
  BY <1>1, SplitNames
<1>5. new = [qu EXCEPT !.entries = rest, !.refused = FALSE, !.pack.buf = none,
                       !.pack.cmds = 0]
  BY DEF Flushed
<1>6. ASSUME AllFit(qu.entries)
      PROVE  AllFit(rest)
  <2>1. \A i \in 1..(Len(qu.entries) - k) : i + k \in DOMAIN qu.entries
    BY <1>1, QueueType
  <2>. QED  BY <1>3, <1>6, <2>1 DEF AllFit
<1>. HIDE DEF rest, none, new
<1>7. /\ new \in Queue /\ new.entries = rest /\ new.pack.cmds = 0
      /\ new.pack.waiting = qu.pack.waiting /\ new.pack.age = qu.pack.age /\ ~new.refused
      /\ new.serial = qu.serial /\ new.seq = qu.seq /\ new.pack.buf = none
  BY <1>2, <1>3, <1>5 DEF Queue, Pack
<1>. QED  BY <1>2, <1>3, <1>4, <1>6, <1>7 DEF rest, new

LEMMA FlushPackIs ==
  ASSUME NEW before \in PassResult, Covered(before.queue), NEW ok \in Nat
  PROVE  LET after == FlushPack(before, ok)
             es == before.queue.entries
         IN  /\ after \in PassResult /\ after.timeout = Off
             /\ Covered(after.queue)
             /\ after.queue.pack.waiting = before.queue.pack.waiting
             /\ after.queue.pack.age = before.queue.pack.age
             /\ AllFit(es) => AllFit(after.queue.entries)
             /\ \E told : /\ after.packedDone = before.packedDone \cup told
                          /\ Accounts(es, after.queue.entries, told)
             /\ ok = 0 => after.queue.refused /\ after.queue.entries = es
             /\ ok > 0 => ~after.queue.refused
             /\ ok > 0 /\ AllFit(es) /\ es # <<>> => Len(after.queue.entries) < Len(es)
<1>. DEFINE qu == Packed(before.queue)
            after == FlushPack(before, ok)
            es == before.queue.entries
<1>1. /\ before.queue \in Queue /\ before.frames \in Seq(Datagram)
      /\ before.packedDone \in SUBSET Cmds
  BY DEF PassResult
<1>2. /\ qu \in Queue /\ qu.entries = es /\ Covered(qu)
      /\ qu.pack.waiting = before.queue.pack.waiting
      /\ qu.pack.age = before.queue.pack.age
      /\ es # <<>> /\ ~TooLarge(es[1].size) => qu.pack.cmds > 0
  BY <1>1, PackedIs DEF Covered
<1>3. /\ es \in Seq(Command) /\ Len(es) \in Nat /\ DOMAIN es = 1..Len(es)
      /\ es # <<>> => 1 \in DOMAIN es
      /\ qu.pack.cmds \in 0..Len(es)
  BY <1>1, <1>2, QueueType, CommandType DEF Covered
<1>4. CASE ok = 0
  <2>1. after = Pass(Refused(qu), before.frames, before.packedDone, Off)
    BY <1>4 DEF FlushPack
  <2>. HIDE DEF qu, es, after
  <2>2. /\ Refused(qu) \in Queue /\ Refused(qu).entries = es
        /\ Refused(qu).pack = qu.pack /\ Refused(qu).refused
    BY <1>2, FlagsType
  <2>3. /\ after \in PassResult /\ after.timeout = Off /\ after.queue = Refused(qu)
        /\ after.packedDone = before.packedDone
    BY <1>1, <2>1, <2>2 DEF PassResult, Pass
  <2>4. Accounts(es, es, {})
    BY DEF Accounts
  <2>5. Covered(after.queue)
    BY <1>2, <2>2, <2>3 DEF Covered
  <2>6. \E told : after.packedDone = before.packedDone \cup told
                  /\ Accounts(es, after.queue.entries, told)
    BY <2>2, <2>3, <2>4
  <2>. QED  BY <1>2, <1>4, <2>2, <2>3, <2>5, <2>6 DEF qu, es, after
<1>5. CASE ok # 0
  <2>. DEFINE told == NamesOf(SubSeq(qu.entries, 1, qu.pack.cmds))
              frames == Append(before.frames, Frame(qu))
  <2>1. after = Pass(Flushed(qu), frames, before.packedDone \cup told, Off)
    BY <1>5 DEF FlushPack
  <2>2. frames \in Seq(Datagram)
    BY <1>1, <1>2, FrameType
  <2>3. told \subseteq Cmds
    BY <1>2, <1>3, SplitIs, CommandType
  <2>. HIDE DEF qu, es, after, told, frames
  <2>4. /\ Flushed(qu) \in Queue
        /\ Len(Flushed(qu).entries) = Len(es) - qu.pack.cmds
        /\ Flushed(qu).pack.cmds = 0 /\ Flushed(qu).pack.waiting = qu.pack.waiting
        /\ Flushed(qu).pack.age = qu.pack.age /\ ~Flushed(qu).refused
        /\ Accounts(es, Flushed(qu).entries, told)
        /\ AllFit(es) => AllFit(Flushed(qu).entries)
    BY <1>2, FlushedIs DEF told
  <2>5. /\ after \in PassResult /\ after.timeout = Off /\ after.queue = Flushed(qu)
        /\ after.packedDone = before.packedDone \cup told
    BY <1>1, <2>1, <2>2, <2>3, <2>4 DEF PassResult, Pass
  <2>6. Covered(after.queue)
    BY <2>4, <2>5, QueueType DEF Covered
  <2>7. AllFit(es) /\ es # <<>> => Len(after.queue.entries) < Len(es)
    BY <1>2, <1>3, <2>4, <2>5 DEF AllFit
  <2>8. \E names : after.packedDone = before.packedDone \cup names
                   /\ Accounts(es, after.queue.entries, names)
    BY <2>4, <2>5
  <2>. QED  BY <1>2, <1>5, <2>4, <2>5, <2>6, <2>7, <2>8 DEF qu, es, after
<1>. QED  BY <1>4, <1>5

CoveredPass == {p \in PassResult : Covered(p.queue)}
BurstStep(k, p, ok) ==
    IF p.queue.entries = <<>> \/ k > ok + 1 THEN p ELSE FlushPack(p, ok + 1 - k)

LEMMA BurstIs ==
  ASSUME NEW qu \in Queue, Covered(qu), NEW ok \in 0..MaxCmds
  PROVE  \E burst \in [0..(MaxCmds + 1) -> CoveredPass] :
            /\ burst[0] = Pass(qu, <<>>, {}, Off)
            /\ \A k \in 1..(MaxCmds + 1) : burst[k] = BurstStep(k, burst[k - 1], ok)
            /\ SendPacks(qu, ok) = burst[MaxCmds + 1]
<1>. DEFINE N == MaxCmds + 1
            start == Pass(qu, <<>>, {}, Off)
            g == [x \in (1..N) \X CoveredPass |-> BurstStep(x[1], x[2], ok)]
            Burst(b) == b = [k \in 0..N |->
                               IF k = 0 THEN start
                               ELSE LET before == b[k - 1]
                                    IN  IF before.queue.entries = <<>> \/ k > ok + 1 THEN before
                                        ELSE FlushPack(before, ok + 1 - k)]
<1>1. N \in Nat /\ ok \in Nat
  BY BoundsAssumption
<1>2. start \in CoveredPass
  BY DEF Pass, CoveredPass, PassResult, Off
<1>3. ASSUME NEW k \in 1..N, NEW p \in CoveredPass
      PROVE  g[<<k, p>>] = BurstStep(k, p, ok) /\ g[<<k, p>>] \in CoveredPass
  <2>1. <<k, p>> \in (1..N) \X CoveredPass
    OBVIOUS
  <2>2. g[<<k, p>>] = BurstStep(k, p, ok)
    BY <2>1
  <2>3. BurstStep(k, p, ok) \in CoveredPass
    <3>1. CASE p.queue.entries = <<>> \/ k > ok + 1
      BY <3>1 DEF BurstStep
    <3>2. CASE ~(p.queue.entries = <<>> \/ k > ok + 1)
      <4>1. ok + 1 - k \in Nat
        BY <1>1, <3>2
      <4>2. p \in PassResult /\ Covered(p.queue)
        BY DEF CoveredPass
      <4>3. FlushPack(p, ok + 1 - k) \in CoveredPass
        BY <4>1, <4>2, FlushPackIs DEF CoveredPass
      <4>. QED  BY <3>2, <4>3 DEF BurstStep
    <3>. QED  BY <3>1, <3>2
  <2>. QED  BY <2>2, <2>3
<1>. HIDE DEF g, start
<1>4. PICK f : Iterates(f, start, g, CoveredPass, N)
  <2>1. Steps(g, CoveredPass, N)
    BY <1>3 DEF Steps
  <2>. HIDE DEF N
  <2>. QED  BY <1>1, <1>2, <2>1, Recursion
<1>5. f \in [0..N -> CoveredPass] /\ f[0] = start
      /\ \A k \in 1..N : f[k] = g[<<k, f[k - 1]>>]
  BY <1>4 DEF Iterates
<1>6. ASSUME NEW k \in 1..N
      PROVE  f[k] = BurstStep(k, f[k - 1], ok)
  <2>1. k - 1 \in 0..N
    BY <1>1
  <2>2. f[k - 1] \in CoveredPass
    BY <1>5, <2>1
  <2>. QED  BY <1>3, <1>5, <2>2
<1>7. Burst(f)
  <2>1. ASSUME NEW k \in 0..N
        PROVE  f[k] = IF k = 0 THEN start
                      ELSE LET before == f[k - 1]
                           IN  IF before.queue.entries = <<>> \/ k > ok + 1 THEN before
                               ELSE FlushPack(before, ok + 1 - k)
    <3>1. CASE k = 0
      BY <1>5, <3>1
    <3>2. CASE k # 0
      <4>1. k \in 1..N
        BY <3>2
      <4>. QED  BY <1>6, <3>2, <4>1 DEF BurstStep
    <3>. QED  BY <3>1, <3>2
  <2>. QED  BY <1>5, <2>1
<1>. DEFINE burst == CHOOSE b : Burst(b)
<1>8. Burst(burst)
  <2>. HIDE DEF Burst
  <2>. QED  BY <1>7
<1>9. SendPacks(qu, ok) = burst[N]
  BY DEF SendPacks, start
<1>10. burst[0] = start
  <2>. HIDE DEF burst
  <2>1. 0 \in 0..N
    BY <1>1
  <2>. QED  BY <1>8, <2>1
<1>11. \A k \in 1..N : burst[k] = BurstStep(k, burst[k - 1], ok)
  <2>. HIDE DEF burst
  <2>1. \A k \in 1..N : k \in 0..N /\ k # 0
    OBVIOUS
  <2>. QED  BY <1>8, <2>1 DEF BurstStep
<1>12. DOMAIN burst = 0..N
  <2>. HIDE DEF burst
  <2>. QED  BY <1>8
<1>13. \A k \in 0..N : burst[k] = f[k]
  <2>. HIDE DEF burst, Burst
  <2>. DEFINE T == {k \in 0..N : burst[k] = f[k]}
  <2>1. 0 \in T
    BY <1>1, <1>5, <1>10
  <2>2. \A k \in 1..N : k - 1 \in T => k \in T
    BY <1>6, <1>11
  <2>. HIDE DEF T, N
  <2>3. \A k \in 0..N : k \in T
    BY <1>1, <2>1, <2>2, CountUp
  <2>. QED  BY <2>3 DEF T
<1>14. N \in 0..N
  BY <1>1
<1>15. SendPacks(qu, ok) = f[N]
  <2>. HIDE DEF burst, Burst
  <2>. QED  BY <1>9, <1>13, <1>14
<1>. QED  BY <1>5, <1>6, <1>15 DEF start

(* As many commands as names, at most.                                     *)
LEMMA DistinctLength ==
  ASSUME NEW es \in Seq(Command), Distinct(es)
  PROVE  Len(es) <= MaxCmds
<1>1. Len(es) \in Nat /\ DOMAIN es = 1..Len(es) /\ \A i \in DOMAIN es : es[i].n \in Cmds
  BY CommandType
<1>2. /\ IsFiniteSet(1..Len(es)) /\ Cardinality(1..Len(es)) = Len(es)
      /\ IsFiniteSet(Cmds) /\ Cardinality(Cmds) = MaxCmds
  <2>1. \A m \in Nat : IsFiniteSet(1..m) /\ Cardinality(1..m) = m
    <3>1. TAKE m \in Nat
    <3>2. 1 \in Int /\ m \in Int
      OBVIOUS
    <3>3. IsFiniteSet(1..m) /\ Cardinality(1..m) = IF 1 > m THEN 0 ELSE m - 1 + 1
      BY <3>2, FS_Interval
    <3>. QED  BY <3>3
  <2>. QED  BY <1>1, <2>1, BoundsAssumption DEF Cmds
<1>3. SUFFICES ASSUME Len(es) > MaxCmds
               PROVE  FALSE
  BY <1>1, BoundsAssumption
<1>. DEFINE f == [i \in 1..Len(es) |-> es[i].n]
<1>4. f \in [1..Len(es) -> Cmds]
  BY <1>1
<1>5. Cardinality(Cmds) < Cardinality(1..Len(es))
  BY <1>2, <1>3
<1>6. \E x, y \in 1..Len(es) : x # y /\ f[x] = f[y]
  <2>. HIDE DEF f
  <2>. QED  BY <1>2, <1>4, <1>5, FS_PigeonHole
<1>. QED  BY <1>1, <1>6 DEF Distinct

BurstSane(qu, k, ok, p) ==
    /\ p \in CoveredPass /\ p.timeout = Off
    /\ p.queue.pack.waiting = qu.pack.waiting /\ p.queue.pack.age = qu.pack.age
    /\ AllFit(p.queue.entries)
    /\ Accounts(qu.entries, p.queue.entries, p.packedDone)
    /\ k = 0 => p.queue.entries # <<>>
    /\ k > 0 => (p.queue.refused <=> k > ok /\ p.queue.entries # <<>>)
    /\ k <= ok => p.queue.entries = <<>> \/ Len(p.queue.entries) + k <= Len(qu.entries)

LEMMA AccountsTwice ==
  ASSUME NEW a, NEW b, NEW c, NEW x, NEW y, Accounts(a, b, x), Accounts(b, c, y)
  PROVE  Accounts(a, c, x \cup y)
  BY DEF Accounts

LEMMA BurstStepSane ==
  ASSUME NEW qu \in Queue, NEW ok \in 0..MaxCmds, NEW k \in 1..(MaxCmds + 1), NEW p,
         BurstSane(qu, k - 1, ok, p)
  PROVE  BurstSane(qu, k, ok, BurstStep(k, p, ok))
<1>1. ok \in Nat /\ k \in Nat /\ k > 0 /\ k - 1 \in Nat
  BY BoundsAssumption
<1>2. p \in PassResult /\ Covered(p.queue) /\ p.queue \in Queue
  BY DEF BurstSane, CoveredPass, PassResult
<1>3. Len(p.queue.entries) \in Nat /\ Len(qu.entries) \in Nat
  BY <1>2, QueueType
<1>4. CASE p.queue.entries = <<>> \/ k > ok + 1
  <2>1. BurstStep(k, p, ok) = p
    BY <1>4 DEF BurstStep
  <2>2. p.queue.refused <=> k > ok /\ p.queue.entries # <<>>
    <3>1. k - 1 > 0 \/ k - 1 = 0
      BY <1>1
    <3>2. CASE k - 1 = 0
      <4>1. p.queue.entries # <<>> /\ ~(k > ok + 1)
        BY <1>1, <3>2 DEF BurstSane
      <4>. QED  BY <1>4, <4>1
    <3>3. CASE k - 1 > 0
      <4>1. p.queue.refused <=> k - 1 > ok /\ p.queue.entries # <<>>
        BY <3>3 DEF BurstSane
      <4>2. p.queue.entries # <<>> => k > ok + 1 /\ k - 1 > ok /\ k > ok
        BY <1>1, <1>4
      <4>. QED  BY <4>1, <4>2
    <3>. QED  BY <3>1, <3>2, <3>3
  <2>3. k <= ok => p.queue.entries = <<>>
    BY <1>1, <1>4
  <2>4. k # 0
    BY <1>1
  <2>. QED  BY <2>1, <2>2, <2>3, <2>4 DEF BurstSane
<1>5. CASE ~(p.queue.entries = <<>> \/ k > ok + 1)
  <2>. DEFINE left == ok + 1 - k
              after == FlushPack(p, left)
              es == p.queue.entries
  <2>1. left \in Nat /\ (left = 0 <=> k = ok + 1) /\ (left > 0 <=> k <= ok)
        /\ (k <= ok => k - 1 <= ok) /\ (left = 0 <=> k > ok)
    BY <1>1, <1>5
  <2>2. BurstStep(k, p, ok) = after
    BY <1>5 DEF BurstStep
  <2>. HIDE DEF left
  <2>3. /\ after \in PassResult /\ after.timeout = Off /\ Covered(after.queue)
        /\ after.queue.pack.waiting = p.queue.pack.waiting
        /\ after.queue.pack.age = p.queue.pack.age
        /\ AllFit(es) => AllFit(after.queue.entries)
        /\ left = 0 => after.queue.refused /\ after.queue.entries = es
        /\ left > 0 => ~after.queue.refused
        /\ left > 0 /\ AllFit(es) /\ es # <<>> => Len(after.queue.entries) < Len(es)
    BY <1>2, <2>1, FlushPackIs
  <2>4. PICK told : /\ after.packedDone = p.packedDone \cup told
                    /\ Accounts(es, after.queue.entries, told)
    BY <1>2, <2>1, FlushPackIs
  <2>. HIDE DEF after
  <2>5. Accounts(qu.entries, after.queue.entries, after.packedDone)
    BY <2>4, AccountsTwice DEF BurstSane
  <2>6. after.queue.refused <=> k > ok /\ after.queue.entries # <<>>
    BY <1>5, <2>1, <2>3
  <2>7. ASSUME k <= ok
        PROVE  Len(after.queue.entries) + k <= Len(qu.entries)
    <3>1. Len(after.queue.entries) < Len(es)
      BY <1>5, <2>1, <2>3, <2>7 DEF BurstSane
    <3>2. Len(es) + (k - 1) <= Len(qu.entries)
      BY <1>5, <2>1, <2>7 DEF BurstSane
    <3>3. Len(after.queue.entries) \in Nat
      BY <2>3, QueueType DEF PassResult
    <3>4. ASSUME NEW x \in Nat, NEW y \in Nat, NEW z \in Nat, x < y, y + (k - 1) <= z
          PROVE  x + k <= z
      BY <1>1, <3>4
    <3>5. Len(es) \in Nat /\ Len(qu.entries) \in Nat
      BY <1>3
    <3>. HIDE DEF es
    <3>. QED  BY <3>1, <3>2, <3>3, <3>4, <3>5
  <2>8. k # 0
    BY <1>1
  <2>9. after \in CoveredPass
    BY <2>3 DEF CoveredPass
  <2>. QED  BY <2>2, <2>3, <2>5, <2>6, <2>7, <2>8, <2>9 DEF BurstSane
<1>. QED  BY <1>4, <1>5

LEMMA SendPacksSane ==
  ASSUME NEW qu \in Queue, Covered(qu), NEW ok \in 0..MaxCmds,
         qu.entries # <<>>, AllFit(qu.entries)
  PROVE  LET p == SendPacks(qu, ok)
         IN  /\ p \in PassResult /\ Covered(p.queue) /\ p.timeout = Off
             /\ p.queue.pack.waiting = qu.pack.waiting /\ p.queue.pack.age = qu.pack.age
             /\ AllFit(p.queue.entries)
             /\ Accounts(qu.entries, p.queue.entries, p.packedDone)
             /\ p.queue.refused <=> p.queue.entries # <<>>
             /\ ok = MaxCmds /\ Distinct(qu.entries) => p.queue.entries = <<>>
<1>. DEFINE N == MaxCmds + 1
<1>1. PICK burst \in [0..N -> CoveredPass] :
            /\ burst[0] = Pass(qu, <<>>, {}, Off)
            /\ \A k \in 1..N : burst[k] = BurstStep(k, burst[k - 1], ok)
            /\ SendPacks(qu, ok) = burst[N]
  BY BurstIs
<1>2. MaxCmds \in Nat /\ N \in Nat /\ ok \in Nat /\ N > ok /\ N > 0 /\ N \in 0..N
      /\ MaxCmds \in 0..N /\ N \in 1..N /\ N - 1 = MaxCmds /\ ok <= MaxCmds
  BY BoundsAssumption
<1>3. BurstSane(qu, 0, ok, burst[0])
  <2>1. Accounts(qu.entries, qu.entries, {})
    BY DEF Accounts
  <2>2. 0 \in 0..N
    BY <1>2
  <2>3. burst[0] \in CoveredPass
    BY <2>2
  <2>4. burst[0].queue = qu /\ burst[0].packedDone = {} /\ burst[0].timeout = Off
    BY <1>1 DEF Pass
  <2>5. Len(qu.entries) + 0 <= Len(qu.entries)
    BY QueueType
  <2>. QED  BY <2>1, <2>3, <2>4, <2>5 DEF BurstSane
<1>4. \A k \in 0..N : BurstSane(qu, k, ok, burst[k])
  <2>. DEFINE T == {k \in 0..N : BurstSane(qu, k, ok, burst[k])}
  <2>1. 0 \in T
    BY <1>2, <1>3
  <2>2. \A k \in 1..N : k - 1 \in T => k \in T
    BY <1>1, BurstStepSane
  <2>. HIDE DEF T, N
  <2>3. \A k \in 0..N : k \in T
    BY <1>2, <2>1, <2>2, CountUp
  <2>. QED  BY <2>3 DEF T
<1>. HIDE DEF N
<1>5. BurstSane(qu, N, ok, burst[N])
  BY <1>2, <1>4
<1>6. ASSUME ok = MaxCmds, Distinct(qu.entries)
      PROVE  burst[N].queue.entries = <<>>
  <2>1. BurstSane(qu, MaxCmds, ok, burst[MaxCmds])
    BY <1>2, <1>4
  <2>. DEFINE es == burst[MaxCmds].queue.entries
  <2>2. es \in Seq(Command)
    BY <2>1, QueueType DEF BurstSane, CoveredPass, PassResult
  <2>3. Len(qu.entries) <= MaxCmds /\ Len(qu.entries) \in Nat /\ Len(es) \in Nat
    BY <1>6, <2>2, QueueType, DistinctLength, CommandType
  <2>4. es = <<>> \/ Len(es) + MaxCmds <= Len(qu.entries)
    BY <1>2, <1>6, <2>1 DEF BurstSane
  <2>5. es = <<>>
    BY <1>2, <2>2, <2>3, <2>4, CommandType
  <2>6. burst[N] = burst[MaxCmds]
    BY <1>1, <1>2, <2>5 DEF BurstStep
  <2>. QED  BY <2>5, <2>6
<1>. QED  BY <1>1, <1>2, <1>5, <1>6 DEF BurstSane, CoveredPass

PassSound(q, qu, ok, isUp, pass) ==
    /\ pass \in PassResult
    /\ Accounts(qu.entries, pass.queue.entries, pass.packedDone)
    /\ Sane(q, pass.queue, isUp)
    /\ Watched(q, pass.queue, pass.timeout)
    /\ ok = MaxCmds => ~pass.queue.refused

LEMMA SendPackSound ==
  ASSUME NEW q \in Queues, WithAck(q), NEW qu \in Queue, Covered(qu),
         qu.entries # <<>>, ~qu.pack.waiting, qu.pack.age = 0, Distinct(qu.entries),
         NEW ok \in 0..MaxCmds
  PROVE  PassSound(q, qu, ok, TRUE, SendPack(q, qu, ok))
<1>. DEFINE pass == SendPack(q, qu, ok)
<1>1. Accounts(qu.entries, qu.entries, {})
  BY DEF Accounts
<1>2. MaxCmds > 0
  <2>1. Len(qu.entries) <= MaxCmds /\ Len(qu.entries) > 0 /\ Len(qu.entries) \in Nat
    BY QueueType, CommandType, DistinctLength
  <2>. QED  BY <2>1, BoundsAssumption
<1>3. Info[q].ackTimeout \in Nat /\ Info[q].ackTimeout > 0
  BY QueueInfoType
<1>. DEFINE none == <<>>
<1>4. none \in Seq(Datagram) /\ {} \in SUBSET Cmds
  OBVIOUS
<1>5. CASE ok = 0
  <2>1. pass = Pass(Refused(qu), none, {}, Off)
    BY <1>5 DEF SendPack
  <2>. HIDE DEF pass, none
  <2>2. /\ Refused(qu) \in Queue /\ Refused(qu).entries = qu.entries
        /\ Refused(qu).pack = qu.pack /\ Refused(qu).refused
    BY FlagsType
  <2>3. /\ pass \in PassResult /\ pass.queue = Refused(qu) /\ pass.packedDone = {}
    BY <1>4, <2>1, <2>2 DEF Pass, PassResult
  <2>4. Sane(q, pass.queue, TRUE)
    BY <1>3, <2>2, <2>3 DEF Sane, Covered
  <2>5. Watched(q, pass.queue, pass.timeout)
    BY <2>2, <2>3 DEF Watched
  <2>6. Accounts(qu.entries, pass.queue.entries, pass.packedDone)
    BY <1>1, <2>2, <2>3
  <2>7. ok # MaxCmds
    BY <1>2, <1>5, BoundsAssumption
  <2>. QED  BY <2>3, <2>4, <2>5, <2>6, <2>7 DEF PassSound, pass
<1>6. CASE ok # 0
  <2>. DEFINE new == [qu EXCEPT !.pack.waiting = TRUE, !.refused = FALSE]
              frames == <<Frame(qu)>>
  <2>1. pass = Pass(new, frames, {}, Info[q].ackTimeout)
    BY <1>6 DEF SendPack
  <2>2. /\ new \in Queue /\ new.entries = qu.entries /\ new.pack.cmds = qu.pack.cmds
        /\ new.pack.age = 0 /\ new.pack.waiting /\ ~new.refused
    BY DEF Queue, Pack
  <2>3. frames \in Seq(Datagram)
    BY FrameType
  <2>. HIDE DEF pass, new, frames
  <2>4. /\ pass \in PassResult /\ pass.queue = new /\ pass.packedDone = {}
        /\ pass.timeout = Info[q].ackTimeout
    BY <1>3, <1>4, <2>1, <2>2, <2>3 DEF Pass, PassResult
  <2>5. Sane(q, pass.queue, TRUE)
    BY <1>3, <2>2, <2>4 DEF Sane, Covered
  <2>6. Watched(q, pass.queue, pass.timeout)
    <3>1. Info[q].ackTimeout # Off /\ Info[q].ackTimeout <= Info[q].ackTimeout - 0
      BY <1>3 DEF Off
    <3>. QED  BY <2>2, <2>4, <3>1 DEF Watched
  <2>7. Accounts(qu.entries, pass.queue.entries, pass.packedDone)
    BY <1>1, <2>2, <2>4
  <2>. QED  BY <2>2, <2>4, <2>5, <2>6, <2>7 DEF PassSound, pass
<1>. QED  BY <1>5, <1>6

LEMMA CheckTxQueueSound ==
  ASSUME NEW q \in Queues, NEW qu \in Queue, NEW isUp \in BOOLEAN, Sane(q, qu, isUp),
         Distinct(qu.entries), NEW ok \in 0..MaxCmds
  PROVE  PassSound(q, qu, ok, isUp, CheckTxQueue(q, qu, ok))
<1>. DEFINE pass == CheckTxQueue(q, qu, ok)
            none == <<>>
<1>1. Accounts(qu.entries, qu.entries, {})
  BY DEF Accounts
<1>2. none \in Seq(Datagram) /\ {} \in SUBSET Cmds
  OBVIOUS
<1>3. Info[q].ackTimeout \in Nat /\ qu.pack.age \in Nat
  BY QueueInfoType, QueueType
<1>4. CASE qu.entries = <<>>
  <2>. DEFINE new == [qu EXCEPT !.refused = FALSE]
  <2>1. pass = Pass(new, none, {}, Off)
    BY <1>4 DEF CheckTxQueue
  <2>2. /\ new \in Queue /\ new.entries = qu.entries /\ new.pack = qu.pack /\ ~new.refused
    BY DEF Queue
  <2>. HIDE DEF pass, new, none
  <2>3. /\ pass \in PassResult /\ pass.queue = new /\ pass.packedDone = {}
    BY <1>2, <2>1, <2>2 DEF Pass, PassResult
  <2>4. Sane(q, pass.queue, isUp)
    BY <2>2, <2>3 DEF Sane, Covered
  <2>5. Watched(q, pass.queue, pass.timeout)
    BY <1>4, <2>2, <2>3 DEF Watched
  <2>6. Accounts(qu.entries, pass.queue.entries, pass.packedDone)
    BY <1>1, <2>2, <2>3
  <2>. QED  BY <2>2, <2>3, <2>4, <2>5, <2>6 DEF PassSound, pass
<1>5. CASE qu.entries # <<>> /\ AckPending(q, qu)
  <2>. DEFINE left == Info[q].ackTimeout - qu.pack.age
  <2>1. pass = Pass(qu, none, {}, left)
    BY <1>5 DEF CheckTxQueue
  <2>2. left \in Nat /\ left # Off /\ left <= Info[q].ackTimeout - qu.pack.age
    BY <1>3, <1>5 DEF AckPending, Off
  <2>3. qu.pack.waiting /\ ~qu.refused
    BY <1>5 DEF AckPending, Sane
  <2>. HIDE DEF pass, left, none
  <2>4. /\ pass \in PassResult /\ pass.queue = qu /\ pass.packedDone = {}
        /\ pass.timeout = left
    BY <1>2, <2>1, <2>2 DEF Pass, PassResult
  <2>5. Watched(q, pass.queue, pass.timeout)
    BY <2>2, <2>3, <2>4 DEF Watched
  <2>. QED  BY <1>1, <2>3, <2>4, <2>5 DEF PassSound, pass
<1>6. CASE qu.entries # <<>> /\ ~AckPending(q, qu) /\ WithAck(q)
  <2>. DEFINE out == Packed(Expire(qu))
  <2>1. pass = SendPack(q, out, ok)
    BY <1>6 DEF CheckTxQueue
  <2>2. isUp = TRUE /\ Covered(qu)
    BY <1>6 DEF Sane
  <2>3. /\ Expire(qu) \in Queue /\ Expire(qu).entries = qu.entries
        /\ ~Expire(qu).pack.waiting /\ Expire(qu).pack.age = 0
        /\ Expire(qu).pack.cmds = qu.pack.cmds
    BY FlagsType
  <2>4. /\ out \in Queue /\ out.entries = qu.entries /\ Covered(out)
        /\ out.pack.waiting = FALSE /\ out.pack.age = 0
    <3>. DEFINE e == Expire(qu)
    <3>1. e \in Queue /\ e.pack.cmds <= Len(e.entries) /\ out = Packed(e)
      BY <2>2, <2>3 DEF Covered
    <3>. HIDE DEF e, out
    <3>2. /\ out \in Queue /\ out.entries = e.entries /\ out.pack.cmds <= Len(out.entries)
          /\ out.pack.waiting = e.pack.waiting /\ out.pack.age = e.pack.age
      BY <3>1, PackedIs
    <3>3. e.pack.waiting = FALSE
      BY <2>3, <3>1, QueueType DEF e
    <3>. QED  BY <2>3, <3>2, <3>3 DEF e, Covered
  <2>. HIDE DEF out, pass
  <2>5. PassSound(q, out, ok, TRUE, pass)
    BY <1>6, <2>1, <2>4, SendPackSound
  <2>. QED  BY <2>2, <2>4, <2>5 DEF PassSound, pass
<1>7. CASE qu.entries # <<>> /\ ~AckPending(q, qu) /\ ~WithAck(q)
  <2>1. pass = SendPacks(qu, ok)
    BY <1>7 DEF CheckTxQueue
  <2>2. isUp = TRUE /\ Covered(qu) /\ AllFit(qu.entries) /\ ~qu.pack.waiting
    BY <1>7 DEF Sane
  <2>. HIDE DEF pass
  <2>3. qu.entries # <<>> /\ Covered(qu) /\ AllFit(qu.entries)
    BY <1>7, <2>2
  <2>4. /\ pass \in PassResult /\ Covered(pass.queue)
        /\ pass.queue.pack.waiting = qu.pack.waiting /\ pass.queue.pack.age = qu.pack.age
        /\ AllFit(pass.queue.entries)
        /\ Accounts(qu.entries, pass.queue.entries, pass.packedDone)
        /\ pass.queue.refused <=> pass.queue.entries # <<>>
        /\ ok = MaxCmds => pass.queue.entries = <<>>
    BY <2>1, <2>3, SendPacksSane
  <2>5. Sane(q, pass.queue, isUp)
    BY <2>2, <2>4 DEF Sane
  <2>6. Watched(q, pass.queue, pass.timeout)
    BY <2>4 DEF Watched
  <2>. QED  BY <2>4, <2>5, <2>6 DEF PassSound, pass
<1>. QED  BY <1>4, <1>5, <1>6, <1>7

(***************************************************************************)
(* The queues together: check_tx_queues                                    *)
(***************************************************************************)

DoneType == [Cmds -> Seq(FinalStatus)]

AllNames(t) == UNION {NamesOf(t[q].entries) : q \in Queues}
Separate(t) ==
    /\ \A q \in Queues : Distinct(t[q].entries)
    /\ \A p, q \in Queues : p # q => NamesOf(t[p].entries) \cap NamesOf(t[q].entries) = {}

(* With the queues t, d says what became of commands 1..k.                 *)
Settled(t, d, k) ==
    /\ Separate(t)
    /\ AllNames(t) \subseteq 1..k
    /\ \A n \in Cmds : /\ n \in AllNames(t) => d[n] = <<>>
                       /\ n \in 1..k /\ n \notin AllNames(t) => Len(d[n]) = 1
                       /\ n > k => d[n] = <<>>

LEMMA NotifyIs ==
  ASSUME NEW d \in DoneType, NEW names, NEW status \in FinalStatus
  PROVE  /\ Notify(d, names, status) \in DoneType
         /\ \A n \in Cmds :
               /\ n \notin names => Notify(d, names, status)[n] = d[n]
               /\ n \in names /\ d[n] = <<>> => Len(Notify(d, names, status)[n]) = 1
<1>1. \A n \in Cmds : d[n] \in Seq(FinalStatus)
  BY DEF DoneType
<1>2. ASSUME NEW n \in Cmds
      PROVE  /\ Append(d[n], status) \in Seq(FinalStatus)
             /\ d[n] = <<>> => Len(Append(d[n], status)) = 1
  <2>1. /\ Append(d[n], status) \in Seq(FinalStatus)
        /\ Len(Append(d[n], status)) = Len(d[n]) + 1
    BY <1>1, AppendProperties
  <2>2. d[n] = <<>> => Len(d[n]) = 0
    OBVIOUS
  <2>. QED  BY <2>1, <2>2
<1>. QED  BY <1>1, <1>2 DEF Notify, DoneType

LEMMA TellSettled ==
  ASSUME NEW s, NEW t, NEW told, NEW names, NEW d \in DoneType, NEW k \in 0..MaxCmds,
         NEW status \in FinalStatus, Settled(s, d, k),
         \A q \in Queues : Accounts(s[q].entries, t[q].entries, told[q]),
         \A n : n \in names <=> \E q \in Queues : n \in told[q]
  PROVE  /\ Notify(d, names, status) \in DoneType
         /\ Settled(t, Notify(d, names, status), k)
<1>. DEFINE new == Notify(d, names, status)
<1>1. ASSUME NEW q \in Queues
      PROVE  /\ NamesOf(t[q].entries) \cup told[q] = NamesOf(s[q].entries)
             /\ Distinct(t[q].entries) /\ NamesOf(t[q].entries) \cap told[q] = {}
  BY DEF Settled, Separate, Accounts
<1>2. /\ \A n : n \in AllNames(s) <=> \E q \in Queues : n \in NamesOf(s[q].entries)
      /\ \A n : n \in AllNames(t) <=> \E q \in Queues : n \in NamesOf(t[q].entries)
  BY DEF AllNames
<1>3. Separate(t)
  <2>1. \A p \in Queues : NamesOf(t[p].entries) \subseteq NamesOf(s[p].entries)
    BY <1>1
  <2>. QED  BY <1>1, <2>1 DEF Settled, Separate
<1>4. AllNames(t) \cup names = AllNames(s)
  BY <1>1, <1>2
<1>5. AllNames(t) \cap names = {}
  <2>1. SUFFICES ASSUME NEW n, n \in AllNames(t), n \in names
                 PROVE  FALSE
    OBVIOUS
  <2>2. PICK p \in Queues : n \in NamesOf(t[p].entries)
    BY <1>2, <2>1
  <2>3. PICK q \in Queues : n \in told[q]
    BY <1>2, <2>1
  <2>4. n \in NamesOf(s[p].entries) /\ n \in NamesOf(s[q].entries)
    BY <1>1, <2>2, <2>3
  <2>5. p = q
    BY <2>4 DEF Settled, Separate
  <2>. QED  BY <1>1, <2>2, <2>3, <2>5
<1>6. new \in DoneType
  BY NotifyIs
<1>7. AllNames(t) \subseteq 1..k
  BY <1>4 DEF Settled
<1>8. ASSUME NEW n \in Cmds
      PROVE  /\ n \in AllNames(t) => new[n] = <<>>
             /\ n \in 1..k /\ n \notin AllNames(t) => Len(new[n]) = 1
             /\ n > k => new[n] = <<>>
  <2>1. /\ n \notin names => new[n] = d[n]
        /\ n \in names /\ d[n] = <<>> => Len(new[n]) = 1
    BY NotifyIs
  <2>2. /\ n \in AllNames(s) => d[n] = <<>>
        /\ n \in 1..k /\ n \notin AllNames(s) => Len(d[n]) = 1
        /\ n > k => d[n] = <<>>
    BY DEF Settled
  <2>3. n \in AllNames(s) => n \in 1..k
    BY DEF Settled
  <2>4. n \in 1..k => ~(n > k)
    BY BoundsAssumption
  <2>. HIDE DEF new
  <2>5. CASE n \in names
    BY <1>4, <1>5, <2>1, <2>2, <2>3, <2>4, <2>5
  <2>6. CASE n \notin names
    BY <1>4, <2>1, <2>2, <2>6
  <2>. QED  BY <2>5, <2>6
<1>9. Settled(t, new, k)
  <2>. HIDE DEF new
  <2>. QED  BY <1>3, <1>7, <1>8 DEF Settled
<1>. QED  BY <1>6, <1>9

LEMMA PutType ==
  ASSUME NEW channel \in Seq(Datagram), NEW frames \in Seq(Datagram)
  PROVE  Put(channel, frames) \in Seq(Datagram)
  BY DEF Put

LEMMA NextTimerIs ==
  ASSUME NEW f \in [Queues -> Nat \cup {Off}]
  PROVE  /\ NextTimer(f) \in Nat \cup {Off}
         /\ \A q \in Queues : f[q] # Off => NextTimer(f) # Off /\ NextTimer(f) <= f[q]
<1>1. CASE \A q \in Queues : f[q] = Off
  BY <1>1 DEF NextTimer
<1>2. CASE ~\A q \in Queues : f[q] = Off
  <2>. DEFINE S == {f[q] : q \in Queues} \ {Off}
  <2>1. S \in SUBSET Nat /\ S # {}
    BY <1>2
  <2>2. NextTimer(f) = Min(S)
    BY <1>2 DEF NextTimer
  <2>3. \A q \in Queues : f[q] # Off => f[q] \in S
    OBVIOUS
  <2>. HIDE DEF S
  <2>4. Min(S) \in S /\ \A y \in S : Min(S) <= y
    BY <2>1, MinOfNaturals
  <2>5. Min(S) \in Nat /\ Min(S) # Off
    <3>1. Off \notin Nat
      BY DEF Off
    <3>. QED  BY <2>1, <2>4, <3>1
  <2>. QED  BY <2>2, <2>3, <2>4, <2>5
<1>. QED  BY <1>1, <1>2

LEMMA CheckTxQueuesSound ==
  ASSUME NEW t \in [Queues -> Queue], NEW d \in DoneType, NEW k \in 0..MaxCmds,
         NEW isUp \in BOOLEAN, data \in [Queues -> Seq(Datagram)],
         refusals \in 0..MaxRefused, Settled(t, d, k),
         \A q \in Queues : Sane(q, t[q], isUp), CheckTxQueues(t, d)
  PROVE  /\ tx' \in [Queues -> Queue]
         /\ timer' \in Nat \cup {Off}
         /\ refusals' \in 0..MaxRefused
         /\ data' \in [Queues -> Seq(Datagram)]
         /\ done' \in DoneType
         /\ Settled(tx', done', k)
         /\ \A q \in Queues : Sane(q, tx'[q], isUp) /\ Watched(q, tx'[q], timer')
<1>1. PICK ok \in Budgets :
        LET pass == [q \in Queues |-> CheckTxQueue(q, t[q], ok[q])]
            told == UNION {pass[q].packedDone : q \in Queues}
        IN  /\ tx' = [q \in Queues |-> pass[q].queue]
            /\ refusals' = refusals + (IF \E q \in Queues : pass[q].queue.refused THEN 1 ELSE 0)
            /\ data' = [q \in Queues |-> Put(data[q], pass[q].frames)]
            /\ done' = Notify(d, told, "PACKED")
            /\ timer' = NextTimer([q \in Queues |-> pass[q].timeout])
  BY DEF CheckTxQueues
<1>. DEFINE pass == [q \in Queues |-> CheckTxQueue(q, t[q], ok[q])]
            told == [q \in Queues |-> pass[q].packedDone]
            names == UNION {told[q] : q \in Queues}
            timeouts == [q \in Queues |-> pass[q].timeout]
<1>2. /\ \A q \in Queues : ok[q] \in 0..MaxCmds
      /\ refusals < MaxRefused \/ \A q \in Queues : ok[q] = MaxCmds
  BY BoundsAssumption DEF Budgets
<1>3. ASSUME NEW q \in Queues
      PROVE  PassSound(q, t[q], ok[q], isUp, pass[q])
  <2>1. Distinct(t[q].entries)
    BY DEF Settled, Separate
  <2>2. t[q] \in Queue /\ Sane(q, t[q], isUp) /\ ok[q] \in 0..MaxCmds
    BY <1>2
  <2>3. PassSound(q, t[q], ok[q], isUp, CheckTxQueue(q, t[q], ok[q]))
    BY <2>1, <2>2, CheckTxQueueSound
  <2>. QED  BY <2>3
<1>4. /\ tx' = [q \in Queues |-> pass[q].queue]
      /\ refusals' = refusals + (IF \E q \in Queues : pass[q].queue.refused THEN 1 ELSE 0)
      /\ data' = [q \in Queues |-> Put(data[q], pass[q].frames)]
      /\ timer' = NextTimer(timeouts)
  BY <1>1
<1>5. done' = Notify(d, names, "PACKED")
  <2>1. names = UNION {pass[q].packedDone : q \in Queues}
    OBVIOUS
  <2>. QED  BY <1>1, <2>1
<1>. HIDE DEF pass
<1>6. ASSUME NEW q \in Queues
      PROVE  /\ pass[q].queue \in Queue /\ pass[q].frames \in Seq(Datagram)
             /\ pass[q].packedDone \in SUBSET Cmds /\ pass[q].timeout \in Nat \cup {Off}
             /\ Accounts(t[q].entries, pass[q].queue.entries, pass[q].packedDone)
             /\ Sane(q, pass[q].queue, isUp) /\ Watched(q, pass[q].queue, pass[q].timeout)
             /\ ok[q] = MaxCmds => ~pass[q].queue.refused
  BY <1>3 DEF PassSound, PassResult
<1>7. tx' \in [Queues -> Queue] /\ \A q \in Queues : tx'[q] = pass[q].queue
  BY <1>4, <1>6
<1>8. data' \in [Queues -> Seq(Datagram)]
  BY <1>4, <1>6, PutType
<1>9. refusals' \in 0..MaxRefused
  <2>1. (\E q \in Queues : pass[q].queue.refused) => refusals < MaxRefused
    BY <1>2, <1>6
  <2>. QED  BY <1>4, <2>1, BoundsAssumption
<1>10. timeouts \in [Queues -> Nat \cup {Off}]
  BY <1>6
<1>11. timer' \in Nat \cup {Off}
       /\ \A q \in Queues : timeouts[q] # Off => timer' # Off /\ timer' <= timeouts[q]
  <2>. HIDE DEF timeouts
  <2>. QED  BY <1>4, <1>10, NextTimerIs
<1>12. done' \in DoneType /\ Settled(tx', done', k)
  <2>1. \A q \in Queues : Accounts(t[q].entries, tx'[q].entries, told[q])
    BY <1>6, <1>7
  <2>2. "PACKED" \in FinalStatus
    BY DEF FinalStatus
  <2>3. \A n : n \in names <=> \E q \in Queues : n \in told[q]
    OBVIOUS
  <2>. HIDE DEF told, names
  <2>. QED  BY <1>5, <2>1, <2>2, <2>3, TellSettled
<1>13. ASSUME NEW q \in Queues
       PROVE  Watched(q, tx'[q], timer')
  <2>1. Watched(q, tx'[q], timeouts[q])
    BY <1>6, <1>7
  <2>2. CASE timeouts[q] = Off
    BY <2>1, <2>2 DEF Watched
  <2>3. CASE timeouts[q] # Off
    <3>1. timer' # Off /\ timer' <= timeouts[q] /\ timeouts[q] \in Nat /\ timer' \in Nat
      BY <1>10, <1>11, <2>3
    <3>2. tx'[q].pack.age \in Nat /\ Info[q].ackTimeout \in Nat
      BY <1>7, QueueType, QueueInfoType
    <3>3. timeouts[q] <= Info[q].ackTimeout - tx'[q].pack.age
          => timer' <= Info[q].ackTimeout - tx'[q].pack.age
      BY <3>1, <3>2
    <3>. QED  BY <2>1, <3>1, <3>3 DEF Watched
  <2>. QED  BY <2>2, <2>3
<1>14. \A q \in Queues : Sane(q, tx'[q], isUp)
  BY <1>6, <1>7
<1>. QED  BY <1>7, <1>8, <1>9, <1>11, <1>12, <1>13, <1>14

(***************************************************************************)
(* The inductive invariant                                                 *)
(***************************************************************************)

IInv ==
    /\ TypeOK
    /\ Settled(tx, done, sent)
    /\ \A q \in Queues : Sane(q, tx[q], up) /\ Watched(q, tx[q], timer)

LEMMA InitIInv == Init => IInv
<1>. SUFFICES ASSUME Init
              PROVE  IInv
  OBVIOUS
<1>. DEFINE none == <<>>
<1>1. none \in Seq(Command) /\ DOMAIN none = {} /\ Len(none) = 0
      /\ none \in Seq(FinalStatus) /\ none \in Seq(Datagram) /\ none \in Seq(Cmds)
  OBVIOUS
<1>2. /\ NewQueue \in Queue /\ NewQueue.entries = none /\ NewQueue.pack.cmds = 0
      /\ NewQueue.pack.age = 0 /\ ~NewQueue.pack.waiting
  <2>1. NewQueue = [entries |-> none, seq |-> SeqSize - 1, last |-> SeqSize - 1,
                    serial |-> 0, refused |-> FALSE,
                    pack |-> [buf |-> none, cmds |-> 0, waiting |-> FALSE, age |-> 0]]
    BY DEF NewQueue
  <2>2. SeqSize - 1 \in 0..(SeqSize - 1)
    BY SeqAssumption
  <2>. HIDE DEF none
  <2>. QED  BY <1>1, <2>1, <2>2 DEF Queue, Pack
<1>3. \A q \in Queues : tx[q] = NewQueue
  BY DEF Init
<1>4. TypeOK
  <2>1. tx \in [Queues -> Queue]
    BY <1>2 DEF Init
  <2>2. recv \in [Queues -> 0..(SeqSize - 1)]
    BY SeqAssumption DEF Init
  <2>3. /\ timer \in Nat \cup {Off} /\ up \in BOOLEAN /\ sent \in 0..MaxCmds
        /\ refusals \in 0..MaxRefused
        /\ rserial \in [Queues -> Nat] /\ synced \in [Queues -> BOOLEAN]
    BY BoundsAssumption DEF Init
  <2>4. /\ done \in [Cmds -> Seq(FinalStatus)]
        /\ data \in [Queues -> Seq(Datagram)] /\ acks \in [Queues -> Seq(Datagram)]
        /\ delivered \in [Queues -> Seq(Cmds)]
    BY DEF Init
  <2>. QED  BY <2>1, <2>2, <2>3, <2>4 DEF TypeOK
<1>5. \A q \in Queues : NamesOf(tx[q].entries) = {} /\ Distinct(tx[q].entries)
  <2>. HIDE DEF none
  <2>. QED  BY <1>1, <1>2, <1>3 DEF NamesOf, Distinct
<1>6. Settled(tx, done, sent)
  <2>1. AllNames(tx) = {} /\ Separate(tx)
    BY <1>5 DEF AllNames, Separate
  <2>2. sent = 0 /\ \A n \in Cmds : done[n] = <<>> /\ n \notin 1..sent
    BY DEF Init
  <2>. QED  BY <2>1, <2>2 DEF Settled
<1>7. ASSUME NEW q \in Queues
      PROVE  Sane(q, tx[q], up) /\ Watched(q, tx[q], timer)
  <2>1. /\ tx[q].entries = none /\ tx[q].pack.cmds = 0 /\ tx[q].pack.age = 0
        /\ ~tx[q].pack.waiting /\ up
    BY <1>2, <1>3 DEF Init
  <2>2. tx[q].pack.age <= Info[q].ackTimeout
    BY <2>1, QueueInfoType
  <2>3. Covered(tx[q])
    <3>. HIDE DEF none
    <3>. QED  BY <1>1, <2>1 DEF Covered
  <2>4. AllFit(tx[q].entries)
    <3>. HIDE DEF none
    <3>. QED  BY <1>1, <2>1 DEF AllFit
  <2>. QED  BY <2>1, <2>2, <2>3, <2>4 DEF Sane, Watched
<1>. QED  BY <1>4, <1>6, <1>7 DEF IInv

LEMMA WatchType == Watch => synced' \in [Queues -> BOOLEAN]
  BY DEF Watch, InWindow

(* What the handlers share: a check of the queues after which nothing else *)
(* changes the sender's state.                                             *)
LEMMA CheckIInv ==
  ASSUME IInv, NEW t \in [Queues -> Queue], NEW d \in DoneType, NEW k \in 0..MaxCmds,
         sent' = k, Settled(t, d, k), \A q \in Queues : Sane(q, t[q], up),
         CheckTxQueues(t, d), acks' \in [Queues -> Seq(Datagram)],
         UNCHANGED <<up, receiver>>, Watch
  PROVE  IInv'
<1>1. /\ data \in [Queues -> Seq(Datagram)] /\ up \in BOOLEAN
      /\ refusals \in 0..MaxRefused
  BY DEF IInv, TypeOK
<1>. DEFINE isUp == up
<1>2. isUp \in BOOLEAN /\ \A q \in Queues : Sane(q, t[q], isUp)
  BY <1>1
<1>. HIDE DEF isUp
<1>3. /\ tx' \in [Queues -> Queue] /\ timer' \in Nat \cup {Off}
      /\ refusals' \in 0..MaxRefused /\ data' \in [Queues -> Seq(Datagram)]
      /\ done' \in DoneType /\ Settled(tx', done', k)
      /\ \A q \in Queues : Sane(q, tx'[q], isUp) /\ Watched(q, tx'[q], timer')
  BY <1>1, <1>2, CheckTxQueuesSound
<1>4. synced' \in [Queues -> BOOLEAN]
  BY WatchType
<1>5. TypeOK'
  BY <1>3, <1>4 DEF IInv, TypeOK, receiver, DoneType
<1>6. (Settled(tx, done, sent))'
  BY <1>3
<1>7. \A q \in Queues : (Sane(q, tx[q], up) /\ Watched(q, tx[q], timer))'
  BY <1>3 DEF isUp, receiver, Sane, Watched
<1>. QED  BY <1>5, <1>6, <1>7 DEF IInv

LEMMA AppendSettled ==
  ASSUME NEW s \in [Queues -> Queue], NEW q \in Queues, NEW t, NEW c \in Command,
         NEW k \in 0..MaxCmds, NEW d, c.n = k + 1, Settled(s, d, k),
         t[q].entries = Append(s[q].entries, c),
         \A p \in Queues : p # q => t[p] = s[p]
  PROVE  Settled(t, d, k + 1)
<1>. DEFINE n == k + 1
            es == s[q].entries
            new == Append(es, c)
            L == Len(es)
<1>1. /\ es \in Seq(Command) /\ L \in Nat /\ DOMAIN es = 1..L
  BY QueueType
<1>2. /\ DOMAIN new = 1..(L + 1) /\ new[L + 1] = c
      /\ \A i \in 1..L : new[i] = es[i]
  BY <1>1, AppendProperties, LenProperties
<1>3. t[q].entries = new
  OBVIOUS
<1>4. n \notin AllNames(s) /\ k \in Nat /\ n \in Nat
  <2>1. n \notin 1..k /\ k \in Nat
    BY BoundsAssumption
  <2>. QED  BY <2>1 DEF Settled
<1>5. \A p \in Queues : n \notin NamesOf(s[p].entries)
  BY <1>4 DEF AllNames
<1>6. \A i \in 1..L : es[i].n # n
  BY <1>1, <1>5 DEF NamesOf
<1>. HIDE DEF new, L, es
<1>7. NamesOf(new) = NamesOf(es) \cup {n}
  <2>1. \A i \in 1..(L + 1) : i \in 1..L \/ i = L + 1
    BY <1>1
  <2>2. \A i \in 1..L : i \in 1..(L + 1)
    BY <1>1
  <2>3. L + 1 \in 1..(L + 1)
    BY <1>1
  <2>. QED  BY <1>1, <1>2, <2>1, <2>2, <2>3 DEF NamesOf
<1>8. Distinct(new)
  <2>1. \A i \in 1..(L + 1) : i \in 1..L \/ i = L + 1
    BY <1>1
  <2>2. Distinct(es)
    BY DEF Settled, Separate, es
  <2>. QED  BY <1>1, <1>2, <1>6, <2>1, <2>2 DEF Distinct
<1>9. /\ \A x : x \in AllNames(s) <=> \E p \in Queues : x \in NamesOf(s[p].entries)
      /\ \A x : x \in AllNames(t) <=> \E p \in Queues : x \in NamesOf(t[p].entries)
  BY DEF AllNames
<1>10. /\ NamesOf(t[q].entries) = NamesOf(s[q].entries) \cup {n}
       /\ \A p \in Queues : p # q => NamesOf(t[p].entries) = NamesOf(s[p].entries)
  BY <1>3, <1>7 DEF es
<1>11. AllNames(t) = AllNames(s) \cup {n}
  <2>. HIDE DEF n
  <2>. QED  BY <1>9, <1>10
<1>12. Separate(t)
  <2>1. \A p \in Queues : Distinct(t[p].entries)
    <3>1. TAKE p \in Queues
    <3>2. CASE p = q
      BY <1>3, <1>8, <3>2
    <3>3. CASE p # q
      BY <3>3 DEF Settled, Separate
    <3>. QED  BY <3>2, <3>3
  <2>2. ASSUME NEW p \in Queues, NEW r \in Queues, p # r
        PROVE  NamesOf(t[p].entries) \cap NamesOf(t[r].entries) = {}
    <3>1. NamesOf(s[p].entries) \cap NamesOf(s[r].entries) = {}
      BY <2>2 DEF Settled, Separate
    <3>. HIDE DEF n
    <3>. QED  BY <1>5, <1>10, <2>2, <3>1
  <2>. QED  BY <2>1, <2>2 DEF Separate
<1>13. \A x \in Nat : /\ x \in 1..n <=> x \in 1..k \/ x = n
                      /\ x > n => x > k
  BY <1>4
<1>14. n > k /\ n \in 1..n
  BY <1>4
<1>15. \A x \in 1..k : x \in Nat
  OBVIOUS
<1>16. AllNames(t) \subseteq 1..n
  <2>. HIDE DEF n
  <2>. QED  BY <1>11, <1>13, <1>14, <1>15 DEF Settled
<1>17. ASSUME NEW m \in Cmds
       PROVE  /\ m \in AllNames(t) => d[m] = <<>>
              /\ m \in 1..n /\ m \notin AllNames(t) => Len(d[m]) = 1
              /\ m > n => d[m] = <<>>
  <2>1. m \in Nat
    BY DEF Cmds
  <2>2. /\ m \in AllNames(s) => d[m] = <<>>
        /\ m \in 1..k /\ m \notin AllNames(s) => Len(d[m]) = 1
        /\ m > k => d[m] = <<>>
    BY DEF Settled
  <2>. HIDE DEF n
  <2>. QED  BY <1>11, <1>13, <1>14, <2>1, <2>2
<1>. QED  BY <1>12, <1>16, <1>17 DEF Settled

LEMMA AppendSane ==
  ASSUME NEW q \in Queues, NEW qu \in Queue, NEW new, NEW c \in Command, NEW isUp, isUp,
         new.entries = Append(qu.entries, c), new.pack = qu.pack, new.refused = qu.refused,
         WithAck(q) \/ ~TooLarge(c.size), Sane(q, qu, isUp)
  PROVE  Sane(q, new, isUp)
<1>. DEFINE es == qu.entries
            L == Len(es)
<1>1. /\ L \in Nat /\ DOMAIN es = 1..L /\ es \in Seq(Command) /\ qu.pack.cmds \in Nat
      /\ Len(Append(es, c)) = L + 1
      /\ DOMAIN Append(es, c) = 1..(L + 1) /\ Append(es, c)[L + 1] = c
      /\ \A i \in 1..L : Append(es, c)[i] = es[i]
  BY QueueType, AppendProperties, LenProperties
<1>2. Covered(new)
  <2>1. qu.pack.cmds <= L
    BY DEF Sane, Covered
  <2>. QED  BY <1>1, <2>1 DEF Covered
<1>3. ASSUME ~WithAck(q)
      PROVE  AllFit(new.entries)
  <2>1. AllFit(es) /\ ~TooLarge(c.size)
    BY <1>3 DEF Sane
  <2>2. \A i \in 1..(L + 1) : i \in 1..L \/ i = L + 1
    BY <1>1
  <2>3. new.entries = Append(es, c)
    OBVIOUS
  <2>. HIDE DEF L, es
  <2>. QED  BY <1>1, <2>1, <2>2, <2>3 DEF AllFit
<1>. QED  BY <1>2, <1>3 DEF Sane

LEMMA SendIInv ==
  ASSUME IInv, NEW bt \in BufferTypes, NEW size \in Sizes, Send(bt, size)
  PROVE  IInv'
<1>. DEFINE c == [n |-> sent + 1, size |-> size]
<1>1. PICK q \in Queues :
        /\ WithAck(q) \/ ~TooLarge(size)
        /\ CheckTxQueues([tx EXCEPT ![q].entries = Append(tx[q].entries, c)], done)
  BY DEF Send
<1>. DEFINE t == [tx EXCEPT ![q].entries = Append(tx[q].entries, c)]
            new == [tx[q] EXCEPT !.entries = Append(tx[q].entries, c)]
<1>2. /\ tx \in [Queues -> Queue] /\ tx[q] \in Queue /\ up
      /\ sent \in 0..MaxCmds /\ sent \in Nat /\ sent + 1 \in 0..MaxCmds
      /\ sent' = sent + 1 /\ done \in DoneType
  BY BoundsAssumption DEF IInv, TypeOK, Send, DoneType
<1>3. c \in Command /\ c.n = sent + 1 /\ c.size = size
  <2>1. sent + 1 \in Cmds
    BY <1>2 DEF Cmds, Send
  <2>. QED  BY <2>1 DEF Command
<1>4. CheckTxQueues(t, done)
  BY <1>1
<1>. HIDE DEF c
<1>5. tx[q].entries \in Seq(Command) /\ Append(tx[q].entries, c) \in Seq(Command)
  BY <1>2, <1>3, QueueType
<1>6. /\ t[q] = new /\ new \in Queue /\ new.entries = Append(tx[q].entries, c)
      /\ new.pack = tx[q].pack /\ new.refused = tx[q].refused
      /\ t \in [Queues -> Queue]
      /\ \A p \in Queues : p # q => t[p] = tx[p]
  BY <1>2, <1>5 DEF Queue
<1>. HIDE DEF t, new
<1>7. Settled(t, done, sent + 1)
  <2>1. Settled(tx, done, sent)
    BY DEF IInv
  <2>. QED  BY <1>2, <1>3, <1>6, <2>1, AppendSettled
<1>8. ASSUME NEW p \in Queues
      PROVE  Sane(p, t[p], up)
  <2>1. Sane(p, tx[p], up)
    BY DEF IInv
  <2>2. CASE p # q
    BY <1>6, <2>1, <2>2
  <2>3. CASE p = q
    BY <1>1, <1>2, <1>3, <1>6, <2>1, <2>3, AppendSane
  <2>. QED  BY <2>2, <2>3
<1>9. UNCHANGED <<up, receiver>> /\ Watch /\ acks' \in [Queues -> Seq(Datagram)]
  BY DEF IInv, TypeOK, Send
<1>. QED  BY <1>2, <1>4, <1>6, <1>7, <1>8, <1>9, CheckIInv

LEMMA TimerCbIInv ==
  ASSUME IInv, TimerCb
  PROVE  IInv'
<1>1. /\ tx \in [Queues -> Queue] /\ done \in DoneType /\ sent \in 0..MaxCmds
      /\ Settled(tx, done, sent) /\ \A q \in Queues : Sane(q, tx[q], up)
      /\ acks' \in [Queues -> Seq(Datagram)]
  BY DEF IInv, TypeOK, DoneType, TimerCb
<1>2. CheckTxQueues(tx, done) /\ UNCHANGED <<up, receiver>> /\ Watch /\ sent' = sent
  BY DEF TimerCb
<1>. QED  BY <1>1, <1>2, CheckIInv

LEMMA TakenType ==
  ASSUME NEW channel \in Seq(Datagram), channel # <<>>, NEW copy \in BOOLEAN
  PROVE  Taken(channel, copy) \in Seq(Datagram) /\ Head(channel) \in Datagram
<1>1. Head(channel) \in Datagram /\ Tail(channel) \in Seq(Datagram)
  BY HeadTailProperties
<1>. QED  BY <1>1 DEF Taken

LEMMA AcknowledgedIs ==
  ASSUME NEW qu \in Queue, Covered(qu)
  PROVE  LET new == Acknowledged(qu)
             names == NamesOf(SubSeq(qu.entries, 1, qu.pack.cmds))
         IN  /\ new \in Queue /\ names \subseteq Cmds
             /\ new.entries = SubSeq(qu.entries, qu.pack.cmds + 1, Len(qu.entries))
             /\ new.pack.cmds = 0 /\ new.pack.waiting = qu.pack.waiting
             /\ new.pack.age = qu.pack.age /\ new.refused = qu.refused
             /\ new.serial = qu.serial /\ new.seq = qu.seq /\ Len(new.pack.buf) = 0
             /\ Covered(new) /\ Accounts(qu.entries, new.entries, names)
             /\ AllFit(qu.entries) => AllFit(new.entries)
<1>. DEFINE k == qu.pack.cmds
            rest == SubSeq(qu.entries, k + 1, Len(qu.entries))
            none == <<>>
            new == Acknowledged(qu)
<1>1. k \in 0..Len(qu.entries) /\ qu.entries \in Seq(Command)
  BY QueueType DEF Covered
<1>2. none \in Seq(Command) /\ Len(none) = 0
  OBVIOUS
<1>3. /\ rest \in Seq(Command) /\ Len(rest) \in Nat
      /\ DOMAIN rest = 1..(Len(qu.entries) - k)
      /\ \A i \in 1..(Len(qu.entries) - k) : rest[i] = qu.entries[i + k]
      /\ SubSeq(qu.entries, 1, k) \in Seq(Command)
  BY <1>1, SplitIs, CommandType
<1>4. Accounts(qu.entries, rest, NamesOf(SubSeq(qu.entries, 1, k)))
  BY <1>1, SplitNames
<1>5. NamesOf(SubSeq(qu.entries, 1, k)) \subseteq Cmds
  BY <1>3, CommandType
<1>6. new = [qu EXCEPT !.entries = rest, !.last = qu.seq, !.pack.buf = none,
                       !.pack.cmds = 0]
  BY DEF Acknowledged
<1>7. ASSUME AllFit(qu.entries)
      PROVE  AllFit(rest)
  <2>1. \A i \in 1..(Len(qu.entries) - k) : i + k \in DOMAIN qu.entries
    BY <1>1, QueueType
  <2>. QED  BY <1>3, <1>7, <2>1 DEF AllFit
<1>. HIDE DEF rest, none, new
<1>8. /\ new \in Queue /\ new.entries = rest /\ new.pack.cmds = 0
      /\ new.pack.waiting = qu.pack.waiting /\ new.pack.age = qu.pack.age
      /\ new.refused = qu.refused /\ new.serial = qu.serial /\ new.seq = qu.seq
      /\ new.pack.buf = none
  BY <1>2, <1>3, <1>6 DEF Queue, Pack
<1>9. Covered(new)
  BY <1>3, <1>8 DEF Covered
<1>. QED  BY <1>2, <1>4, <1>5, <1>7, <1>8, <1>9 DEF rest, new

LEMMA RecvAckIInv ==
  ASSUME IInv, NEW q \in Queues, NEW copy \in BOOLEAN, RecvAck(q, copy)
  PROVE  IInv'
<1>1. /\ tx \in [Queues -> Queue] /\ tx[q] \in Queue /\ done \in DoneType
      /\ sent \in 0..MaxCmds /\ Settled(tx, done, sent)
      /\ \A p \in Queues : Sane(p, tx[p], up)
      /\ acks \in [Queues -> Seq(Datagram)]
  BY DEF IInv, TypeOK, DoneType
<1>2. acks' \in [Queues -> Seq(Datagram)]
  <2>1. Taken(acks[q], copy) \in Seq(Datagram)
    BY <1>1, TakenType DEF RecvAck
  <2>2. acks' = [acks EXCEPT ![q] = Taken(acks[q], copy)]
    BY DEF RecvAck
  <2>. QED  BY <1>1, <2>1, <2>2
<1>3. UNCHANGED <<up, sent, receiver>> /\ Watch
  BY DEF RecvAck
<1>4. CASE ~up
  <2>1. UNCHANGED <<tx, data, done, refusals, timer>>
    BY <1>4 DEF RecvAck
  <2>2. synced' \in [Queues -> BOOLEAN]
    BY <1>3, WatchType
  <2>3. TypeOK'
    BY <1>2, <1>3, <2>1, <2>2 DEF IInv, TypeOK, receiver
  <2>. QED  BY <1>3, <2>1, <2>3 DEF IInv, Sane, Watched
<1>5. CASE up /\ ~Acknowledges(Head(acks[q]), tx[q])
  <2>1. CheckTxQueues(tx, done)
    BY <1>5 DEF RecvAck
  <2>. QED  BY <1>1, <1>2, <1>3, <2>1, CheckIInv
<1>6. CASE up /\ Acknowledges(Head(acks[q]), tx[q])
  <2>. DEFINE t == [tx EXCEPT ![q] = Acknowledged(tx[q])]
              names == NamesOf(SubSeq(tx[q].entries, 1, tx[q].pack.cmds))
              d == Notify(done, names, "ACK_RECEIVED")
              told == [p \in Queues |-> IF p = q THEN names ELSE {}]
  <2>1. CheckTxQueues(t, d)
    BY <1>6 DEF RecvAck
  <2>2. Covered(tx[q])
    BY <1>1, <1>6 DEF Sane
  <2>3. /\ Acknowledged(tx[q]) \in Queue /\ Covered(Acknowledged(tx[q]))
        /\ Acknowledged(tx[q]).pack.waiting = tx[q].pack.waiting
        /\ Acknowledged(tx[q]).pack.age = tx[q].pack.age
        /\ Acknowledged(tx[q]).refused = tx[q].refused
        /\ Accounts(tx[q].entries, Acknowledged(tx[q]).entries, names)
        /\ AllFit(tx[q].entries) => AllFit(Acknowledged(tx[q]).entries)
    BY <1>1, <2>2, AcknowledgedIs
  <2>4. /\ t \in [Queues -> Queue] /\ t[q] = Acknowledged(tx[q])
        /\ \A p \in Queues : p # q => t[p] = tx[p]
    BY <1>1, <2>3
  <2>5. \A n : n \in names <=> \E p \in Queues : n \in told[p]
    OBVIOUS
  <2>. HIDE DEF t
  <2>6. ASSUME NEW p \in Queues
        PROVE  Accounts(tx[p].entries, t[p].entries, told[p])
    <3>1. CASE p = q
      BY <2>3, <2>4, <3>1
    <3>2. CASE p # q
      BY <2>4, <3>2 DEF Accounts
    <3>. QED  BY <3>1, <3>2
  <2>7. d \in DoneType /\ Settled(t, d, sent)
    <3>1. "ACK_RECEIVED" \in FinalStatus
      BY DEF FinalStatus
    <3>. HIDE DEF told, names
    <3>. QED  BY <1>1, <2>5, <2>6, <3>1, TellSettled
  <2>8. ASSUME NEW p \in Queues
        PROVE  Sane(p, t[p], up)
    BY <1>1, <1>6, <2>3, <2>4 DEF Sane
  <2>. HIDE DEF d
  <2>. QED  BY <1>1, <1>2, <1>3, <2>1, <2>4, <2>7, <2>8, CheckIInv
<1>. QED  BY <1>4, <1>5, <1>6

LEMMA StopIInv ==
  ASSUME IInv, Stop
  PROVE  IInv'
<1>. DEFINE none == <<>>
            names == UNION {NamesOf(tx[q].entries) : q \in Queues}
            told == [q \in Queues |-> NamesOf(tx[q].entries)]
            t == [q \in Queues |-> [tx[q] EXCEPT !.entries = none]]
            d == Notify(done, names, "CANCELED")
<1>1. /\ tx \in [Queues -> Queue] /\ done \in DoneType /\ sent \in 0..MaxCmds
      /\ Settled(tx, done, sent) /\ \A q \in Queues : Sane(q, tx[q], up)
      /\ tx' = t /\ done' = d /\ sent' = sent /\ up' = FALSE
  BY DEF IInv, TypeOK, DoneType, Stop
<1>2. none \in Seq(Command) /\ DOMAIN none = {}
  OBVIOUS
<1>3. NamesOf(none) = {} /\ Distinct(none) /\ AllFit(none)
  <2>. HIDE DEF none
  <2>. QED  BY <1>2 DEF NamesOf, Distinct, AllFit
<1>. HIDE DEF none
<1>4. ASSUME NEW q \in Queues
      PROVE  /\ t[q] \in Queue /\ t[q].entries = none /\ t[q].pack = tx[q].pack
             /\ t[q].refused = tx[q].refused
  <2>1. tx[q] \in Queue
    BY <1>1
  <2>. QED  BY <1>2, <2>1 DEF Queue
<1>5. t \in [Queues -> Queue]
  BY <1>4
<1>. HIDE DEF t
<1>6. d \in DoneType /\ Settled(t, d, sent)
  <2>1. \A q \in Queues : Accounts(tx[q].entries, t[q].entries, told[q])
    BY <1>3, <1>4 DEF Accounts
  <2>2. \A n : n \in names <=> \E q \in Queues : n \in told[q]
    OBVIOUS
  <2>3. "CANCELED" \in FinalStatus
    BY DEF FinalStatus
  <2>. HIDE DEF told, names
  <2>. QED  BY <1>1, <2>1, <2>2, <2>3, TellSettled
<1>. HIDE DEF d
<1>7. ASSUME NEW q \in Queues
      PROVE  (Sane(q, tx[q], up))' /\ (Watched(q, tx[q], timer))'
  <2>1. tx'[q] = t[q]
    BY <1>1
  <2>2. t[q].entries = <<>>
    BY <1>4 DEF none
  <2>. QED  BY <1>1, <1>3, <1>4, <2>1, <2>2 DEF Sane, Watched
<1>8. synced' \in [Queues -> BOOLEAN]
  BY WatchType DEF Stop
<1>9. TypeOK'
  BY <1>1, <1>5, <1>6, <1>8 DEF IInv, TypeOK, DoneType, Stop, receiver
<1>10. (Settled(tx, done, sent))'
  BY <1>1, <1>6
<1>. QED  BY <1>7, <1>9, <1>10 DEF IInv

(* The handlers of the other peer and of the network leave the sender's    *)
(* side as it is.                                                          *)
LEMMA SenderKept ==
  ASSUME IInv, UNCHANGED <<tx, timer, up, sent, done>>, TypeOK'
  PROVE  IInv'
  BY DEF IInv, Sane, Watched

LEMMA UnpackType ==
  ASSUME NEW buf \in Seq(Command)
  PROVE  /\ Unpack(buf) \in Seq(Cmds) /\ Len(Unpack(buf)) = Len(buf)
         /\ DOMAIN Unpack(buf) = DOMAIN buf
         /\ \A i \in DOMAIN buf : Unpack(buf)[i] = buf[i].n
<1>1. Len(buf) \in Nat /\ DOMAIN buf = 1..Len(buf) /\ \A i \in DOMAIN buf : buf[i].n \in Cmds
  BY CommandType
<1>2. Unpack(buf) \in [1..Len(buf) -> Cmds]
  BY <1>1 DEF Unpack
<1>3. Unpack(buf) \in Seq(Cmds) /\ DOMAIN Unpack(buf) = 1..Len(buf)
  BY <1>1, <1>2
<1>4. Len(Unpack(buf)) = Len(buf)
  BY <1>1, <1>3, LenProperties
<1>. QED  BY <1>1, <1>3, <1>4 DEF Unpack

LEMMA RecvDataIInv ==
  ASSUME IInv, NEW q \in Queues, NEW copy \in BOOLEAN, RecvData(q, copy)
  PROVE  IInv'
<1>. DEFINE f == Head(data[q])
            none == <<>>
            ack == <<[f EXCEPT !.buf = none]>>
<1>1. /\ data \in [Queues -> Seq(Datagram)] /\ acks \in [Queues -> Seq(Datagram)]
      /\ recv \in [Queues -> 0..(SeqSize - 1)] /\ rserial \in [Queues -> Nat]
      /\ delivered \in [Queues -> Seq(Cmds)]
  BY DEF IInv, TypeOK
<1>2. /\ data' = [data EXCEPT ![q] = Taken(data[q], copy)]
      /\ acks' = [acks EXCEPT ![q] = IF WithAck(q) THEN Put(acks[q], ack) ELSE acks[q]]
      /\ UNCHANGED <<tx, timer, up, sent, done, refusals>>
  BY DEF RecvData
<1>3. f \in Datagram /\ Taken(data[q], copy) \in Seq(Datagram)
  BY <1>1, TakenType DEF RecvData
<1>4. none \in Seq(Command)
  OBVIOUS
<1>. HIDE DEF none, f
<1>5. [f EXCEPT !.buf = none] \in Datagram
  BY <1>3, <1>4 DEF Datagram
<1>6. ack \in Seq(Datagram)
  BY <1>5
<1>. HIDE DEF ack
<1>7. acks' \in [Queues -> Seq(Datagram)]
  <2>1. Put(acks[q], ack) \in Seq(Datagram)
    BY <1>1, <1>6, PutType
  <2>. QED  BY <1>1, <1>2, <2>1
<1>8. data' \in [Queues -> Seq(Datagram)]
  BY <1>1, <1>2, <1>3
<1>9. /\ recv' \in [Queues -> 0..(SeqSize - 1)] /\ rserial' \in [Queues -> Nat]
      /\ delivered' \in [Queues -> Seq(Cmds)]
  <2>1. CASE ShouldProcess(recv[q], f.seq)
    <3>1. /\ recv' = [recv EXCEPT ![q] = f.seq]
          /\ rserial' = [rserial EXCEPT ![q] = f.serial]
          /\ delivered' = [delivered EXCEPT ![q] = delivered[q] \o Unpack(f.buf)]
      BY <2>1 DEF RecvData, f
    <3>2. f.seq \in 0..(SeqSize - 1) /\ f.serial \in Nat /\ f.buf \in Seq(Command)
      BY <1>3 DEF Datagram
    <3>3. Unpack(f.buf) \in Seq(Cmds)
      BY <3>2, UnpackType
    <3>4. delivered[q] \o Unpack(f.buf) \in Seq(Cmds)
      BY <1>1, <3>3
    <3>. QED  BY <1>1, <3>1, <3>2, <3>4
  <2>2. CASE ~ShouldProcess(recv[q], f.seq)
    BY <1>1, <2>2 DEF RecvData, receiver, f
  <2>. QED  BY <2>1, <2>2
<1>10. synced' \in [Queues -> BOOLEAN]
  BY WatchType DEF RecvData
<1>11. TypeOK'
  BY <1>2, <1>7, <1>8, <1>9, <1>10 DEF IInv, TypeOK
<1>. QED  BY <1>2, <1>11, SenderKept

LEMMA LoseIInv ==
  ASSUME IInv, NEW q \in Queues, LoseData(q) \/ LoseAck(q)
  PROVE  IInv'
<1>1. data \in [Queues -> Seq(Datagram)] /\ acks \in [Queues -> Seq(Datagram)]
  BY DEF IInv, TypeOK
<1>2. \A c \in Seq(Datagram) : c # <<>> => Tail(c) \in Seq(Datagram)
  BY HeadTailProperties
<1>3. /\ data' \in [Queues -> Seq(Datagram)] /\ acks' \in [Queues -> Seq(Datagram)]
      /\ UNCHANGED <<tx, timer, up, sent, done, refusals, receiver, synced>>
  BY <1>1, <1>2 DEF LoseData, LoseAck
<1>4. TypeOK'
  BY <1>3 DEF IInv, TypeOK, receiver
<1>. QED  BY <1>3, <1>4, SenderKept

Aged(q, qu) ==
    [qu EXCEPT !.pack.age = IF qu.pack.waiting THEN Older(qu.pack.age, Info[q].ackTimeout)
                            ELSE qu.pack.age]

LEMMA AgedIs ==
  ASSUME NEW q \in Queues, NEW qu \in Queue
  PROVE  LET new == Aged(q, qu)
         IN  /\ new \in Queue /\ new.entries = qu.entries /\ new.refused = qu.refused
             /\ new.serial = qu.serial /\ new.seq = qu.seq /\ new.last = qu.last
             /\ new.pack.waiting = qu.pack.waiting /\ new.pack.cmds = qu.pack.cmds
             /\ new.pack.buf = qu.pack.buf
             /\ new.pack.age = IF qu.pack.waiting THEN Older(qu.pack.age, Info[q].ackTimeout)
                               ELSE qu.pack.age
<1>. DEFINE a == IF qu.pack.waiting THEN Older(qu.pack.age, Info[q].ackTimeout)
                 ELSE qu.pack.age
<1>1. a \in Nat
  BY QueueType, QueueInfoType DEF Older
<1>2. Aged(q, qu) = [qu EXCEPT !.pack.age = a]
  BY DEF Aged
<1>3. a = IF qu.pack.waiting THEN Older(qu.pack.age, Info[q].ackTimeout) ELSE qu.pack.age
  OBVIOUS
<1>. HIDE DEF a
<1>. QED  BY <1>1, <1>2, <1>3 DEF Queue, Pack

LEMMA TickIInv ==
  ASSUME IInv, Tick
  PROVE  IInv'
<1>1. /\ tx \in [Queues -> Queue] /\ timer \in Nat \cup {Off}
      /\ UNCHANGED <<up, sent, done, refusals, data, acks, receiver, synced>>
  BY DEF IInv, TypeOK, Tick
<1>2. CASE UNCHANGED <<tx, timer>>
  <2>1. TypeOK'
    BY <1>1, <1>2 DEF IInv, TypeOK, receiver
  <2>. QED  BY <1>1, <1>2, <2>1, SenderKept
<1>3. CASE /\ timer' = IF timer > 0 THEN timer - 1 ELSE timer
           /\ tx' = [q \in Queues |-> Aged(q, tx[q])]
  <2>1. \A q \in Queues : tx[q] \in Queue /\ tx'[q] = Aged(q, tx[q])
    BY <1>1, <1>3
  <2>2. tx' \in [Queues -> Queue] /\ timer' \in Nat \cup {Off}
    <3>1. \A q \in Queues : Aged(q, tx[q]) \in Queue
      BY <2>1, AgedIs
    <3>2. timer' \in Nat \cup {Off}
      BY <1>1, <1>3 DEF Off
    <3>. QED  BY <1>3, <3>1, <3>2
  <2>3. TypeOK'
    BY <1>1, <2>2 DEF IInv, TypeOK, receiver
  <2>4. \A q \in Queues : tx'[q].entries = tx[q].entries
    BY <2>1, AgedIs
  <2>5. (Settled(tx, done, sent))'
    <3>1. AllNames(tx') = AllNames(tx)
      BY <2>4 DEF AllNames
    <3>2. Separate(tx')
      BY <2>4 DEF IInv, Settled, Separate
    <3>. QED  BY <1>1, <3>1, <3>2 DEF IInv, Settled
  <2>6. ASSUME NEW q \in Queues
        PROVE  (Sane(q, tx[q], up))' /\ (Watched(q, tx[q], timer))'
    <3>. DEFINE qu == tx[q]
                new == Aged(q, qu)
                limit == Info[q].ackTimeout
    <3>1. /\ new.entries = qu.entries /\ new.refused = qu.refused
          /\ new.pack.waiting = qu.pack.waiting /\ new.pack.cmds = qu.pack.cmds
          /\ new.pack.age = IF qu.pack.waiting THEN Older(qu.pack.age, limit)
                            ELSE qu.pack.age
      BY <2>1, AgedIs
    <3>2. limit \in Nat /\ qu.pack.age \in Nat /\ tx'[q] = new
      BY <2>1, QueueInfoType, QueueType
    <3>3. Sane(q, qu, up) /\ Watched(q, qu, timer)
      BY DEF IInv
    <3>. HIDE DEF qu, new, limit
    <3>4. qu.pack.age <= limit
      BY <3>3 DEF Sane, limit
    <3>5. new.pack.age <= limit
      BY <3>1, <3>2, <3>4 DEF Older
    <3>6. (Sane(q, tx[q], up))'
      BY <1>1, <3>1, <3>2, <3>3, <3>5 DEF Sane, Covered, limit
    <3>7. ASSUME new.entries # <<>>, ~new.refused
          PROVE  new.pack.waiting /\ timer' # Off /\ timer' <= limit - new.pack.age
      <4>1. qu.pack.waiting /\ timer # Off /\ timer <= limit - qu.pack.age
        BY <3>1, <3>3, <3>7 DEF Watched, limit
      <4>2. new.pack.age = Older(qu.pack.age, limit)
        BY <3>1, <4>1
      <4>3. timer \in Nat /\ timer' \in Nat
        BY <1>1, <1>3, <4>1
      <4>4. timer' # Off
        BY <4>3 DEF Off
      <4>5. timer' <= limit - new.pack.age
        BY <1>3, <3>2, <3>4, <4>1, <4>2, <4>3 DEF Older
      <4>. QED  BY <3>1, <4>1, <4>4, <4>5
    <3>8. (Watched(q, tx[q], timer))'
      BY <3>2, <3>7 DEF Watched, limit
    <3>. QED  BY <3>6, <3>8
  <2>. QED  BY <2>3, <2>5, <2>6 DEF IInv
<1>. QED  BY <1>2, <1>3 DEF Tick, Aged

LEMMA NextIInv == IInv /\ [Next]_vars => IInv'
<1>. SUFFICES ASSUME IInv, [Next]_vars
              PROVE  IInv'
  OBVIOUS
<1>1. ASSUME NEW bt \in BufferTypes, NEW size \in Sizes, Send(bt, size)
      PROVE  IInv'
  BY <1>1, SendIInv
<1>2. CASE TimerCb
  BY <1>2, TimerCbIInv
<1>3. ASSUME NEW q \in Queues, NEW copy \in BOOLEAN, RecvAck(q, copy)
      PROVE  IInv'
  BY <1>3, RecvAckIInv
<1>4. ASSUME NEW q \in Queues, NEW copy \in BOOLEAN, RecvData(q, copy)
      PROVE  IInv'
  BY <1>4, RecvDataIInv
<1>5. CASE Stop
  BY <1>5, StopIInv
<1>6. ASSUME NEW q \in Queues, LoseData(q) \/ LoseAck(q)
      PROVE  IInv'
  BY <1>6, LoseIInv
<1>7. CASE Tick
  BY <1>7, TickIInv
<1>8. CASE UNCHANGED vars
  <2>1. TypeOK'
    BY <1>8 DEF vars, IInv, TypeOK
  <2>2. UNCHANGED <<tx, timer, up, sent, done>>
    BY <1>8 DEF vars
  <2>. QED  BY <2>1, <2>2, SenderKept
<1>. QED  BY <1>1, <1>2, <1>3, <1>4, <1>5, <1>6, <1>7, <1>8 DEF Next

LEMMA SpecIInv == Spec => []IInv
  BY InitIInv, NextIInv, PTL DEF Spec

(* Every variable keeps its type, each accepted command is queued or was   *)
(* told its end exactly once, and what stays queued waits for an           *)
(* acknowledgement under the timer or was refused by the socket, whatever  *)
(* the sizes of commands and packs (check_tx_queue, recv_ack, stop).       *)
THEOREM CommandsAreAccounted == Spec => []Accounted
<1>1. IInv => Accounted
  <2>. SUFFICES ASSUME IInv
                PROVE  Accounted
    OBVIOUS
  <2>1. Pending = AllNames(tx)
    BY DEF Pending, PendingIn, AllNames, NamesOf
  <2>2. DoneOnce
    BY <2>1 DEF IInv, Settled, DoneOnce
  <2>3. QueuesWatched
    BY DEF IInv, Watched, QueuesWatched
  <2>. QED  BY <2>2, <2>3 DEF IInv, Accounted
<1>. QED  BY <1>1, SpecIInv, PTL

(***************************************************************************)
(* What the two ends know of one another: what an acknowledgement          *)
(* completes was delivered, and commands are delivered in order and once.  *)
(***************************************************************************)

(***************************************************************************)
(* A queue, the frames it has in the network, oldest first, and what the   *)
(* receiver has got: the names dl, with the frame of serial number r as    *)
(* the last.  k commands were accepted.                                    *)
(***************************************************************************)

(* A queue that took s numbers is at the number NumberOf(s).               *)
NumberOf(s) == (SeqSize - 1 + s) % SeqSize

Rising(cmds) == \A i, j \in DOMAIN cmds : i < j => cmds[i].n < cmds[j].n
Below(M, N) == \A m \in M, n \in N : m < n

(* The pack is the front of the queue.                                     *)
Packs(qu) ==
    /\ Len(qu.pack.buf) = qu.pack.cmds
    /\ \A i \in 1..qu.pack.cmds : qu.pack.buf[i] = qu.entries[i]

(* What was sent under the number s is behind what the queue still has,    *)
(* but for the pack that has this number.                                  *)
Behind(qu, s, names) ==
    \A n \in names, i \in DOMAIN qu.entries :
        n < qu.entries[i].n \/ (i <= qu.pack.cmds /\ s = qu.serial)

FrameFits(qu, f, r, dl, k) ==
    /\ r <= f.serial /\ f.serial <= qu.serial /\ f.seq = NumberOf(f.serial)
    /\ Rising(f.buf) /\ NamesOf(f.buf) \subseteq 1..k
    /\ Behind(qu, f.serial, NamesOf(f.buf))
    /\ f.serial = qu.serial /\ qu.pack.cmds # 0 => f.buf = qu.pack.buf
    /\ f.serial = r => NamesOf(f.buf) \subseteq dl
    /\ f.serial > r => Below(dl, NamesOf(f.buf))

(* Frame g was sent after frame f.                                         *)
InTurn(f, g) ==
    /\ f.serial <= g.serial
    /\ f.serial = g.serial => f.buf = g.buf
    /\ f.serial < g.serial => Below(NamesOf(f.buf), NamesOf(g.buf))

QueueFits(qu, r, dl, k) ==
    /\ qu.seq = NumberOf(qu.serial) /\ r <= qu.serial
    /\ Rising(qu.entries) /\ NamesOf(qu.entries) \subseteq 1..k /\ dl \subseteq 1..k
    /\ Behind(qu, r, dl)
    /\ r = qu.serial /\ qu.pack.cmds # 0 => NamesOf(qu.pack.buf) \subseteq dl

Fits(qu, frames, r, dl, k) ==
    /\ QueueFits(qu, r, dl, k)
    /\ \A i \in DOMAIN frames : FrameFits(qu, frames[i], r, dl, k)
    /\ \A i, j \in DOMAIN frames : i < j => InTurn(frames[i], frames[j])

(* An acknowledgement answers a frame that the receiver had got.           *)
AcksFit(q) ==
    \A i \in DOMAIN acks[q] :
        /\ acks[q][i].seq = NumberOf(acks[q][i].serial)
        /\ synced[q] => acks[q][i].serial <= rserial[q]

DeliveredIn(q) == {delivered[q][i] : i \in DOMAIN delivered[q]}
RisingNames(names) == \A i, j \in DOMAIN names : i < j => names[i] < names[j]

EndsFit(q) ==
    /\ Fits(tx[q], data[q], rserial[q], DeliveredIn(q), sent)
    /\ up => Packs(tx[q])
    /\ recv[q] = NumberOf(rserial[q])
    /\ RisingNames(delivered[q])
    /\ AcksFit(q)
    /\ synced[q] => InWindow(q)

DeliveryInv == AckSound /\ \A q \in Queues : EndsFit(q)

(***************************************************************************)
(* Numbers                                                                 *)
(***************************************************************************)

LEMMA Multiples ==
  ASSUME NEW c \in Int, NEW d \in Int, c < d
  PROVE  c * SeqSize + SeqSize <= d * SeqSize
<1>1. d - c - 1 \in Nat
  OBVIOUS
<1>2. (d - c - 1) * SeqSize \in Nat
  BY <1>1, SeqAssumption
<1>3. (d - c - 1) * SeqSize = d * SeqSize - c * SeqSize - SeqSize
  BY SeqAssumption
<1>. QED  BY <1>2, <1>3, SeqAssumption

LEMMA OneRemainder ==
  ASSUME NEW c \in Int, NEW d \in Int,
         NEW r \in 0..(SeqSize - 1), NEW t \in 0..(SeqSize - 1),
         c * SeqSize + r = d * SeqSize + t
  PROVE  r = t
<1>1. c * SeqSize \in Int /\ d * SeqSize \in Int /\ SeqSize \in Nat
  BY SeqAssumption
<1>2. ~(c < d)
  BY <1>1, Multiples
<1>3. ~(d < c)
  BY <1>1, Multiples
<1>4. c = d
  BY <1>2, <1>3
<1>. QED  BY <1>1, <1>4

LEMMA Modulo ==
  ASSUME NEW a \in Nat
  PROVE  \E c \in Nat : a = c * SeqSize + (a % SeqSize) /\ a % SeqSize \in 0..(SeqSize - 1)
<1>. DEFINE c == a \div SeqSize
<1>1. c \in Nat /\ a = c * SeqSize + (a % SeqSize) /\ a % SeqSize \in 0..(SeqSize - 1)
  BY SeqAssumption
<1>. QED  BY <1>1

LEMMA NumberIs ==
  ASSUME NEW s \in Nat
  PROVE  /\ NumberOf(s) \in 0..(SeqSize - 1)
         /\ \E c \in Nat : SeqSize - 1 + s = c * SeqSize + NumberOf(s)
<1>1. SeqSize - 1 + s \in Nat
  BY SeqAssumption
<1>. QED  BY <1>1, Modulo DEF NumberOf

LEMMA NumberStep ==
  ASSUME NEW s \in Nat
  PROVE  Seqnum(NumberOf(s)) = NumberOf(s + 1)
<1>1. PICK c \in Nat : SeqSize - 1 + s = c * SeqSize + NumberOf(s)
  BY NumberIs
<1>2. NumberOf(s) + 1 \in Nat
  BY NumberIs, SeqAssumption
<1>3. PICK d \in Nat : /\ NumberOf(s) + 1 = d * SeqSize + Seqnum(NumberOf(s))
                      /\ Seqnum(NumberOf(s)) \in 0..(SeqSize - 1)
  BY <1>2, Modulo DEF Seqnum
<1>4. PICK e \in Nat : SeqSize - 1 + (s + 1) = e * SeqSize + NumberOf(s + 1)
  BY NumberIs
<1>5. (c + d) * SeqSize = c * SeqSize + d * SeqSize
  BY <1>3, SeqAssumption
<1>6. /\ c * SeqSize \in Int /\ d * SeqSize \in Int /\ e * SeqSize \in Int
      /\ NumberOf(s) \in Int /\ NumberOf(s + 1) \in 0..(SeqSize - 1)
      /\ SeqSize \in Int
  BY <1>3, SeqAssumption, NumberIs
<1>7. (c + d) * SeqSize + Seqnum(NumberOf(s)) = e * SeqSize + NumberOf(s + 1)
  BY <1>1, <1>3, <1>4, <1>5, <1>6
<1>8. c + d \in Int /\ e \in Int
  BY <1>3
<1>. QED  BY <1>3, <1>6, <1>7, <1>8, OneRemainder

LEMMA NumberStart == NumberOf(0) = SeqSize - 1
<1>1. PICK c \in Nat : SeqSize - 1 + 0 = c * SeqSize + NumberOf(0)
  BY NumberIs
<1>2. 0 * SeqSize = 0 /\ SeqSize - 1 \in 0..(SeqSize - 1)
  BY SeqAssumption
<1>3. c * SeqSize + NumberOf(0) = 0 * SeqSize + (SeqSize - 1)
  BY <1>1, <1>2, SeqAssumption
<1>. QED  BY <1>2, <1>3, NumberIs, OneRemainder

(* Numbers less than the width apart tell serial numbers apart.            *)
LEMMA NumberUnique ==
  ASSUME NEW s \in Nat, NEW t \in Nat, s <= t, t - s < SeqSize,
         NumberOf(s) = NumberOf(t)
  PROVE  s = t
<1>1. PICK c \in Nat : SeqSize - 1 + s = c * SeqSize + NumberOf(s)
  BY NumberIs
<1>2. PICK d \in Nat : SeqSize - 1 + t = d * SeqSize + NumberOf(t)
  BY NumberIs
<1>3. /\ c * SeqSize \in Int /\ d * SeqSize \in Int
      /\ NumberOf(s) \in Int /\ SeqSize \in Int
  BY SeqAssumption, NumberIs
<1>4. ~(c < d)
  BY <1>1, <1>2, <1>3, Multiples
<1>5. ~(d < c)
  BY <1>1, <1>2, <1>3, Multiples, SeqAssumption
<1>6. c = d
  BY <1>4, <1>5
<1>. QED  BY <1>1, <1>2, <1>3, <1>6

(* A newer frame within the window is taken for one.                       *)
LEMMA NewerIsProcessed ==
  ASSUME NEW s \in Nat, NEW t \in Nat, s < t, t - s < SeqSize - Window
  PROVE  ShouldProcess(NumberOf(s), NumberOf(t))
<1>1. PICK c \in Nat : SeqSize - 1 + s = c * SeqSize + NumberOf(s)
  BY NumberIs
<1>2. PICK d \in Nat : SeqSize - 1 + t = d * SeqSize + NumberOf(t)
  BY NumberIs
<1>3. /\ c * SeqSize \in Int /\ d * SeqSize \in Int
      /\ NumberOf(s) \in 0..(SeqSize - 1) /\ NumberOf(t) \in 0..(SeqSize - 1)
      /\ SeqSize \in Nat /\ Window \in Nat
  BY SeqAssumption, NumberIs
<1>4. CASE c = d
  BY <1>1, <1>2, <1>3, <1>4 DEF ShouldProcess
<1>5. ~(d < c)
  BY <1>1, <1>2, <1>3, Multiples
<1>6. CASE c < d /\ d <= c + 1
  <2>1. d = c + 1 /\ (c + 1) * SeqSize = c * SeqSize + SeqSize
    BY <1>6, SeqAssumption
  <2>2. NumberOf(t) - NumberOf(s) = (t - s) - SeqSize
    BY <1>1, <1>2, <1>3, <2>1
  <2>. QED  BY <1>3, <2>2 DEF ShouldProcess
<1>7. ~(c + 1 < d)
  <2>1. SUFFICES ASSUME c + 1 < d
                 PROVE  FALSE
    OBVIOUS
  <2>2. (c + 1) * SeqSize + SeqSize <= d * SeqSize
    BY <2>1, Multiples
  <2>3. (c + 1) * SeqSize = c * SeqSize + SeqSize
    BY SeqAssumption
  <2>. QED  BY <1>1, <1>2, <1>3, <2>2, <2>3
<1>. QED  BY <1>4, <1>5, <1>6, <1>7

(* Nothing is processed twice, however the numbers wrap.                   *)
LEMMA SameIsNotProcessed ==
  ASSUME NEW s \in Nat
  PROVE  ~ShouldProcess(NumberOf(s), NumberOf(s))
  BY NumberIs, SeqAssumption DEF ShouldProcess

(***************************************************************************)
(* A queue and its frames                                                  *)
(***************************************************************************)

LEMMA QueueFacts ==
  ASSUME NEW qu \in Queue
  PROVE  /\ qu.entries \in Seq(Command) /\ DOMAIN qu.entries = 1..Len(qu.entries)
         /\ Len(qu.entries) \in Nat
         /\ \A i \in 1..Len(qu.entries) : qu.entries[i].n \in Cmds /\ qu.entries[i].n \in Nat
         /\ qu.serial \in Nat /\ qu.pack.cmds \in Nat
         /\ qu.pack.buf \in Seq(Command)
         /\ DOMAIN qu.pack.buf = 1..Len(qu.pack.buf) /\ Len(qu.pack.buf) \in Nat
<1>1. Cmds \subseteq Nat
  BY DEF Cmds
<1>. QED  BY <1>1, QueueType, CommandType

LEMMA DatagramType ==
  ASSUME NEW f \in Datagram
  PROVE  /\ f.seq \in 0..(SeqSize - 1) /\ f.serial \in Nat /\ f.buf \in Seq(Command)
         /\ NamesOf(f.buf) \subseteq Nat /\ NamesOf(f.buf) \subseteq Cmds
<1>1. f.seq \in 0..(SeqSize - 1) /\ f.serial \in Nat /\ f.buf \in Seq(Command)
  BY DEF Datagram
<1>2. NamesOf(f.buf) \subseteq Cmds
  BY <1>1, CommandType
<1>. QED  BY <1>1, <1>2 DEF Cmds

(* What the pass does to the flags of a queue.                             *)
SameOrder(qu, new) ==
    /\ new.entries = qu.entries /\ new.pack.buf = qu.pack.buf
    /\ new.pack.cmds = qu.pack.cmds /\ new.serial = qu.serial /\ new.seq = qu.seq

LEMMA SameFits ==
  ASSUME NEW qu, NEW new, SameOrder(qu, new), NEW frames, NEW r, NEW dl, NEW k
  PROVE  /\ Fits(qu, frames, r, dl, k) => Fits(new, frames, r, dl, k)
         /\ Packs(qu) => Packs(new)
  BY DEF SameOrder, Fits, QueueFits, FrameFits, Behind, Packs

(* The oldest frames of those.                                             *)
LEMMA FewerFits ==
  ASSUME NEW qu, NEW frames, NEW some, NEW r, NEW dl, NEW k,
         Fits(qu, frames, r, dl, k), DOMAIN some \subseteq DOMAIN frames,
         \A i \in DOMAIN some : some[i] = frames[i]
  PROVE  Fits(qu, some, r, dl, k)
  BY DEF Fits

LEMMA TailFits ==
  ASSUME NEW qu, NEW frames \in Seq(Datagram), frames # <<>>, NEW r, NEW dl, NEW k,
         Fits(qu, frames, r, dl, k)
  PROVE  Fits(qu, Tail(frames), r, dl, k)
<1>. DEFINE rest == Tail(frames)
            L == Len(frames)
<1>1. /\ L \in Nat /\ DOMAIN frames = 1..L
      /\ DOMAIN rest = 1..(L - 1)
      /\ \A i \in 1..(L - 1) : rest[i] = frames[i + 1]
  BY HeadTailProperties, LenProperties, EmptySeq
<1>. HIDE DEF rest, L
<1>2. \A i \in 1..(L - 1) : i + 1 \in 1..L
  BY <1>1
<1>3. \A i, j \in 1..(L - 1) : i < j => i + 1 < j + 1
  BY <1>1
<1>4. /\ QueueFits(qu, r, dl, k)
      /\ \A i \in DOMAIN frames : FrameFits(qu, frames[i], r, dl, k)
      /\ \A i, j \in DOMAIN frames : i < j => InTurn(frames[i], frames[j])
  BY DEF Fits
<1>5. \A i \in DOMAIN rest : FrameFits(qu, rest[i], r, dl, k)
  BY <1>1, <1>2, <1>4
<1>6. ASSUME NEW i \in DOMAIN rest, NEW j \in DOMAIN rest, i < j
      PROVE  InTurn(rest[i], rest[j])
  <2>1. i + 1 \in DOMAIN frames /\ j + 1 \in DOMAIN frames /\ i + 1 < j + 1
    BY <1>1, <1>2, <1>3, <1>6
  <2>2. rest[i] = frames[i + 1] /\ rest[j] = frames[j + 1]
    BY <1>1
  <2>. QED  BY <1>4, <2>1, <2>2
<1>7. Fits(qu, rest, r, dl, k)
  BY <1>4, <1>5, <1>6 DEF Fits
<1>. QED  BY <1>7 DEF rest

(* No frame has the number of the pack, but those that carry it.           *)
Current(qu, frames, r, dl) ==
    /\ \A i \in DOMAIN frames : frames[i].serial = qu.serial => frames[i].buf = qu.pack.buf
    /\ r = qu.serial => NamesOf(qu.pack.buf) \subseteq dl

LEMMA PackedFits ==
  ASSUME NEW qu \in Queue, NEW frames \in Seq(Datagram), NEW r \in Nat, NEW dl \in SUBSET Nat,
         NEW k \in Nat, Fits(qu, frames, r, dl, k), Packs(qu), Covered(qu)
  PROVE  /\ Fits(Packed(qu), frames, r, dl, k) /\ Packs(Packed(qu))
         /\ Covered(Packed(qu)) /\ Current(Packed(qu), frames, r, dl)
<1>. DEFINE new == Packed(qu)
<1>1. /\ new \in Queue /\ new.entries = qu.entries /\ new.pack.cmds <= Len(new.entries)
      /\ qu.pack.cmds # 0 => new = qu
      /\ qu.pack.cmds = 0 => /\ new.seq = Seqnum(qu.seq) /\ new.serial = qu.serial + 1
                             /\ new.pack.buf = SubSeq(qu.entries, 1, new.pack.cmds)
  BY PackedIs DEF Covered
<1>. HIDE DEF new
<1>2. CASE qu.pack.cmds # 0
  <2>1. Current(qu, frames, r, dl)
    BY <1>2 DEF Current, Fits, FrameFits, QueueFits
  <2>. QED  BY <1>1, <1>2, <2>1 DEF new
<1>3. CASE qu.pack.cmds = 0
  <2>1. /\ new.seq = Seqnum(qu.seq) /\ new.serial = qu.serial + 1
        /\ new.pack.buf = SubSeq(qu.entries, 1, new.pack.cmds)
        /\ qu.serial \in Nat /\ new.pack.cmds \in 0..Len(qu.entries)
        /\ qu.entries \in Seq(Command) /\ Len(qu.entries) \in Nat
        /\ DOMAIN qu.entries = 1..Len(qu.entries)
    BY <1>1, <1>3, QueueFacts
  <2>2. Packs(new)
    BY <1>1, <2>1, SplitIs DEF Packs
  <2>3. new.seq = NumberOf(new.serial)
    <3>1. qu.seq = NumberOf(qu.serial)
      BY DEF Fits, QueueFits
    <3>. QED  BY <2>1, <3>1, NumberStep
  <2>4. \A s, names : Behind(qu, s, names) => Behind(new, s, names)
    <3>1. \A i \in DOMAIN qu.entries : ~(i <= qu.pack.cmds)
      BY <1>3, <2>1
    <3>. QED  BY <1>1, <3>1 DEF Behind
  <2>5. r # new.serial /\ r <= new.serial
    <3>1. r <= qu.serial
      BY DEF Fits, QueueFits
    <3>. QED  BY <2>1, <3>1
  <2>6. QueueFits(new, r, dl, k)
    BY <1>1, <2>3, <2>4, <2>5 DEF Fits, QueueFits
  <2>7. ASSUME NEW i \in DOMAIN frames
        PROVE  FrameFits(new, frames[i], r, dl, k) /\ frames[i].serial # new.serial
    <3>1. FrameFits(qu, frames[i], r, dl, k)
      BY DEF Fits
    <3>2. frames[i].serial \in Nat
      BY LenProperties, DatagramType
    <3>3. frames[i].serial <= new.serial /\ frames[i].serial # new.serial
      BY <2>1, <3>1, <3>2 DEF FrameFits
    <3>. QED  BY <2>4, <3>1, <3>3 DEF FrameFits
  <2>8. Fits(new, frames, r, dl, k)
    BY <2>6, <2>7 DEF Fits
  <2>9. Current(new, frames, r, dl)
    BY <2>5, <2>7 DEF Current
  <2>. QED  BY <1>1, <2>2, <2>8, <2>9 DEF new, Covered
<1>. QED  BY <1>2, <1>3

LEMMA FrontNames ==
  ASSUME NEW qu \in Queue, Packs(qu), Covered(qu)
  PROVE  /\ NamesOf(qu.pack.buf) = NamesOf(SubSeq(qu.entries, 1, qu.pack.cmds))
         /\ \A n \in NamesOf(qu.pack.buf) : \E i \in DOMAIN qu.entries :
               i <= qu.pack.cmds /\ n = qu.entries[i].n
<1>1. /\ qu.pack.cmds \in 0..Len(qu.entries) /\ Len(qu.entries) \in Nat
      /\ DOMAIN qu.entries = 1..Len(qu.entries) /\ qu.entries \in Seq(Command)
      /\ DOMAIN qu.pack.buf = 1..qu.pack.cmds
  BY QueueFacts DEF Covered, Packs
<1>2. \A i \in 1..qu.pack.cmds : /\ i \in DOMAIN qu.entries /\ i <= qu.pack.cmds
                                 /\ qu.pack.buf[i] = qu.entries[i]
  BY <1>1 DEF Packs
<1>3. /\ DOMAIN SubSeq(qu.entries, 1, qu.pack.cmds) = 1..qu.pack.cmds
      /\ \A i \in 1..qu.pack.cmds : SubSeq(qu.entries, 1, qu.pack.cmds)[i] = qu.entries[i]
  BY <1>1, SplitIs
<1>4. NamesOf(qu.pack.buf) = NamesOf(SubSeq(qu.entries, 1, qu.pack.cmds))
  BY <1>1, <1>2, <1>3 DEF NamesOf
<1>. QED  BY <1>1, <1>2, <1>4 DEF NamesOf

LEMMA SentFits ==
  ASSUME NEW qu \in Queue, NEW frames \in Seq(Datagram), NEW r \in Nat, NEW dl \in SUBSET Nat,
         NEW k \in Nat, Fits(qu, frames, r, dl, k), Packs(qu), Covered(qu),
         Current(qu, frames, r, dl)
  PROVE  Fits(qu, Append(frames, Frame(qu)), r, dl, k)
<1>. DEFINE f == Frame(qu)
            L == Len(frames)
            new == Append(frames, f)
<1>1. f.seq = qu.seq /\ f.serial = qu.serial /\ f.buf = qu.pack.buf
  BY DEF Frame
<1>2. /\ L \in Nat /\ DOMAIN frames = 1..L
      /\ \A i \in 1..L : frames[i] \in Datagram
  BY LenProperties
<1>3. /\ DOMAIN new = 1..(L + 1) /\ new[L + 1] = f
      /\ \A i \in 1..L : new[i] = frames[i]
  BY <1>2, AppendProperties, LenProperties, FrameType
<1>. HIDE DEF f, L, new
<1>4. /\ QueueFits(qu, r, dl, k)
      /\ \A i \in 1..L : FrameFits(qu, frames[i], r, dl, k)
      /\ \A i, j \in 1..L : i < j => InTurn(frames[i], frames[j])
  BY <1>2 DEF Fits
<1>5. /\ DOMAIN qu.entries = 1..Len(qu.entries) /\ Len(qu.entries) \in Nat
      /\ \A i \in 1..Len(qu.entries) : qu.entries[i].n \in Nat
      /\ qu.serial \in Nat /\ qu.pack.cmds \in Nat
      /\ DOMAIN qu.pack.buf = 1..qu.pack.cmds
      /\ qu.pack.cmds <= Len(qu.entries)
  BY QueueFacts DEF Packs, Covered
<1>6. /\ \A n \in NamesOf(qu.pack.buf) : \E i \in DOMAIN qu.entries :
            i <= qu.pack.cmds /\ n = qu.entries[i].n
  BY FrontNames
<1>7. FrameFits(qu, f, r, dl, k)
  <2>1. r <= f.serial /\ f.serial <= qu.serial /\ f.seq = NumberOf(f.serial)
    BY <1>1, <1>4, <1>5 DEF QueueFits
  <2>2. Rising(f.buf)
    <3>1. \A i \in 1..qu.pack.cmds : i \in DOMAIN qu.entries /\ f.buf[i] = qu.entries[i]
      BY <1>1, <1>5 DEF Packs
    <3>. QED  BY <1>1, <1>4, <1>5, <3>1 DEF Rising, QueueFits
  <2>3. NamesOf(f.buf) \subseteq 1..k
    <3>1. NamesOf(qu.entries) \subseteq 1..k
      BY <1>4 DEF QueueFits
    <3>. QED  BY <1>1, <1>6, <3>1 DEF NamesOf
  <2>4. Behind(qu, f.serial, NamesOf(f.buf))
    <3>1. SUFFICES ASSUME NEW n \in NamesOf(f.buf), NEW i \in DOMAIN qu.entries,
                          ~(i <= qu.pack.cmds)
                   PROVE  n < qu.entries[i].n
      BY <1>1 DEF Behind
    <3>2. PICK j \in DOMAIN qu.entries : j <= qu.pack.cmds /\ n = qu.entries[j].n
      BY <1>1, <1>6
    <3>3. j < i
      BY <1>5, <3>1, <3>2
    <3>. QED  BY <1>4, <3>2, <3>3 DEF QueueFits, Rising
  <2>5. f.serial = r => NamesOf(f.buf) \subseteq dl
    BY <1>1 DEF Current
  <2>6. ASSUME f.serial > r
        PROVE  Below(dl, NamesOf(f.buf))
    <3>1. SUFFICES ASSUME NEW m \in dl, NEW n \in NamesOf(f.buf)
                   PROVE  m < n
      BY DEF Below
    <3>2. PICK j \in DOMAIN qu.entries : j <= qu.pack.cmds /\ n = qu.entries[j].n
      BY <1>1, <1>6
    <3>3. r # qu.serial
      BY <1>1, <1>5, <2>6
    <3>. QED  BY <1>4, <3>2, <3>3 DEF QueueFits, Behind
  <2>. QED  BY <1>1, <2>1, <2>2, <2>3, <2>4, <2>5, <2>6 DEF FrameFits
<1>8. ASSUME NEW i \in 1..L
      PROVE  InTurn(frames[i], f)
  <2>1. FrameFits(qu, frames[i], r, dl, k)
    BY <1>4
  <2>2. frames[i].serial = qu.serial => frames[i].buf = qu.pack.buf
    BY <1>2 DEF Current
  <2>3. ASSUME frames[i].serial < qu.serial
        PROVE  Below(NamesOf(frames[i].buf), NamesOf(qu.pack.buf))
    <3>1. SUFFICES ASSUME NEW m \in NamesOf(frames[i].buf), NEW n \in NamesOf(qu.pack.buf)
                   PROVE  m < n
      BY DEF Below
    <3>2. PICK j \in DOMAIN qu.entries : j <= qu.pack.cmds /\ n = qu.entries[j].n
      BY <1>6
    <3>3. frames[i].serial # qu.serial
      BY <1>2, <1>5, <2>3, DatagramType
    <3>. QED  BY <2>1, <3>2, <3>3 DEF FrameFits, Behind
  <2>. QED  BY <1>1, <2>1, <2>2, <2>3 DEF InTurn, FrameFits
<1>9. \A i \in 1..(L + 1) : i \in 1..L \/ i = L + 1
  BY <1>2
<1>10. \A i \in DOMAIN new : FrameFits(qu, new[i], r, dl, k)
  BY <1>3, <1>4, <1>7, <1>9
<1>11. ASSUME NEW i \in DOMAIN new, NEW j \in DOMAIN new, i < j
       PROVE  InTurn(new[i], new[j])
  <2>1. i \in 1..L
    BY <1>2, <1>3, <1>11
  <2>2. CASE j \in 1..L
    BY <1>3, <1>4, <1>11, <2>1, <2>2
  <2>3. CASE j = L + 1
    BY <1>3, <1>8, <2>1, <2>3
  <2>. QED  BY <1>3, <1>9, <2>2, <2>3
<1>12. Fits(qu, new, r, dl, k)
  BY <1>4, <1>10, <1>11 DEF Fits
<1>. QED  BY <1>12 DEF new, f

LEMMA PoppedFits ==
  ASSUME NEW qu \in Queue, NEW new \in Queue, Covered(qu),
         new.entries = SubSeq(qu.entries, qu.pack.cmds + 1, Len(qu.entries)),
         new.pack.cmds = 0, Len(new.pack.buf) = 0,
         new.serial = qu.serial, new.seq = qu.seq,
         NEW frames, NEW r, NEW dl, NEW k, Fits(qu, frames, r, dl, k)
  PROVE  Fits(new, frames, r, dl, k) /\ Packs(new) /\ Covered(new)
<1>. DEFINE c == qu.pack.cmds
            L == Len(qu.entries)
<1>1. /\ c \in 0..L /\ L \in Nat /\ DOMAIN qu.entries = 1..L
      /\ qu.entries \in Seq(Command)
  BY QueueFacts DEF Covered
<1>2. /\ DOMAIN new.entries = 1..(L - c)
      /\ \A i \in 1..(L - c) : new.entries[i] = qu.entries[i + c]
  BY <1>1, SplitIs
<1>. HIDE DEF c, L
<1>3. \A i \in 1..(L - c) : i + c \in 1..L /\ ~(i + c <= c)
  BY <1>1
<1>4. Packs(new) /\ Covered(new)
  <2>. DEFINE len == Len(new.entries)
  <2>1. len \in Nat
    BY QueueFacts
  <2>2. \A i \in 1..new.pack.cmds : FALSE
    BY <1>1
  <2>3. new.pack.cmds = 0 /\ Len(new.pack.buf) = new.pack.cmds
    OBVIOUS
  <2>4. Packs(new)
    BY <2>2, <2>3 DEF Packs
  <2>. HIDE DEF len
  <2>5. new.pack.cmds <= len
    BY <2>1, <2>3
  <2>6. Covered(new)
    BY <2>5 DEF Covered, len
  <2>. QED  BY <2>4, <2>6
<1>5. \A s, names : Behind(qu, s, names) => Behind(new, s, names)
  BY <1>1, <1>2, <1>3 DEF Behind, c
<1>6. Rising(qu.entries) => Rising(new.entries)
  <2>1. \A i, j \in 1..(L - c) : i < j => i + c < j + c
    BY <1>1
  <2>. QED  BY <1>1, <1>2, <1>3, <2>1 DEF Rising
<1>7. NamesOf(new.entries) \subseteq NamesOf(qu.entries)
  BY <1>1, <1>2, <1>3 DEF NamesOf
<1>8. QueueFits(new, r, dl, k)
  BY <1>5, <1>6, <1>7 DEF Fits, QueueFits
<1>9. ASSUME NEW i \in DOMAIN frames
      PROVE  FrameFits(new, frames[i], r, dl, k)
  BY <1>5 DEF Fits, FrameFits
<1>. QED  BY <1>4, <1>8, <1>9 DEF Fits

(***************************************************************************)
(* What a pass leaves, beside the frames that are in the network           *)
(***************************************************************************)

PassFits(old, p, r, dl, k) ==
    /\ p \in PassResult /\ Covered(p.queue) /\ Packs(p.queue)
    /\ Fits(p.queue, old \o p.frames, r, dl, k)

LEMMA ConcatIs ==
  ASSUME NEW old \in Seq(Datagram), NEW frames \in Seq(Datagram)
  PROVE  /\ old \o frames \in Seq(Datagram) /\ old \o <<>> = old
         /\ \A f \in Datagram : old \o Append(frames, f) = Append(old \o frames, f)
<1>1. old \o frames \in Seq(Datagram) /\ old \o <<>> = old
  BY ConcatProperties, ConcatEmptySeq
<1>2. ASSUME NEW f \in Datagram
      PROVE  old \o Append(frames, f) = Append(old \o frames, f)
  <2>1. /\ Append(frames, f) = frames \o <<f>>
        /\ Append(old \o frames, f) = (old \o frames) \o <<f>>
    BY <1>1, AppendIsConcat
  <2>2. <<f>> \in Seq(Datagram)
    OBVIOUS
  <2>3. old \o (frames \o <<f>>) = (old \o frames) \o <<f>>
    BY <2>2, ConcatAssociative
  <2>. QED  BY <2>1, <2>3
<1>. QED  BY <1>1, <1>2

LEMMA FlushPackFits ==
  ASSUME NEW old \in Seq(Datagram), NEW before, NEW r \in Nat, NEW dl \in SUBSET Nat,
         NEW k \in Nat, PassFits(old, before, r, dl, k), NEW ok \in Nat
  PROVE  PassFits(old, FlushPack(before, ok), r, dl, k)
<1>. DEFINE qu == Packed(before.queue)
            after == FlushPack(before, ok)
            sent1 == old \o before.frames
<1>1. /\ before \in PassResult /\ Covered(before.queue) /\ Packs(before.queue)
      /\ Fits(before.queue, sent1, r, dl, k)
      /\ before.queue \in Queue /\ before.frames \in Seq(Datagram)
  BY DEF PassFits, PassResult
<1>2. sent1 \in Seq(Datagram)
  BY <1>1, ConcatIs
<1>3. after \in PassResult /\ Covered(after.queue)
  BY <1>1, FlushPackIs
<1>4. qu \in Queue
  BY <1>1, PackedIs DEF Covered
<1>. HIDE DEF sent1
<1>5. Fits(qu, sent1, r, dl, k) /\ Packs(qu) /\ Covered(qu) /\ Current(qu, sent1, r, dl)
  BY <1>1, <1>2, PackedFits
<1>6. CASE ok = 0
  <2>1. after = Pass(Refused(qu), before.frames, before.packedDone, Off)
    BY <1>6 DEF FlushPack
  <2>. HIDE DEF qu, after
  <2>2. after.queue = Refused(qu) /\ after.frames = before.frames
    BY <2>1 DEF Pass
  <2>3. SameOrder(qu, Refused(qu))
    BY <1>4, FlagsType DEF SameOrder
  <2>4. Fits(after.queue, sent1, r, dl, k) /\ Packs(after.queue)
    BY <1>5, <2>2, <2>3, SameFits
  <2>. QED  BY <1>3, <2>2, <2>4 DEF PassFits, sent1, after
<1>7. CASE ok # 0
  <2>. DEFINE told == before.packedDone \cup NamesOf(SubSeq(qu.entries, 1, qu.pack.cmds))
              frames == Append(before.frames, Frame(qu))
  <2>1. after = Pass(Flushed(qu), frames, told, Off)
    BY <1>7 DEF FlushPack
  <2>2. Frame(qu) \in Datagram
    BY <1>4, FrameType
  <2>. HIDE DEF qu, after, told
  <2>3. after.queue = Flushed(qu) /\ after.frames = frames
    BY <2>1 DEF Pass
  <2>4. Fits(qu, Append(sent1, Frame(qu)), r, dl, k)
    BY <1>2, <1>4, <1>5, SentFits
  <2>5. old \o frames = Append(sent1, Frame(qu))
    BY <1>1, <2>2, ConcatIs DEF sent1
  <2>6. /\ Flushed(qu) \in Queue
        /\ Flushed(qu).entries = SubSeq(qu.entries, qu.pack.cmds + 1, Len(qu.entries))
        /\ Flushed(qu).pack.cmds = 0
        /\ Flushed(qu).serial = qu.serial /\ Flushed(qu).seq = qu.seq
        /\ Len(Flushed(qu).pack.buf) = 0
    BY <1>4, <1>5, FlushedIs
  <2>. HIDE DEF frames
  <2>7. Fits(Flushed(qu), old \o frames, r, dl, k) /\ Packs(Flushed(qu))
    BY <1>4, <1>5, <2>4, <2>5, <2>6, PoppedFits
  <2>. QED  BY <1>3, <2>3, <2>7 DEF PassFits, after
<1>. QED  BY <1>6, <1>7

LEMMA SendPacksFits ==
  ASSUME NEW old \in Seq(Datagram), NEW qu \in Queue, NEW r \in Nat, NEW dl \in SUBSET Nat,
         NEW k \in Nat, Fits(qu, old, r, dl, k), Packs(qu), Covered(qu), NEW ok \in 0..MaxCmds
  PROVE  PassFits(old, SendPacks(qu, ok), r, dl, k)
<1>. DEFINE N == MaxCmds + 1
<1>1. PICK burst \in [0..N -> CoveredPass] :
            /\ burst[0] = Pass(qu, <<>>, {}, Off)
            /\ \A j \in 1..N : burst[j] = BurstStep(j, burst[j - 1], ok)
            /\ SendPacks(qu, ok) = burst[N]
  BY BurstIs
<1>2. N \in Nat /\ ok \in Nat /\ N \in 0..N /\ 0 \in 0..N
  BY BoundsAssumption
<1>3. PassFits(old, burst[0], r, dl, k)
  <2>. DEFINE none == <<>>
  <2>1. burst[0] \in CoveredPass
    BY <1>2
  <2>2. burst[0].queue = qu /\ burst[0].frames = none
    BY <1>1 DEF Pass
  <2>3. old \o none = old
    BY ConcatEmptySeq
  <2>. HIDE DEF none
  <2>. QED  BY <2>1, <2>2, <2>3 DEF PassFits, CoveredPass
<1>4. ASSUME NEW j \in 1..N, PassFits(old, burst[j - 1], r, dl, k)
      PROVE  PassFits(old, burst[j], r, dl, k)
  <2>. DEFINE p == burst[j - 1]
  <2>1. burst[j] = BurstStep(j, p, ok)
    BY <1>1
  <2>. HIDE DEF p
  <2>2. CASE p.queue.entries = <<>> \/ j > ok + 1
    BY <1>4, <2>1, <2>2 DEF BurstStep, p
  <2>3. CASE ~(p.queue.entries = <<>> \/ j > ok + 1)
    <3>1. burst[j] = FlushPack(p, ok + 1 - j)
      BY <2>1, <2>3 DEF BurstStep
    <3>2. ok + 1 - j \in Nat
      BY <1>2, <2>3
    <3>3. PassFits(old, p, r, dl, k)
      BY <1>4 DEF p
    <3>. QED  BY <3>1, <3>2, <3>3, FlushPackFits
  <2>. QED  BY <2>2, <2>3
<1>. DEFINE T == {j \in 0..N : PassFits(old, burst[j], r, dl, k)}
<1>5. 0 \in T
  BY <1>2, <1>3
<1>6. \A j \in 1..N : j - 1 \in T => j \in T
  BY <1>4
<1>. HIDE DEF T, N
<1>7. \A j \in 0..N : j \in T
  BY <1>2, <1>5, <1>6, CountUp
<1>. QED  BY <1>1, <1>2, <1>7 DEF T

LEMMA SendPackFits ==
  ASSUME NEW q \in Queues, NEW old \in Seq(Datagram), NEW qu \in Queue, NEW r \in Nat,
         NEW dl \in SUBSET Nat, NEW k \in Nat, Fits(qu, old, r, dl, k), Packs(qu), Covered(qu),
         Current(qu, old, r, dl), NEW ok \in 0..MaxCmds
  PROVE  LET p == SendPack(q, qu, ok)
         IN  Fits(p.queue, old \o p.frames, r, dl, k) /\ Packs(p.queue)
<1>. DEFINE p == SendPack(q, qu, ok)
            none == <<>>
<1>1. CASE ok = 0
  <2>1. p = Pass(Refused(qu), none, {}, Off)
    BY <1>1 DEF SendPack
  <2>2. old \o none = old
    BY ConcatEmptySeq
  <2>. HIDE DEF p, none
  <2>3. p.queue = Refused(qu) /\ p.frames = none
    BY <2>1 DEF Pass
  <2>4. SameOrder(qu, Refused(qu))
    BY FlagsType DEF SameOrder
  <2>5. Fits(p.queue, old, r, dl, k) /\ Packs(p.queue)
    BY <2>3, <2>4, SameFits
  <2>. QED  BY <2>2, <2>3, <2>5 DEF p
<1>2. CASE ok # 0
  <2>. DEFINE new == [qu EXCEPT !.pack.waiting = TRUE, !.refused = FALSE]
              frames == <<Frame(qu)>>
  <2>1. p = Pass(new, frames, {}, Info[q].ackTimeout)
    BY <1>2 DEF SendPack
  <2>2. SameOrder(qu, new)
    BY DEF SameOrder, Queue, Pack
  <2>3. old \o frames = Append(old, Frame(qu))
    BY FrameType, AppendIsConcat
  <2>. HIDE DEF p, new, frames
  <2>4. p.queue = new /\ p.frames = frames
    BY <2>1 DEF Pass
  <2>5. Fits(qu, Append(old, Frame(qu)), r, dl, k)
    BY SentFits
  <2>6. Fits(new, Append(old, Frame(qu)), r, dl, k) /\ Packs(new)
    BY <2>2, <2>5, SameFits
  <2>. QED  BY <2>3, <2>4, <2>6 DEF p
<1>. QED  BY <1>1, <1>2

LEMMA CheckTxQueueFits ==
  ASSUME NEW q \in Queues, NEW old \in Seq(Datagram), NEW qu \in Queue, NEW isUp \in BOOLEAN,
         NEW r \in Nat, NEW dl \in SUBSET Nat, NEW k \in Nat, Sane(q, qu, isUp),
         Fits(qu, old, r, dl, k), isUp => Packs(qu), NEW ok \in 0..MaxCmds
  PROVE  LET p == CheckTxQueue(q, qu, ok)
         IN  Fits(p.queue, old \o p.frames, r, dl, k) /\ (isUp => Packs(p.queue))
<1>. DEFINE p == CheckTxQueue(q, qu, ok)
            none == <<>>
<1>0. old \o none = old
  BY ConcatEmptySeq
<1>1. CASE qu.entries = <<>>
  <2>. DEFINE new == [qu EXCEPT !.refused = FALSE]
  <2>1. p = Pass(new, none, {}, Off)
    BY <1>1 DEF CheckTxQueue
  <2>2. SameOrder(qu, new)
    BY DEF SameOrder, Queue
  <2>. HIDE DEF p, new, none
  <2>3. p.queue = new /\ p.frames = none
    BY <2>1 DEF Pass
  <2>4. Fits(new, old, r, dl, k) /\ (isUp => Packs(new))
    BY <2>2, SameFits
  <2>5. Fits(p.queue, old \o p.frames, r, dl, k) /\ (isUp => Packs(p.queue))
    BY <1>0, <2>3, <2>4
  <2>. QED  BY <2>5 DEF p
<1>2. CASE qu.entries # <<>> /\ AckPending(q, qu)
  <2>1. p = Pass(qu, none, {}, Info[q].ackTimeout - qu.pack.age)
    BY <1>2 DEF CheckTxQueue
  <2>. HIDE DEF p, none
  <2>2. p.queue = qu /\ p.frames = none
    BY <2>1 DEF Pass
  <2>. QED  BY <1>0, <2>2 DEF p
<1>3. CASE qu.entries # <<>> /\ ~AckPending(q, qu)
  <2>1. isUp /\ Covered(qu) /\ Packs(qu)
    BY <1>3 DEF Sane
  <2>2. CASE WithAck(q)
    <3>. DEFINE e == Expire(qu)
                out == Packed(e)
    <3>1. p = SendPack(q, out, ok)
      BY <1>3, <2>2 DEF CheckTxQueue
    <3>2. e \in Queue /\ SameOrder(qu, e) /\ Covered(e)
      BY <2>1, FlagsType DEF SameOrder, Covered
    <3>3. Fits(e, old, r, dl, k) /\ Packs(e)
      BY <2>1, <3>2, SameFits
    <3>. HIDE DEF e
    <3>4. out \in Queue
      BY <3>2, PackedIs DEF Covered
    <3>5. Fits(out, old, r, dl, k) /\ Packs(out) /\ Covered(out) /\ Current(out, old, r, dl)
      BY <3>2, <3>3, PackedFits
    <3>. HIDE DEF out, p
    <3>6. Fits(p.queue, old \o p.frames, r, dl, k) /\ Packs(p.queue)
      BY <3>1, <3>4, <3>5, SendPackFits
    <3>. QED  BY <3>6 DEF p
  <2>3. CASE ~WithAck(q)
    <3>1. p = SendPacks(qu, ok)
      BY <1>3, <2>3 DEF CheckTxQueue
    <3>. HIDE DEF p
    <3>2. PassFits(old, p, r, dl, k)
      BY <2>1, <3>1, SendPacksFits
    <3>. QED  BY <3>2 DEF PassFits, p
  <2>. QED  BY <2>2, <2>3
<1>. QED  BY <1>1, <1>2, <1>3

(***************************************************************************)
(* What the sender's handlers do to the invariant                          *)
(***************************************************************************)

LEMMA ContainsIs ==
  ASSUME NEW s \in Seq(Cmds), NEW n
  PROVE  Contains(s, n) <=> \E i \in DOMAIN s : s[i] = n
  BY LenProperties DEF Contains

LEMMA EndsType ==
  ASSUME IInv, NEW q \in Queues
  PROVE  /\ tx[q] \in Queue /\ data[q] \in Seq(Datagram) /\ acks[q] \in Seq(Datagram)
         /\ rserial[q] \in Nat /\ delivered[q] \in Seq(Cmds)
         /\ DeliveredIn(q) \in SUBSET Nat /\ sent \in Nat
         /\ \A n : Contains(delivered[q], n) <=> n \in DeliveredIn(q)
<1>1. /\ tx[q] \in Queue /\ data[q] \in Seq(Datagram) /\ acks[q] \in Seq(Datagram)
      /\ rserial[q] \in Nat /\ delivered[q] \in Seq(Cmds) /\ sent \in 0..MaxCmds
  BY DEF IInv, TypeOK
<1>2. /\ DOMAIN delivered[q] = 1..Len(delivered[q])
      /\ \A i \in DOMAIN delivered[q] : delivered[q][i] \in Cmds
  BY <1>1, LenProperties
<1>3. DeliveredIn(q) \in SUBSET Nat
  BY <1>2 DEF DeliveredIn, Cmds
<1>4. \A n : Contains(delivered[q], n) <=> n \in DeliveredIn(q)
  BY <1>1, ContainsIs DEF DeliveredIn
<1>5. sent \in Nat
  BY <1>1, BoundsAssumption
<1>. QED  BY <1>1, <1>3, <1>4, <1>5

LEMMA PutFits ==
  ASSUME NEW qu, NEW old \in Seq(Datagram), NEW frames \in Seq(Datagram), NEW r, NEW dl, NEW k,
         Fits(qu, old \o frames, r, dl, k)
  PROVE  Fits(qu, Put(old, frames), r, dl, k)
<1>1. CASE Put(old, frames) = old \o frames
  BY <1>1
<1>2. CASE Put(old, frames) = old
  <2>. DEFINE both == old \o frames
  <2>1. /\ DOMAIN old = 1..Len(old) /\ Len(old) \in Nat /\ Len(frames) \in Nat
        /\ both \in Seq(Datagram) /\ Len(both) = Len(old) + Len(frames)
        /\ \A i \in 1..Len(old) : both[i] = old[i]
    BY ConcatProperties, LenProperties
  <2>2. DOMAIN both = 1..Len(both)
    BY <2>1, LenProperties
  <2>3. Fits(qu, both, r, dl, k)
    OBVIOUS
  <2>. HIDE DEF both
  <2>4. DOMAIN old \subseteq DOMAIN both
    BY <2>1, <2>2
  <2>5. \A i \in DOMAIN old : old[i] = both[i]
    BY <2>1
  <2>6. Fits(qu, old, r, dl, k)
    BY <2>3, <2>4, <2>5, FewerFits
  <2>. QED  BY <1>2, <2>6
<1>. QED  BY <1>1, <1>2 DEF Put

QueuesFit(t, k) ==
    \A q \in Queues : /\ Fits(t[q], data[q], rserial[q], DeliveredIn(q), k)
                      /\ up => Packs(t[q])

LEMMA CheckFits ==
  ASSUME IInv, NEW t \in [Queues -> Queue], NEW d, NEW k \in Nat,
         CheckTxQueues(t, d), \A q \in Queues : Sane(q, t[q], up), QueuesFit(t, k)
  PROVE  \A q \in Queues :
            /\ Fits(tx'[q], data'[q], rserial[q], DeliveredIn(q), k)
            /\ up => Packs(tx'[q])
<1>1. PICK ok \in Budgets :
        /\ tx' = [q \in Queues |-> [p \in Queues |-> CheckTxQueue(p, t[p], ok[p])][q].queue]
        /\ data' = [q \in Queues |->
                      Put(data[q], [p \in Queues |-> CheckTxQueue(p, t[p], ok[p])][q].frames)]
  BY DEF CheckTxQueues
<1>2. ASSUME NEW q \in Queues
      PROVE  ok[q] \in 0..MaxCmds
  BY BoundsAssumption DEF Budgets
<1>3. SUFFICES ASSUME NEW q \in Queues
               PROVE  /\ Fits(tx'[q], data'[q], rserial[q], DeliveredIn(q), k)
                      /\ up => Packs(tx'[q])
  OBVIOUS
<1>. DEFINE p == CheckTxQueue(q, t[q], ok[q])
            r == rserial[q]
            dl == DeliveredIn(q)
            old == data[q]
            isUp == up
<1>4. tx'[q] = p.queue /\ data'[q] = Put(old, p.frames)
  BY <1>1
<1>5. /\ old \in Seq(Datagram) /\ r \in Nat /\ dl \in SUBSET Nat /\ isUp \in BOOLEAN
      /\ t[q] \in Queue /\ ok[q] \in 0..MaxCmds
  BY <1>2, EndsType DEF IInv, TypeOK
<1>6. Sane(q, t[q], isUp) /\ Fits(t[q], old, r, dl, k) /\ (isUp => Packs(t[q]))
  BY DEF QueuesFit
<1>. HIDE DEF r, dl, old, isUp
<1>7. Fits(p.queue, old \o p.frames, r, dl, k) /\ (isUp => Packs(p.queue))
  BY <1>5, <1>6, CheckTxQueueFits
<1>8. p.frames \in Seq(Datagram)
  <2>1. Distinct(t[q].entries)
    <3>1. Rising(t[q].entries)
      BY <1>6 DEF Fits, QueueFits
    <3>2. /\ DOMAIN t[q].entries = 1..Len(t[q].entries) /\ Len(t[q].entries) \in Nat
          /\ \A i \in DOMAIN t[q].entries : t[q].entries[i].n \in Nat
      BY <1>5, QueueFacts
    <3>. QED  BY <3>1, <3>2 DEF Rising, Distinct
  <2>2. PassSound(q, t[q], ok[q], isUp, p)
    BY <1>5, <1>6, <2>1, CheckTxQueueSound
  <2>. HIDE DEF p
  <2>. QED  BY <2>2 DEF PassSound, PassResult
<1>. HIDE DEF p
<1>9. Fits(p.queue, Put(old, p.frames), r, dl, k)
  BY <1>5, <1>7, <1>8, PutFits
<1>. QED  BY <1>4, <1>7, <1>9 DEF r, dl, old, isUp

(* Frames, and acknowledgements, that were in the network before.          *)
From(old, new) == \A i \in DOMAIN new : \E j \in DOMAIN old : new[i] = old[j]
FewerAcks == \A q \in Queues : From(acks[q], acks'[q])

LEMMA CheckEnds ==
  ASSUME IInv, \A q \in Queues : EndsFit(q), NEW t \in [Queues -> Queue], NEW d,
         sent' \in Nat, CheckTxQueues(t, d), \A q \in Queues : Sane(q, t[q], up),
         QueuesFit(t, sent'), FewerAcks, UNCHANGED <<up, receiver>>, Watch
  PROVE  \A q \in Queues : EndsFit(q)'
<1>. DEFINE k == sent'
<1>1. k \in Nat /\ QueuesFit(t, k)
  OBVIOUS
<1>. HIDE DEF k
<1>2. ASSUME NEW q \in Queues
      PROVE  /\ Fits(tx'[q], data'[q], rserial[q], DeliveredIn(q), k)
             /\ up => Packs(tx'[q])
  BY <1>1, CheckFits
<1>3. ASSUME NEW q \in Queues
      PROVE  EndsFit(q)'
  <2>1. /\ rserial' = rserial /\ recv' = recv /\ delivered' = delivered /\ up' = up
        /\ EndsFit(q)
    BY DEF receiver
  <2>2. DeliveredIn(q)' = DeliveredIn(q)
    BY <2>1 DEF DeliveredIn
  <2>3. synced'[q] => synced[q] /\ InWindow(q)'
    BY DEF Watch
  <2>4. AcksFit(q)'
    BY <2>1, <2>3 DEF FewerAcks, From, EndsFit, AcksFit
  <2>5. Fits(tx[q], data[q], rserial[q], DeliveredIn(q), sent)'
    BY <1>2, <2>1, <2>2 DEF k
  <2>6. (up => Packs(tx[q]))'
    BY <1>2, <2>1
  <2>. QED  BY <2>1, <2>3, <2>4, <2>5, <2>6 DEF EndsFit
<1>. QED  BY <1>3

(* What was told ACK_RECEIVED, with what was delivered.                    *)
Heard(d) == \A n \in Cmds : d[n] = <<"ACK_RECEIVED">> =>
                \E q \in Queues : n \in DeliveredIn(q)

LEMMA HeardIs ==
  ASSUME IInv
  PROVE  AckSound <=> ((\A q \in Queues : synced[q]) => Heard(done))
  BY EndsType DEF AckSound, Heard

LEMMA NotifyHeard ==
  ASSUME NEW d \in DoneType, NEW names, NEW status \in {"PACKED", "CANCELED"},
         NEW n \in Cmds, Notify(d, names, status)[n] = <<"ACK_RECEIVED">>
  PROVE  d[n] = <<"ACK_RECEIVED">>
<1>1. d[n] \in Seq(FinalStatus) /\ status \in FinalStatus
  BY DEF DoneType, FinalStatus
<1>2. CASE n \notin names
  BY <1>2 DEF Notify
<1>3. CASE n \in names
  <2>. DEFINE one == <<"ACK_RECEIVED">>
              m == Len(d[n])
  <2>1. Append(d[n], status) = one
    BY <1>3 DEF Notify
  <2>2. Len(one) = 1 /\ one[1] = "ACK_RECEIVED"
    OBVIOUS
  <2>3. m \in Nat /\ Len(Append(d[n], status)) = m + 1 /\ Append(d[n], status)[m + 1] = status
    BY <1>1, AppendProperties, LenProperties
  <2>. HIDE DEF one, m
  <2>4. m = 0
    BY <2>1, <2>2, <2>3
  <2>5. status = "ACK_RECEIVED"
    BY <2>1, <2>2, <2>3, <2>4
  <2>. QED  BY <2>5
<1>. QED  BY <1>2, <1>3

LEMMA PackedHeard ==
  ASSUME NEW t, NEW d \in DoneType, CheckTxQueues(t, d), Heard(d)
  PROVE  Heard(done')
<1>1. PICK names : done' = Notify(d, names, "PACKED")
  BY DEF CheckTxQueues
<1>2. \A n \in Cmds : done'[n] = <<"ACK_RECEIVED">> => d[n] = <<"ACK_RECEIVED">>
  BY <1>1, NotifyHeard
<1>. QED  BY <1>2 DEF Heard

LEMMA AckSoundKept ==
  ASSUME IInv, IInv', AckSound, \A q \in Queues : synced'[q] => synced[q],
         Heard(done) => Heard(done'),
         \A q \in Queues : DeliveredIn(q) \subseteq DeliveredIn(q)'
  PROVE  AckSound'
<1>1. ASSUME \A q \in Queues : synced'[q]
      PROVE  Heard(done)'
  <2>1. Heard(done')
    BY <1>1, HeardIs
  <2>. QED  BY <2>1 DEF Heard
<1>2. AckSound' <=> ((\A q \in Queues : synced'[q]) => Heard(done)')
  <2>1. ASSUME NEW q \in Queues
        PROVE  \A n : Contains(delivered'[q], n) <=> n \in DeliveredIn(q)'
    <3>1. delivered'[q] \in Seq(Cmds)
      BY DEF IInv, TypeOK
    <3>. QED  BY <3>1, ContainsIs DEF DeliveredIn
  <2>. QED  BY <2>1 DEF AckSound, Heard
<1>. QED  BY <1>1, <1>2

LEMMA AppendFits ==
  ASSUME NEW qu \in Queue, NEW new \in Queue, NEW c \in Command, NEW k \in Nat, c.n = k + 1,
         new.entries = Append(qu.entries, c), new.pack = qu.pack,
         new.serial = qu.serial, new.seq = qu.seq, Covered(qu),
         NEW frames, NEW r, NEW dl, Fits(qu, frames, r, dl, k)
  PROVE  Fits(new, frames, r, dl, k + 1) /\ (Packs(qu) => Packs(new))
<1>. DEFINE es == qu.entries
            L == Len(es)
<1>1. /\ es \in Seq(Command) /\ L \in Nat /\ DOMAIN es = 1..L
      /\ \A i \in 1..L : es[i].n \in Nat
      /\ qu.pack.cmds \in 0..L
  BY QueueFacts DEF Covered
<1>2. /\ DOMAIN new.entries = 1..(L + 1) /\ new.entries[L + 1] = c
      /\ \A i \in 1..L : new.entries[i] = es[i]
  BY <1>1, AppendProperties, LenProperties
<1>3. \A i \in 1..(L + 1) : i \in 1..L \/ i = L + 1
  BY <1>1
<1>4. 1..k \subseteq 1..(k + 1) /\ k + 1 \in 1..(k + 1) /\ \A n \in 1..k : n < k + 1
  OBVIOUS
<1>5. QueueFits(qu, r, dl, k)
  BY DEF Fits
<1>6. \A n \in NamesOf(es) : n \in 1..k
  BY <1>5 DEF QueueFits
<1>7. \A i \in 1..L : es[i].n \in 1..k
  BY <1>1, <1>6 DEF NamesOf
<1>. HIDE DEF L
<1>8. Packs(qu) => Packs(new)
  <2>1. \A i \in 1..qu.pack.cmds : new.entries[i] = es[i]
    BY <1>1, <1>2
  <2>. QED  BY <2>1 DEF Packs
<1>9. ASSUME NEW s, NEW names \in SUBSET (1..k), Behind(qu, s, names)
      PROVE  Behind(new, s, names)
  <2>1. SUFFICES ASSUME NEW n \in names, NEW i \in 1..(L + 1)
                 PROVE  n < new.entries[i].n \/ (i <= new.pack.cmds /\ s = new.serial)
    BY <1>2 DEF Behind
  <2>2. CASE i \in 1..L
    BY <1>1, <1>2, <1>9, <2>2 DEF Behind
  <2>3. CASE i = L + 1
    BY <1>2, <1>4, <2>3
  <2>. QED  BY <1>3, <2>2, <2>3
<1>10. Rising(new.entries)
  <2>1. SUFFICES ASSUME NEW i \in 1..(L + 1), NEW j \in 1..(L + 1), i < j
                 PROVE  new.entries[i].n < new.entries[j].n
    BY <1>2 DEF Rising
  <2>2. i \in 1..L
    BY <1>1, <2>1
  <2>3. CASE j \in 1..L
    BY <1>1, <1>2, <1>5, <2>1, <2>2, <2>3 DEF QueueFits, Rising
  <2>4. CASE j = L + 1
    BY <1>2, <1>4, <1>7, <2>2, <2>4
  <2>. QED  BY <1>3, <2>3, <2>4
<1>11. NamesOf(new.entries) \subseteq 1..(k + 1)
  <2>1. \A i \in 1..(L + 1) : new.entries[i].n \in 1..(k + 1)
    BY <1>2, <1>3, <1>4, <1>7
  <2>. QED  BY <1>2, <2>1 DEF NamesOf
<1>12. QueueFits(new, r, dl, k + 1)
  BY <1>4, <1>5, <1>9, <1>10, <1>11 DEF QueueFits
<1>13. ASSUME NEW i \in DOMAIN frames
       PROVE  FrameFits(new, frames[i], r, dl, k + 1)
  <2>1. FrameFits(qu, frames[i], r, dl, k)
    BY DEF Fits
  <2>. QED  BY <1>4, <1>9, <2>1 DEF FrameFits
<1>. QED  BY <1>8, <1>12, <1>13 DEF Fits

LEMMA MoreFits ==
  ASSUME NEW qu, NEW frames, NEW r, NEW dl, NEW k \in Nat, Fits(qu, frames, r, dl, k)
  PROVE  Fits(qu, frames, r, dl, k + 1)
<1>1. 1..k \subseteq 1..(k + 1)
  OBVIOUS
<1>. QED  BY <1>1 DEF Fits, QueueFits, FrameFits

LEMMA WatchKeeps == Watch => \A q \in Queues : synced'[q] => synced[q]
  BY DEF Watch

LEMMA ReceiverKept ==
  ASSUME UNCHANGED receiver
  PROVE  \A q \in Queues : DeliveredIn(q)' = DeliveredIn(q)
  BY DEF receiver, DeliveredIn

LEMMA SendDelivery ==
  ASSUME IInv, DeliveryInv, NEW bt \in BufferTypes, NEW size \in Sizes, Send(bt, size)
  PROVE  DeliveryInv'
<1>. DEFINE c == [n |-> sent + 1, size |-> size]
<1>1. PICK q \in Queues :
        /\ WithAck(q) \/ ~TooLarge(size)
        /\ CheckTxQueues([tx EXCEPT ![q].entries = Append(tx[q].entries, c)], done)
  BY DEF Send
<1>. DEFINE t == [tx EXCEPT ![q].entries = Append(tx[q].entries, c)]
            new == [tx[q] EXCEPT !.entries = Append(tx[q].entries, c)]
<1>2. /\ tx \in [Queues -> Queue] /\ tx[q] \in Queue /\ up
      /\ sent \in 0..MaxCmds /\ sent \in Nat /\ sent + 1 \in 1..MaxCmds
      /\ sent' = sent + 1 /\ done \in DoneType
  BY BoundsAssumption DEF IInv, TypeOK, Send, DoneType
<1>3. c \in Command /\ c.n = sent + 1 /\ c.size = size
  BY <1>2 DEF Command, Cmds
<1>4. CheckTxQueues(t, done)
  BY <1>1
<1>. HIDE DEF c
<1>5. tx[q].entries \in Seq(Command) /\ Append(tx[q].entries, c) \in Seq(Command)
  BY <1>2, <1>3, QueueType
<1>6. /\ t[q] = new /\ new \in Queue /\ new.entries = Append(tx[q].entries, c)
      /\ new.pack = tx[q].pack /\ new.refused = tx[q].refused
      /\ new.serial = tx[q].serial /\ new.seq = tx[q].seq
      /\ t \in [Queues -> Queue]
      /\ \A p \in Queues : p # q => t[p] = tx[p]
  BY <1>2, <1>5 DEF Queue
<1>. HIDE DEF t, new
<1>7. ASSUME NEW p \in Queues
      PROVE  Sane(p, t[p], up)
  <2>1. Sane(p, tx[p], up)
    BY DEF IInv
  <2>2. CASE p # q
    BY <1>6, <2>1, <2>2
  <2>3. CASE p = q
    BY <1>1, <1>2, <1>3, <1>6, <2>1, <2>3, AppendSane
  <2>. QED  BY <2>2, <2>3
<1>8. QueuesFit(t, sent')
  <2>1. SUFFICES ASSUME NEW p \in Queues
                 PROVE  /\ Fits(t[p], data[p], rserial[p], DeliveredIn(p), sent + 1)
                        /\ up => Packs(t[p])
    BY <1>2 DEF QueuesFit
  <2>2. Fits(tx[p], data[p], rserial[p], DeliveredIn(p), sent) /\ Packs(tx[p])
    BY <1>2 DEF DeliveryInv, EndsFit
  <2>3. CASE p # q
    BY <1>2, <1>6, <2>2, <2>3, MoreFits
  <2>4. CASE p = q
    <3>1. Covered(tx[q])
      BY <1>2 DEF IInv, Sane
    <3>. QED  BY <1>2, <1>3, <1>6, <2>2, <2>4, <3>1, AppendFits
  <2>. QED  BY <2>3, <2>4
<1>9. UNCHANGED <<up, receiver>> /\ Watch /\ FewerAcks
  BY DEF Send, FewerAcks, From
<1>10. \A p \in Queues : EndsFit(p)'
  <2>1. \A p \in Queues : EndsFit(p)
    BY DEF DeliveryInv
  <2>2. sent' \in Nat
    BY <1>2
  <2>. QED  BY <1>4, <1>6, <1>7, <1>8, <1>9, <2>1, <2>2, CheckEnds
<1>11. AckSound'
  <2>1. IInv'
    BY SendIInv
  <2>2. Heard(done) => Heard(done')
    BY <1>2, <1>4, PackedHeard
  <2>. QED  BY <1>9, <2>1, <2>2, WatchKeeps, ReceiverKept, AckSoundKept DEF DeliveryInv
<1>. QED  BY <1>10, <1>11 DEF DeliveryInv

LEMMA TimerCbDelivery ==
  ASSUME IInv, DeliveryInv, TimerCb
  PROVE  DeliveryInv'
<1>1. /\ tx \in [Queues -> Queue] /\ done \in DoneType /\ sent' \in Nat /\ sent' = sent
      /\ \A q \in Queues : Sane(q, tx[q], up)
  BY BoundsAssumption DEF IInv, TypeOK, DoneType, TimerCb
<1>2. CheckTxQueues(tx, done) /\ UNCHANGED <<up, receiver>> /\ Watch /\ FewerAcks
  BY DEF TimerCb, FewerAcks, From
<1>3. QueuesFit(tx, sent')
  BY <1>1 DEF DeliveryInv, EndsFit, QueuesFit
<1>4. \A q \in Queues : EndsFit(q)'
  <2>1. \A q \in Queues : EndsFit(q)
    BY DEF DeliveryInv
  <2>. QED  BY <1>1, <1>2, <1>3, <2>1, CheckEnds
<1>5. AckSound'
  <2>1. IInv'
    BY TimerCbIInv
  <2>2. Heard(done) => Heard(done')
    BY <1>1, <1>2, PackedHeard
  <2>. QED  BY <1>2, <2>1, <2>2, WatchKeeps, ReceiverKept, AckSoundKept DEF DeliveryInv
<1>. QED  BY <1>4, <1>5 DEF DeliveryInv

LEMMA TakenIs ==
  ASSUME NEW channel \in Seq(Datagram), channel # <<>>, NEW copy \in BOOLEAN
  PROVE  /\ 1 \in DOMAIN channel /\ Head(channel) = channel[1]
         /\ From(channel, Taken(channel, copy))
<1>. DEFINE L == Len(channel)
            rest == Tail(channel)
<1>1. /\ L \in Nat /\ L > 0 /\ DOMAIN channel = 1..L /\ Head(channel) = channel[1]
      /\ DOMAIN rest = 1..(L - 1)
      /\ \A i \in 1..(L - 1) : rest[i] = channel[i + 1]
  BY HeadTailProperties, LenProperties, EmptySeq
<1>. HIDE DEF L, rest
<1>2. \A i \in 1..(L - 1) : i + 1 \in 1..L
  BY <1>1
<1>3. 1 \in 1..L
  BY <1>1
<1>4. \A i \in DOMAIN rest : \E j \in DOMAIN channel : rest[i] = channel[j]
  BY <1>1, <1>2
<1>. QED  BY <1>1, <1>3, <1>4 DEF Taken, From, rest

(* An acknowledgement that is taken for the pack's answers the pack.       *)
LEMMA AcknowledgedWasHeard ==
  ASSUME IInv, DeliveryInv, up, \A q \in Queues : synced[q],
         NEW q \in Queues, acks[q] # <<>>, Acknowledges(Head(acks[q]), tx[q])
  PROVE  NamesOf(SubSeq(tx[q].entries, 1, tx[q].pack.cmds)) \subseteq DeliveredIn(q)
<1>. DEFINE a == Head(acks[q])
<1>1. /\ tx[q] \in Queue /\ acks[q] \in Seq(Datagram) /\ rserial[q] \in Nat
      /\ tx[q].serial \in Nat
  BY EndsType, QueueFacts
<1>2. 1 \in DOMAIN acks[q] /\ a = acks[q][1]
  BY <1>1, TakenIs
<1>3. a \in Datagram /\ a.serial \in Nat
  BY <1>1, <1>2, LenProperties, DatagramType
<1>4. EndsFit(q)
  BY DEF DeliveryInv
<1>5. /\ a.seq = NumberOf(a.serial) /\ a.serial <= rserial[q]
      /\ tx[q].serial - a.serial < SeqSize - Window
  BY <1>2, <1>4 DEF EndsFit, AcksFit, InWindow
<1>6. /\ a.seq = tx[q].seq
  BY DEF Acknowledges
<1>. HIDE DEF a
<1>7. tx[q].seq = NumberOf(tx[q].serial) /\ rserial[q] <= tx[q].serial
  BY <1>4 DEF EndsFit, Fits, QueueFits
<1>8. a.serial = tx[q].serial
  <2>1. a.serial <= tx[q].serial
    BY <1>1, <1>3, <1>5, <1>7
  <2>2. tx[q].serial - a.serial < SeqSize
    BY <1>1, <1>3, <1>5, SeqAssumption
  <2>. QED  BY <1>1, <1>3, <1>5, <1>6, <1>7, <2>1, <2>2, NumberUnique
<1>9. rserial[q] = tx[q].serial
  BY <1>1, <1>5, <1>7, <1>8
<1>10. Packs(tx[q]) /\ Covered(tx[q])
  BY <1>4 DEF EndsFit, IInv, Sane
<1>11. /\ NamesOf(tx[q].pack.buf) = NamesOf(SubSeq(tx[q].entries, 1, tx[q].pack.cmds))
       /\ \A n \in NamesOf(tx[q].pack.buf) : \E i \in DOMAIN tx[q].entries :
             i <= tx[q].pack.cmds /\ n = tx[q].entries[i].n
  BY <1>1, <1>10, FrontNames
<1>12. CASE tx[q].pack.cmds # 0
  BY <1>4, <1>9, <1>11, <1>12 DEF EndsFit, Fits, QueueFits
<1>13. CASE tx[q].pack.cmds = 0
  <2>1. \A i \in DOMAIN tx[q].entries : ~(i <= 0)
    BY <1>1, QueueFacts
  <2>. QED  BY <1>11, <1>13, <2>1
<1>. QED  BY <1>12, <1>13

LEMMA RecvAckDelivery ==
  ASSUME IInv, DeliveryInv, NEW q \in Queues, NEW copy \in BOOLEAN, RecvAck(q, copy)
  PROVE  DeliveryInv'
<1>1. /\ tx \in [Queues -> Queue] /\ tx[q] \in Queue /\ done \in DoneType
      /\ sent' \in Nat /\ sent' = sent
      /\ \A p \in Queues : Sane(p, tx[p], up)
      /\ acks \in [Queues -> Seq(Datagram)]
  BY BoundsAssumption DEF IInv, TypeOK, DoneType, RecvAck
<1>2. UNCHANGED <<up, receiver>> /\ Watch
  BY DEF RecvAck
<1>3. FewerAcks
  <2>1. acks' = [acks EXCEPT ![q] = Taken(acks[q], copy)]
    BY DEF RecvAck
  <2>2. From(acks[q], acks'[q])
    <3>1. acks'[q] = Taken(acks[q], copy) /\ acks[q] \in Seq(Datagram) /\ acks[q] # <<>>
      BY <1>1, <2>1 DEF RecvAck
    <3>. QED  BY <3>1, TakenIs
  <2>3. \A p \in Queues : p # q => acks'[p] = acks[p]
    BY <1>1, <2>1
  <2>. QED  BY <2>2, <2>3 DEF FewerAcks, From
<1>4. IInv' /\ \A p \in Queues : EndsFit(p)
  BY RecvAckIInv DEF DeliveryInv
<1>5. ASSUME Heard(done) => Heard(done')
      PROVE  AckSound'
  BY <1>2, <1>4, <1>5, WatchKeeps, ReceiverKept, AckSoundKept DEF DeliveryInv
<1>6. CASE ~up
  <2>1. UNCHANGED <<tx, data, done>>
    BY <1>6 DEF RecvAck
  <2>2. AckSound'
    BY <1>5, <2>1
  <2>3. ASSUME NEW p \in Queues
        PROVE  EndsFit(p)'
    <3>1. EndsFit(p) /\ (synced'[p] => synced[p] /\ InWindow(p)')
      BY <1>2, <1>4 DEF Watch
    <3>2. AcksFit(p)'
      BY <1>2, <1>3, <3>1 DEF FewerAcks, From, EndsFit, AcksFit, receiver
    <3>3. DeliveredIn(p)' = DeliveredIn(p)
      BY <1>2, ReceiverKept
    <3>. QED  BY <1>1, <1>2, <2>1, <3>1, <3>2, <3>3 DEF EndsFit, receiver
  <2>. QED  BY <2>2, <2>3 DEF DeliveryInv
<1>7. CASE up /\ ~Acknowledges(Head(acks[q]), tx[q])
  <2>1. CheckTxQueues(tx, done)
    BY <1>7 DEF RecvAck
  <2>2. QueuesFit(tx, sent')
    BY <1>1, <1>4 DEF EndsFit, QueuesFit
  <2>3. \A p \in Queues : EndsFit(p)'
    BY <1>1, <1>2, <1>3, <1>4, <2>1, <2>2, CheckEnds
  <2>4. AckSound'
    BY <1>1, <1>5, <2>1, PackedHeard
  <2>. QED  BY <2>3, <2>4 DEF DeliveryInv
<1>8. CASE up /\ Acknowledges(Head(acks[q]), tx[q])
  <2>. DEFINE t == [tx EXCEPT ![q] = Acknowledged(tx[q])]
              names == NamesOf(SubSeq(tx[q].entries, 1, tx[q].pack.cmds))
              d == Notify(done, names, "ACK_RECEIVED")
  <2>1. CheckTxQueues(t, d)
    BY <1>8 DEF RecvAck
  <2>2. Covered(tx[q])
    BY <1>1, <1>8 DEF Sane
  <2>3. /\ Acknowledged(tx[q]) \in Queue /\ Covered(Acknowledged(tx[q]))
        /\ Acknowledged(tx[q]).entries
             = SubSeq(tx[q].entries, tx[q].pack.cmds + 1, Len(tx[q].entries))
        /\ Acknowledged(tx[q]).pack.cmds = 0
        /\ Len(Acknowledged(tx[q]).pack.buf) = 0
        /\ Acknowledged(tx[q]).serial = tx[q].serial /\ Acknowledged(tx[q]).seq = tx[q].seq
        /\ Acknowledged(tx[q]).pack.waiting = tx[q].pack.waiting
        /\ Acknowledged(tx[q]).pack.age = tx[q].pack.age
        /\ Acknowledged(tx[q]).refused = tx[q].refused
        /\ AllFit(tx[q].entries) => AllFit(Acknowledged(tx[q]).entries)
    BY <1>1, <2>2, AcknowledgedIs
  <2>4. /\ t \in [Queues -> Queue] /\ t[q] = Acknowledged(tx[q])
        /\ \A p \in Queues : p # q => t[p] = tx[p]
    BY <1>1, <2>3
  <2>. HIDE DEF t
  <2>5. \A p \in Queues : Sane(p, t[p], up)
    BY <1>1, <1>8, <2>3, <2>4 DEF Sane
  <2>6. QueuesFit(t, sent')
    <3>1. SUFFICES ASSUME NEW p \in Queues
                   PROVE  /\ Fits(t[p], data[p], rserial[p], DeliveredIn(p), sent)
                          /\ up => Packs(t[p])
      BY <1>1 DEF QueuesFit
    <3>2. Fits(tx[p], data[p], rserial[p], DeliveredIn(p), sent) /\ Packs(tx[p])
      BY <1>4, <1>8 DEF EndsFit
    <3>3. CASE p # q
      BY <2>4, <3>2, <3>3
    <3>4. CASE p = q
      BY <1>1, <2>2, <2>3, <2>4, <3>2, <3>4, PoppedFits
    <3>. QED  BY <3>3, <3>4
  <2>7. \A p \in Queues : EndsFit(p)'
    BY <1>1, <1>2, <1>3, <1>4, <2>1, <2>4, <2>5, <2>6, CheckEnds
  <2>8. d \in DoneType
    BY <1>1, NotifyIs DEF FinalStatus
  <2>9. CASE \A p \in Queues : synced[p]
    <3>1. names \subseteq DeliveredIn(q)
      BY <1>8, <2>9, AcknowledgedWasHeard DEF RecvAck
    <3>. HIDE DEF names
    <3>2. Heard(done) => Heard(d)
      BY <3>1 DEF Heard, Notify
    <3>. HIDE DEF d
    <3>3. Heard(done) => Heard(done')
      BY <2>1, <2>8, <3>2, PackedHeard
    <3>. QED  BY <1>5, <2>7, <3>3 DEF DeliveryInv
  <2>10. CASE ~\A p \in Queues : synced[p]
    <3>1. ~\A p \in Queues : synced'[p]
      BY <1>2, <2>10, WatchKeeps
    <3>2. AckSound'
      BY <3>1 DEF AckSound
    <3>. QED  BY <2>7, <3>2 DEF DeliveryInv
  <2>. QED  BY <2>9, <2>10
<1>. QED  BY <1>6, <1>7, <1>8

LEMMA EmptiedFits ==
  ASSUME NEW qu, NEW new, DOMAIN new.entries = {}, new.pack = qu.pack,
         new.serial = qu.serial, new.seq = qu.seq,
         NEW frames, NEW r, NEW dl, NEW k, Fits(qu, frames, r, dl, k)
  PROVE  Fits(new, frames, r, dl, k)
<1>1. /\ Rising(new.entries) /\ NamesOf(new.entries) = {}
      /\ \A s, names : Behind(new, s, names)
  BY DEF Rising, NamesOf, Behind
<1>. QED  BY <1>1 DEF Fits, QueueFits, FrameFits

LEMMA StopDelivery ==
  ASSUME IInv, DeliveryInv, Stop
  PROVE  DeliveryInv'
<1>. DEFINE none == <<>>
            names == UNION {NamesOf(tx[q].entries) : q \in Queues}
            t == [q \in Queues |-> [tx[q] EXCEPT !.entries = none]]
<1>1. /\ tx \in [Queues -> Queue] /\ done \in DoneType
      /\ tx' = t /\ done' = Notify(done, names, "CANCELED") /\ up' = FALSE
      /\ UNCHANGED <<sent, data, acks, receiver>> /\ Watch
  BY DEF IInv, TypeOK, DoneType, Stop
<1>2. DOMAIN none = {}
  OBVIOUS
<1>. HIDE DEF none
<1>3. ASSUME NEW q \in Queues
      PROVE  /\ t[q].entries = none /\ t[q].pack = tx[q].pack
             /\ t[q].serial = tx[q].serial /\ t[q].seq = tx[q].seq
  <2>1. tx[q] \in Queue
    BY <1>1
  <2>. QED  BY <2>1 DEF Queue
<1>. HIDE DEF t
<1>4. ASSUME NEW q \in Queues
      PROVE  EndsFit(q)'
  <2>1. EndsFit(q) /\ (synced'[q] => synced[q] /\ InWindow(q)')
    BY <1>1 DEF DeliveryInv, Watch
  <2>2. DeliveredIn(q)' = DeliveredIn(q)
    BY <1>1, ReceiverKept
  <2>3. Fits(t[q], data[q], rserial[q], DeliveredIn(q), sent)
    BY <1>2, <1>3, <2>1, EmptiedFits DEF EndsFit
  <2>4. AcksFit(q)'
    BY <1>1, <2>1 DEF EndsFit, AcksFit, receiver
  <2>. QED  BY <1>1, <2>1, <2>2, <2>3, <2>4 DEF EndsFit, receiver
<1>5. AckSound'
  <2>1. IInv'
    BY StopIInv
  <2>. HIDE DEF names
  <2>2. Heard(done) => Heard(done')
    BY <1>1, NotifyHeard DEF Heard
  <2>. QED  BY <1>1, <2>1, <2>2, WatchKeeps, ReceiverKept, AckSoundKept DEF DeliveryInv
<1>. QED  BY <1>4, <1>5 DEF DeliveryInv

(***************************************************************************)
(* What the receiver's handlers and the network do to it                   *)
(***************************************************************************)

(* A newer frame is given to the application.                              *)
LEMMA ProcessFits ==
  ASSUME NEW qu \in Queue, NEW frames \in Seq(Datagram), NEW r \in Nat, NEW dl \in SUBSET Nat,
         NEW k \in Nat, Fits(qu, frames, r, dl, k), frames # <<>>, frames[1].serial > r
  PROVE  Fits(qu, frames, frames[1].serial, dl \cup NamesOf(frames[1].buf), k)
<1>. DEFINE f == frames[1]
            names == NamesOf(f.buf)
            both == dl \cup names
            L == Len(frames)
<1>1. /\ DOMAIN frames = 1..L /\ L \in Nat /\ L > 0
      /\ \A i \in 1..L : frames[i] \in Datagram
  BY LenProperties, EmptySeq
<1>2. 1 \in 1..L /\ f \in Datagram /\ f.serial \in Nat /\ qu.serial \in Nat
  BY <1>1, DatagramType, QueueFacts
<1>3. /\ QueueFits(qu, r, dl, k)
      /\ \A i \in 1..L : FrameFits(qu, frames[i], r, dl, k)
      /\ \A i, j \in 1..L : i < j => InTurn(frames[i], frames[j])
  BY <1>1 DEF Fits
<1>4. FrameFits(qu, f, r, dl, k) /\ f.serial > r
  BY <1>2, <1>3
<1>5. r # qu.serial /\ ~(r = qu.serial)
  BY <1>2, <1>4 DEF FrameFits
<1>. HIDE DEF f, L
<1>6. Behind(qu, f.serial, both)
  <2>1. Behind(qu, r, dl) /\ Behind(qu, f.serial, names)
    BY <1>3, <1>4 DEF QueueFits, FrameFits
  <2>. HIDE DEF names
  <2>. QED  BY <1>5, <2>1 DEF Behind
<1>7. QueueFits(qu, f.serial, both, k)
  <2>1. both \subseteq 1..k
    BY <1>3, <1>4 DEF QueueFits, FrameFits
  <2>2. f.serial = qu.serial /\ qu.pack.cmds # 0 => NamesOf(qu.pack.buf) \subseteq both
    BY <1>4 DEF FrameFits
  <2>3. f.serial <= qu.serial
    BY <1>4 DEF FrameFits
  <2>. HIDE DEF both
  <2>. QED  BY <1>3, <1>6, <2>1, <2>2, <2>3 DEF QueueFits
<1>8. ASSUME NEW i \in 1..L
      PROVE  FrameFits(qu, frames[i], f.serial, both, k)
  <2>. DEFINE g == frames[i]
  <2>1. FrameFits(qu, g, r, dl, k) /\ g.serial \in Nat
    BY <1>1, <1>3, DatagramType
  <2>2. f = g \/ InTurn(f, g)
    BY <1>1, <1>2, <1>3 DEF f
  <2>. HIDE DEF g
  <2>3. f.serial <= g.serial /\ (f.serial = g.serial => g.buf = f.buf)
    BY <1>2, <2>2 DEF InTurn
  <2>4. g.serial = f.serial => NamesOf(g.buf) \subseteq both
    BY <2>3
  <2>5. ASSUME g.serial > f.serial
        PROVE  Below(both, NamesOf(g.buf))
    <3>1. g.serial > r /\ f.serial < g.serial /\ f # g
      BY <1>2, <1>4, <2>1, <2>5
    <3>2. Below(dl, NamesOf(g.buf))
      BY <2>1, <3>1 DEF FrameFits
    <3>3. Below(names, NamesOf(g.buf))
      BY <2>2, <3>1 DEF InTurn
    <3>. QED  BY <3>2, <3>3 DEF Below
  <2>. HIDE DEF both
  <2>6. FrameFits(qu, g, f.serial, both, k)
    BY <2>1, <2>3, <2>4, <2>5 DEF FrameFits
  <2>. QED  BY <2>6 DEF g
<1>9. Fits(qu, frames, f.serial, both, k)
  <2>. HIDE DEF both
  <2>. QED  BY <1>1, <1>3, <1>7, <1>8 DEF Fits
<1>. QED  BY <1>9 DEF f

LEMMA HeardInOrder ==
  ASSUME NEW s \in Seq(Cmds), NEW buf \in Seq(Command), RisingNames(s), Rising(buf),
         Below({s[i] : i \in DOMAIN s}, NamesOf(buf))
  PROVE  LET new == s \o Unpack(buf)
         IN  /\ RisingNames(new)
             /\ {new[i] : i \in DOMAIN new} = {s[i] : i \in DOMAIN s} \cup NamesOf(buf)
<1>. DEFINE u == Unpack(buf)
            new == s \o u
            L == Len(s)
            M == Len(buf)
<1>1. /\ u \in Seq(Cmds) /\ Len(u) = M /\ DOMAIN u = DOMAIN buf
      /\ \A i \in DOMAIN buf : u[i] = buf[i].n
      /\ DOMAIN buf = 1..M /\ M \in Nat
  BY UnpackType, CommandType
<1>2. L \in Nat /\ DOMAIN s = 1..L
  BY LenProperties
<1>. HIDE DEF u
<1>3. /\ new \in Seq(Cmds) /\ Len(new) = L + M
      /\ \A i \in 1..(L + M) : new[i] = IF i <= L THEN s[i] ELSE u[i - L]
  <2>1. /\ s \o u \in Seq(Cmds) /\ Len(s \o u) = Len(s) + Len(u)
        /\ \A i \in 1..(Len(s) + Len(u)) :
              (s \o u)[i] = IF i <= Len(s) THEN s[i] ELSE u[i - Len(s)]
    BY <1>1, ConcatProperties
  <2>. QED  BY <1>1, <2>1
<1>4. DOMAIN new = 1..(L + M)
  BY <1>3, LenProperties
<1>. HIDE DEF new, L, M
<1>5. /\ \A i \in 1..L : i \in 1..(L + M) /\ new[i] = s[i]
      /\ \A i \in 1..M : i + L \in 1..(L + M) /\ new[i + L] = buf[i].n
  <2>1. \A i \in 1..L : i \in 1..(L + M) /\ i <= L
    BY <1>1, <1>2
  <2>2. \A i \in 1..M : i + L \in 1..(L + M) /\ ~(i + L <= L) /\ (i + L) - L = i
    BY <1>1, <1>2
  <2>. QED  BY <1>1, <1>3, <2>1, <2>2
<1>6. \A i \in 1..(L + M) : i \in 1..L \/ (i - L \in 1..M /\ i = (i - L) + L)
  BY <1>1, <1>2
<1>7. ASSUME NEW i \in 1..(L + M), NEW j \in 1..(L + M), i < j
      PROVE  new[i] < new[j]
  <2>1. CASE i \in 1..L /\ j \in 1..L
    BY <1>2, <1>5, <1>7, <2>1 DEF RisingNames
  <2>2. CASE i \in 1..L /\ j - L \in 1..M /\ j = (j - L) + L
    <3>1. new[i] = s[i] /\ new[j] = buf[j - L].n
      BY <1>5, <2>2
    <3>2. s[i] \in {s[m] : m \in DOMAIN s} /\ buf[j - L].n \in NamesOf(buf)
      BY <1>1, <1>2, <2>2 DEF NamesOf
    <3>. QED  BY <3>1, <3>2 DEF Below
  <2>3. CASE /\ i - L \in 1..M /\ i = (i - L) + L
             /\ j - L \in 1..M /\ j = (j - L) + L
    <3>1. new[i] = buf[i - L].n /\ new[j] = buf[j - L].n
      BY <1>5, <2>3
    <3>2. i - L < j - L
      BY <1>2, <1>7
    <3>. QED  BY <1>1, <2>3, <3>1, <3>2 DEF Rising
  <2>4. ~(i - L \in 1..M /\ j \in 1..L)
    BY <1>2, <1>7
  <2>. QED  BY <1>6, <2>1, <2>2, <2>3, <2>4
<1>8. RisingNames(new)
  BY <1>4, <1>7 DEF RisingNames
<1>9. {new[i] : i \in DOMAIN new} = {s[i] : i \in DOMAIN s} \cup NamesOf(buf)
  <2>1. \A i \in DOMAIN new : new[i] \in {s[m] : m \in DOMAIN s} \cup NamesOf(buf)
    <3>1. TAKE i \in DOMAIN new
    <3>2. CASE i \in 1..L
      BY <1>2, <1>5, <3>2
    <3>3. CASE i - L \in 1..M /\ i = (i - L) + L
      <4>1. new[i] = buf[i - L].n /\ i - L \in DOMAIN buf
        BY <1>1, <1>5, <3>3
      <4>. QED  BY <4>1 DEF NamesOf
    <3>. QED  BY <1>4, <1>6, <3>2, <3>3
  <2>2. \A i \in DOMAIN s : s[i] \in {new[m] : m \in DOMAIN new}
    BY <1>2, <1>4, <1>5
  <2>3. \A i \in DOMAIN buf : buf[i].n \in {new[m] : m \in DOMAIN new}
    BY <1>1, <1>4, <1>5
  <2>. QED  BY <2>1, <2>2, <2>3 DEF NamesOf
<1>. QED  BY <1>8, <1>9 DEF new, u

(* The acknowledgement of f is the only new one.                           *)
LEMMA PutAck ==
  ASSUME NEW channel \in Seq(Datagram), NEW f \in Datagram, NEW i,
         i \in DOMAIN Put(channel, <<[f EXCEPT !.buf = <<>>]>>)
  PROVE  LET a == Put(channel, <<[f EXCEPT !.buf = <<>>]>>)[i]
         IN  \/ \E j \in DOMAIN channel : a = channel[j]
             \/ a.serial = f.serial /\ a.seq = f.seq
<1>. DEFINE none == <<>>
            ack == [f EXCEPT !.buf = none]
            new == Append(channel, ack)
            L == Len(channel)
<1>1. none \in Seq(Command)
  OBVIOUS
<1>. HIDE DEF none
<1>2. ack \in Datagram /\ ack.serial = f.serial /\ ack.seq = f.seq
  BY <1>1 DEF Datagram
<1>. HIDE DEF ack
<1>3. channel \o <<ack>> = new
  BY <1>2, AppendIsConcat
<1>4. /\ DOMAIN channel = 1..L /\ L \in Nat /\ DOMAIN new = 1..(L + 1)
      /\ new[L + 1] = ack /\ \A m \in 1..L : new[m] = channel[m]
  BY <1>2, AppendProperties, LenProperties
<1>5. Put(channel, <<ack>>) \in {channel, new}
  BY <1>3 DEF Put
<1>. HIDE DEF new, L
<1>6. CASE Put(channel, <<ack>>) = channel
  BY <1>6 DEF ack, none
<1>7. CASE Put(channel, <<ack>>) = new
  <2>1. i \in 1..(L + 1)
    BY <1>4, <1>7 DEF ack, none
  <2>2. i \in 1..L \/ i = L + 1
    BY <1>4, <2>1
  <2>3. (\E j \in DOMAIN channel : new[i] = channel[j]) \/ new[i] = ack
    BY <1>4, <2>2
  <2>4. \/ \E j \in DOMAIN channel : Put(channel, <<ack>>)[i] = channel[j]
        \/ /\ Put(channel, <<ack>>)[i].serial = f.serial
           /\ Put(channel, <<ack>>)[i].seq = f.seq
    BY <1>2, <1>7, <2>3
  <2>. QED  BY <2>4 DEF ack, none
<1>. QED  BY <1>5, <1>6, <1>7

LEMMA TakenFits ==
  ASSUME NEW qu, NEW frames \in Seq(Datagram), frames # <<>>, NEW copy \in BOOLEAN,
         NEW r, NEW dl, NEW k, Fits(qu, frames, r, dl, k)
  PROVE  Fits(qu, Taken(frames, copy), r, dl, k)
  BY TailFits DEF Taken

LEMMA RecvDataDelivery ==
  ASSUME IInv, DeliveryInv, NEW q \in Queues, NEW copy \in BOOLEAN, RecvData(q, copy)
  PROVE  DeliveryInv'
<1>. DEFINE f == Head(data[q])
            r == rserial[q]
            dl == DeliveredIn(q)
            k == sent
            qu == tx[q]
            frames == data[q]
<1>1. /\ data \in [Queues -> Seq(Datagram)] /\ acks \in [Queues -> Seq(Datagram)]
      /\ recv \in [Queues -> 0..(SeqSize - 1)] /\ rserial \in [Queues -> Nat]
      /\ delivered \in [Queues -> Seq(Cmds)]
  BY DEF IInv, TypeOK
<1>2. /\ data' = [data EXCEPT ![q] = Taken(data[q], copy)]
      /\ acks' = [acks EXCEPT ![q] =
                    IF WithAck(q) THEN Put(acks[q], <<[f EXCEPT !.buf = <<>>]>>)
                    ELSE acks[q]]
      /\ UNCHANGED <<tx, timer, up, sent, done, refusals>> /\ Watch
      /\ frames # <<>>
  BY DEF RecvData
<1>3. /\ qu \in Queue /\ frames \in Seq(Datagram) /\ r \in Nat /\ dl \in SUBSET Nat
      /\ k \in Nat /\ delivered[q] \in Seq(Cmds) /\ qu.serial \in Nat
  BY EndsType, QueueFacts
<1>4. 1 \in DOMAIN frames /\ f = frames[1] /\ f \in Datagram
  BY <1>2, <1>3, TakenIs, LenProperties
<1>5. f.seq \in 0..(SeqSize - 1) /\ f.serial \in Nat /\ f.buf \in Seq(Command)
  BY <1>4, DatagramType
<1>6. /\ \A p \in Queues : EndsFit(p) /\ (synced'[p] => synced[p] /\ InWindow(p)')
      /\ Fits(qu, frames, r, dl, k) /\ FrameFits(qu, f, r, dl, k)
      /\ recv[q] = NumberOf(r)
  BY <1>2, <1>4 DEF DeliveryInv, EndsFit, Fits, Watch
<1>7. f.seq = NumberOf(f.serial) /\ r <= f.serial /\ f.serial <= qu.serial
  BY <1>6 DEF FrameFits
<1>8. /\ data'[q] = Taken(frames, copy)
      /\ acks'[q] = IF WithAck(q) THEN Put(acks[q], <<[f EXCEPT !.buf = <<>>]>>) ELSE acks[q]
      /\ \A p \in Queues : p # q => data'[p] = data[p] /\ acks'[p] = acks[p]
  BY <1>1, <1>2
<1>9. ASSUME NEW i \in DOMAIN acks'[q]
      PROVE  \/ \E j \in DOMAIN acks[q] : acks'[q][i] = acks[q][j]
             \/ acks'[q][i].serial = f.serial /\ acks'[q][i].seq = f.seq
  <2>1. acks[q] \in Seq(Datagram)
    BY <1>1
  <2>. HIDE DEF f
  <2>2. CASE WithAck(q)
    <3>1. acks'[q] = Put(acks[q], <<[f EXCEPT !.buf = <<>>]>>)
      BY <1>8, <2>2
    <3>. QED  BY <1>4, <2>1, <3>1, PutAck
  <2>3. CASE ~WithAck(q)
    BY <1>8, <2>3
  <2>. QED  BY <2>2, <2>3
<1>10. ASSUME NEW p \in Queues, p # q, UNCHANGED <<recv[p], rserial[p], delivered[p]>>
       PROVE  EndsFit(p)'
  <2>1. DeliveredIn(p)' = DeliveredIn(p)
    BY <1>10 DEF DeliveredIn
  <2>2. AcksFit(p)'
    BY <1>6, <1>8, <1>10 DEF EndsFit, AcksFit
  <2>. QED  BY <1>2, <1>6, <1>8, <1>10, <2>1, <2>2 DEF EndsFit
<1>11. IInv'
  BY RecvDataIInv
<1>. HIDE DEF f, qu, frames
<1>12. CASE ShouldProcess(recv[q], f.seq)
  <2>1. /\ recv' = [recv EXCEPT ![q] = f.seq]
        /\ rserial' = [rserial EXCEPT ![q] = f.serial]
        /\ delivered' = [delivered EXCEPT ![q] = delivered[q] \o Unpack(f.buf)]
    BY <1>12 DEF RecvData, f
  <2>2. /\ recv'[q] = f.seq /\ rserial'[q] = f.serial
        /\ delivered'[q] = delivered[q] \o Unpack(f.buf)
        /\ \A p \in Queues : p # q => UNCHANGED <<recv[p], rserial[p], delivered[p]>>
    BY <1>1, <2>1
  <2>3. f.serial > r
    <3>1. f.serial # r
      BY <1>3, <1>6, <1>7, <1>12, SameIsNotProcessed
    <3>. QED  BY <1>3, <1>5, <1>7, <3>1
  <2>4. Rising(f.buf) /\ Below(dl, NamesOf(f.buf)) /\ RisingNames(delivered[q])
    BY <1>6, <2>3 DEF FrameFits, EndsFit
  <2>5. RisingNames(delivered'[q]) /\ DeliveredIn(q)' = dl \cup NamesOf(f.buf)
    <3>. DEFINE s == delivered[q]
                new == s \o Unpack(f.buf)
    <3>1. /\ RisingNames(new)
          /\ {new[i] : i \in DOMAIN new} = {s[i] : i \in DOMAIN s} \cup NamesOf(f.buf)
      BY <1>3, <1>5, <2>4, HeardInOrder DEF DeliveredIn
    <3>2. delivered'[q] = new
      BY <2>2
    <3>. HIDE DEF new
    <3>. QED  BY <3>1, <3>2 DEF DeliveredIn
  <2>6. Fits(qu, Taken(frames, copy), f.serial, dl \cup NamesOf(f.buf), k)
    <3>. HIDE DEF dl, r, k
    <3>1. Fits(qu, frames, f.serial, dl \cup NamesOf(f.buf), k)
      BY <1>2, <1>3, <1>4, <1>6, <2>3, ProcessFits
    <3>. QED  BY <1>2, <1>3, <3>1, TakenFits
  <2>7. AcksFit(q)'
    <3>1. SUFFICES ASSUME NEW i \in DOMAIN acks'[q]
                   PROVE  /\ acks'[q][i].seq = NumberOf(acks'[q][i].serial)
                          /\ synced'[q] => acks'[q][i].serial <= f.serial
      BY <2>2 DEF AcksFit
    <3>2. CASE acks'[q][i].serial = f.serial /\ acks'[q][i].seq = f.seq
      BY <1>5, <1>7, <3>2
    <3>3. ASSUME NEW j \in DOMAIN acks[q], acks'[q][i] = acks[q][j]
          PROVE  /\ acks'[q][i].seq = NumberOf(acks'[q][i].serial)
                 /\ synced'[q] => acks'[q][i].serial <= f.serial
      <4>1. /\ acks[q][j].seq = NumberOf(acks[q][j].serial)
            /\ synced[q] => acks[q][j].serial <= r
        BY <1>6 DEF EndsFit, AcksFit
      <4>2. acks[q][j].serial \in Nat
        BY <1>1, LenProperties, DatagramType
      <4>3. synced'[q] => synced[q]
        BY <1>6
      <4>4. acks[q][j].serial <= r => acks[q][j].serial <= f.serial
        BY <1>3, <1>5, <1>7, <4>2
      <4>. QED  BY <3>3, <4>1, <4>3, <4>4
    <3>. QED  BY <1>9, <3>2, <3>3
  <2>8. EndsFit(q)'
    <3>1. Fits(tx[q], data[q], rserial[q], DeliveredIn(q), sent)'
      BY <1>2, <1>8, <2>2, <2>5, <2>6 DEF qu
    <3>2. (up => Packs(tx[q]))'
      BY <1>2, <1>6 DEF EndsFit
    <3>3. recv'[q] = NumberOf(rserial'[q])
      BY <1>7, <2>2
    <3>4. (synced[q] => InWindow(q))'
      BY <1>6
    <3>. QED  BY <2>5, <2>7, <3>1, <3>2, <3>3, <3>4 DEF EndsFit
  <2>9. AckSound'
    <3>1. \A p \in Queues : DeliveredIn(p) \subseteq DeliveredIn(p)'
      <4>1. TAKE p \in Queues
      <4>2. CASE p = q
        BY <2>5, <4>2
      <4>3. CASE p # q
        BY <2>2, <4>3 DEF DeliveredIn
      <4>. QED  BY <4>2, <4>3
    <3>. QED  BY <1>2, <1>6, <1>11, <3>1, AckSoundKept DEF DeliveryInv
  <2>10. \A p \in Queues : EndsFit(p)'
    BY <1>10, <2>2, <2>8
  <2>. QED  BY <2>9, <2>10 DEF DeliveryInv
<1>13. CASE ~ShouldProcess(recv[q], f.seq)
  <2>1. UNCHANGED receiver
    BY <1>13 DEF RecvData, f
  <2>2. /\ \A p \in Queues : UNCHANGED <<recv[p], rserial[p], delivered[p]>>
        /\ \A p \in Queues : DeliveredIn(p)' = DeliveredIn(p)
    BY <2>1 DEF receiver, DeliveredIn
  <2>3. synced[q] => f.serial <= r
    <3>1. SUFFICES ASSUME synced[q], f.serial > r
                   PROVE  FALSE
      BY <1>3, <1>5
    <3>2. qu.serial - r < SeqSize - Window
      BY <1>6, <3>1 DEF EndsFit, InWindow, qu
    <3>3. f.serial - r < SeqSize - Window
      BY <1>3, <1>5, <1>7, <3>2, SeqAssumption
    <3>. QED  BY <1>3, <1>5, <1>6, <1>7, <1>13, <3>1, <3>3, NewerIsProcessed
  <2>4. Fits(qu, Taken(frames, copy), r, dl, k)
    <3>. HIDE DEF dl, r, k
    <3>. QED  BY <1>2, <1>3, <1>6, TakenFits
  <2>5. AcksFit(q)'
    <3>1. SUFFICES ASSUME NEW i \in DOMAIN acks'[q]
                   PROVE  /\ acks'[q][i].seq = NumberOf(acks'[q][i].serial)
                          /\ synced'[q] => acks'[q][i].serial <= r
      BY <2>2 DEF AcksFit
    <3>2. CASE acks'[q][i].serial = f.serial /\ acks'[q][i].seq = f.seq
      BY <1>6, <1>7, <2>3, <3>2
    <3>3. ASSUME NEW j \in DOMAIN acks[q], acks'[q][i] = acks[q][j]
          PROVE  /\ acks'[q][i].seq = NumberOf(acks'[q][i].serial)
                 /\ synced'[q] => acks'[q][i].serial <= r
      BY <1>6, <3>3 DEF EndsFit, AcksFit
    <3>. QED  BY <1>9, <3>2, <3>3
  <2>6. EndsFit(q)'
    <3>1. Fits(tx[q], data[q], rserial[q], DeliveredIn(q), sent)'
      BY <1>2, <1>8, <2>2, <2>4 DEF qu
    <3>2. (up => Packs(tx[q]))'
      BY <1>2, <1>6 DEF EndsFit
    <3>3. (recv[q] = NumberOf(rserial[q]) /\ RisingNames(delivered[q]))'
      BY <1>6, <2>2 DEF EndsFit
    <3>4. (synced[q] => InWindow(q))'
      BY <1>6
    <3>. QED  BY <2>5, <3>1, <3>2, <3>3, <3>4 DEF EndsFit
  <2>7. AckSound'
    BY <1>2, <1>6, <1>11, <2>2, AckSoundKept DEF DeliveryInv
  <2>8. \A p \in Queues : EndsFit(p)'
    BY <1>10, <2>2, <2>6
  <2>. QED  BY <2>7, <2>8 DEF DeliveryInv
<1>. QED  BY <1>12, <1>13

LEMMA LostIs ==
  ASSUME NEW old \in Seq(Datagram), NEW new,
         new = old \/ (old # <<>> /\ new = Tail(old))
  PROVE  From(old, new)
<1>1. CASE new = old
  BY <1>1 DEF From
<1>2. CASE old # <<>> /\ new = Tail(old)
  <2>1. new = Taken(old, FALSE)
    BY <1>2 DEF Taken
  <2>. QED  BY <1>2, <2>1, TakenIs DEF From
<1>. QED  BY <1>1, <1>2

LEMMA LoseDelivery ==
  ASSUME IInv, DeliveryInv, NEW q \in Queues, LoseData(q) \/ LoseAck(q)
  PROVE  DeliveryInv'
<1>1. /\ data \in [Queues -> Seq(Datagram)] /\ acks \in [Queues -> Seq(Datagram)]
      /\ UNCHANGED <<tx, up, sent, done, receiver, synced>>
  BY DEF IInv, TypeOK, LoseData, LoseAck
<1>2. /\ \A p \in Queues : data'[p] = data[p] \/ (data[p] # <<>> /\ data'[p] = Tail(data[p]))
      /\ \A p \in Queues : acks'[p] = acks[p] \/ (acks[p] # <<>> /\ acks'[p] = Tail(acks[p]))
  BY <1>1 DEF LoseData, LoseAck
<1>3. ASSUME NEW p \in Queues
      PROVE  EndsFit(p)'
  <2>1. EndsFit(p) /\ data[p] \in Seq(Datagram) /\ acks[p] \in Seq(Datagram)
    BY <1>1 DEF DeliveryInv
  <2>2. From(data[p], data'[p]) /\ From(acks[p], acks'[p])
    BY <1>2, <2>1, LostIs
  <2>3. Fits(tx[p], data'[p], rserial[p], DeliveredIn(p), sent)
    BY <1>2, <2>1, TailFits DEF EndsFit
  <2>4. AcksFit(p)'
    BY <1>1, <2>1, <2>2 DEF From, EndsFit, AcksFit, receiver
  <2>5. (synced[p] => InWindow(p))'
    BY <1>1, <2>1, <2>2 DEF From, EndsFit, InWindow, receiver
  <2>6. DeliveredIn(p)' = DeliveredIn(p)
    BY <1>1, ReceiverKept
  <2>. QED  BY <1>1, <2>1, <2>3, <2>4, <2>5, <2>6 DEF EndsFit, receiver
<1>4. AckSound'
  BY <1>1 DEF DeliveryInv, AckSound, receiver
<1>. QED  BY <1>3, <1>4 DEF DeliveryInv

(* Neither the ages of the packs nor the timer say what was delivered.     *)
LEMMA AgedDelivery ==
  ASSUME DeliveryInv, \A q \in Queues : SameOrder(tx[q], tx'[q]),
         UNCHANGED <<up, sent, done, data, acks, receiver, synced>>
  PROVE  DeliveryInv'
<1>1. ASSUME NEW q \in Queues
      PROVE  EndsFit(q)'
  <2>1. EndsFit(q) /\ SameOrder(tx[q], tx'[q])
    BY DEF DeliveryInv
  <2>2. Fits(tx'[q], data[q], rserial[q], DeliveredIn(q), sent) /\ (up => Packs(tx'[q]))
    BY <2>1, SameFits DEF EndsFit
  <2>3. AcksFit(q)'
    BY <2>1 DEF EndsFit, AcksFit, receiver
  <2>4. (synced[q] => InWindow(q))'
    BY <2>1 DEF EndsFit, InWindow, SameOrder, receiver
  <2>5. DeliveredIn(q)' = DeliveredIn(q)
    BY ReceiverKept
  <2>. QED  BY <2>1, <2>2, <2>3, <2>4, <2>5 DEF EndsFit, receiver
<1>2. AckSound'
  BY DEF DeliveryInv, AckSound, receiver
<1>. QED  BY <1>1, <1>2 DEF DeliveryInv

LEMMA TickDelivery ==
  ASSUME IInv, DeliveryInv, Tick
  PROVE  DeliveryInv'
<1>1. UNCHANGED <<up, sent, done, data, acks, receiver, synced>>
  BY DEF Tick
<1>2. ASSUME NEW q \in Queues
      PROVE  SameOrder(tx[q], tx'[q])
  <2>1. tx[q] \in Queue
    BY EndsType
  <2>2. tx'[q] = tx[q] \/ tx'[q] = Aged(q, tx[q])
    BY DEF Tick, Aged
  <2>. QED  BY <2>1, <2>2, AgedIs DEF SameOrder
<1>. QED  BY <1>1, <1>2, AgedDelivery

LEMMA InitDelivery == Init => DeliveryInv
<1>. SUFFICES ASSUME Init
              PROVE  DeliveryInv
  OBVIOUS
<1>. DEFINE none == <<>>
            pack == [buf |-> none, cmds |-> 0, waiting |-> FALSE, age |-> 0]
            qu == [entries |-> none, seq |-> SeqSize - 1, last |-> SeqSize - 1, serial |-> 0,
                   pack |-> pack, refused |-> FALSE]
<1>1. DOMAIN none = {} /\ Len(none) = 0
  OBVIOUS
<1>2. ASSUME NEW q \in Queues
      PROVE  /\ tx[q] = qu /\ data[q] = none /\ acks[q] = none /\ delivered[q] = none
             /\ recv[q] = SeqSize - 1 /\ rserial[q] = 0 /\ sent = 0
  BY DEF Init, NewQueue
<1>3. \A n \in Cmds : done[n] = none
  BY DEF Init
<1>4. none # <<"ACK_RECEIVED">>
  OBVIOUS
<1>. HIDE DEF none
<1>5. /\ qu.entries = none /\ qu.seq = SeqSize - 1 /\ qu.serial = 0
      /\ qu.pack.buf = none /\ qu.pack.cmds = 0
  OBVIOUS
<1>. HIDE DEF qu
<1>6. NamesOf(none) = {} /\ Rising(none) /\ RisingNames(none)
  BY <1>1 DEF NamesOf, Rising, RisingNames
<1>7. ASSUME NEW q \in Queues
      PROVE  EndsFit(q)
  <2>1. DeliveredIn(q) = {}
    BY <1>1, <1>2 DEF DeliveredIn
  <2>2. Packs(tx[q])
    <3>1. \A i \in 1..0 : FALSE
      OBVIOUS
    <3>. QED  BY <1>1, <1>2, <1>5, <3>1 DEF Packs
  <2>3. Fits(tx[q], data[q], rserial[q], DeliveredIn(q), sent)
    BY <1>1, <1>2, <1>5, <1>6, <2>1, NumberStart DEF Fits, QueueFits, Behind
  <2>4. AcksFit(q)
    BY <1>1, <1>2 DEF AcksFit
  <2>5. InWindow(q)
    BY <1>1, <1>2, <1>5, SeqAssumption DEF InWindow
  <2>6. recv[q] = NumberOf(rserial[q])
    BY <1>2, NumberStart
  <2>. QED  BY <1>2, <1>6, <2>2, <2>3, <2>4, <2>5, <2>6 DEF EndsFit
<1>8. AckSound
  BY <1>3, <1>4 DEF AckSound
<1>. QED  BY <1>7, <1>8 DEF DeliveryInv

LEMMA NextDelivery == IInv /\ DeliveryInv /\ [Next]_vars => DeliveryInv'
<1>. SUFFICES ASSUME IInv, DeliveryInv, [Next]_vars
              PROVE  DeliveryInv'
  OBVIOUS
<1>1. ASSUME NEW bt \in BufferTypes, NEW size \in Sizes, Send(bt, size)
      PROVE  DeliveryInv'
  BY <1>1, SendDelivery
<1>2. CASE TimerCb
  BY <1>2, TimerCbDelivery
<1>3. ASSUME NEW q \in Queues, NEW copy \in BOOLEAN, RecvAck(q, copy)
      PROVE  DeliveryInv'
  BY <1>3, RecvAckDelivery
<1>4. ASSUME NEW q \in Queues, NEW copy \in BOOLEAN, RecvData(q, copy)
      PROVE  DeliveryInv'
  BY <1>4, RecvDataDelivery
<1>5. CASE Stop
  BY <1>5, StopDelivery
<1>6. ASSUME NEW q \in Queues, LoseData(q) \/ LoseAck(q)
      PROVE  DeliveryInv'
  BY <1>6, LoseDelivery
<1>7. CASE Tick
  BY <1>7, TickDelivery
<1>8. CASE UNCHANGED vars
  BY <1>8, AgedDelivery DEF vars, SameOrder, receiver
<1>. QED  BY <1>1, <1>2, <1>3, <1>4, <1>5, <1>6, <1>7, <1>8 DEF Next

(* Commands are given to the peer's application in order and once, though  *)
(* packs are lost, duplicated and sent again and their numbers wrap; and   *)
(* what an acknowledgement completes is what its pack held, as long as the *)
(* numbers stayed unambiguous (arsdk_cmd_itf2_recv_data, recv_ack).        *)
THEOREM CompletedWereDelivered == Spec => []Delivered
<1>1. Spec => [](IInv /\ DeliveryInv)
  BY InitIInv, NextIInv, InitDelivery, NextDelivery, PTL DEF Spec
<1>2. IInv /\ DeliveryInv => Delivered
  BY DEF DeliveryInv, EndsFit, RisingNames, Delivered, InOrderOnce
<1>. QED  BY <1>1, <1>2, PTL
=============================================================================
