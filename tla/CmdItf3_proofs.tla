-------------------------- MODULE CmdItf3_proofs --------------------------
(***************************************************************************)
(* Theorems about CmdItf3, for every table of queues, every size of packs  *)
(* and of commands, every width of the sequence numbers and every bound.   *)
(***************************************************************************)
EXTENDS CmdItf3Props, TLAPS, SequenceTheorems, FiniteSetTheorems, WellFoundedInduction


(***************************************************************************)
(* Counting up to a bound, the largest and the smallest of some numbers    *)
(***************************************************************************)

LEMMA LeastOf ==
  ASSUME NEW S \in SUBSET Nat, S # {}
  PROVE  \E x \in S : \A y \in S : x <= y
<1>1. \E x \in S : \A y \in S : ~(<<y, x>> \in OpToRel(<, Nat))
  BY NatLessThanWellFounded, WFMin, Zenon
<1>2. PICK x \in S : \A y \in S : ~(<<y, x>> \in OpToRel(<, Nat))
  BY <1>1
<1>3. ASSUME NEW y \in S
      PROVE  x <= y
  <2>1. ~(y < x)
    BY <1>2, <1>3 DEF OpToRel
  <2>. QED  BY <2>1
<1>. QED  BY <1>3

LEMMA MinOfNaturals ==
  ASSUME NEW S \in SUBSET Nat, S # {}
  PROVE  Min(S) \in S /\ \A y \in S : Min(S) <= y
  BY LeastOf DEF Min

LEMMA MaxOfInterval ==
  ASSUME NEW L \in Nat, NEW S \in SUBSET (0..L), S # {}
  PROVE  Max(S) \in S /\ \A y \in S : y <= Max(S)
<1>. DEFINE T == {L - x : x \in S}
<1>1. T \in SUBSET Nat /\ T # {}
  <2>1. \A x \in S : L - x \in Nat
    OBVIOUS
  <2>. QED  BY <2>1
<1>2. PICK d \in T : \A e \in T : d <= e
  BY <1>1, LeastOf
<1>3. PICK x \in S : d = L - x
  BY <1>2
<1>4. ASSUME NEW y \in S
      PROVE  y <= x
  <2>1. L - y \in T
    OBVIOUS
  <2>2. L - x <= L - y
    BY <1>2, <1>3, <2>1
  <2>. QED  BY <2>2
<1>5. \A y \in S : x >= y
  BY <1>4
<1>6. \E m \in S : \A y \in S : m >= y
  BY <1>5
<1>7. Max(S) \in S /\ \A y \in S : Max(S) >= y
  BY <1>6 DEF Max
<1>. QED  BY <1>7

LEMMA CountUp ==
  ASSUME NEW N \in Nat, NEW T, 0 \in T,
         \A k \in 1..N : k - 1 \in T => k \in T
  PROVE  \A k \in 0..N : k \in T
<1>. DEFINE F == {k \in 0..N : k \notin T}
<1>1. SUFFICES ASSUME F # {}
               PROVE  FALSE
  OBVIOUS
<1>2. F \in SUBSET Nat
  OBVIOUS
<1>3. PICK k \in F : \A j \in F : k <= j
  BY <1>1, <1>2, LeastOf
<1>4. k # 0 /\ k \in 1..N
  BY <1>3
<1>5. k - 1 \notin F
  BY <1>3, <1>4
<1>. QED  BY <1>3, <1>4, <1>5

(* A function that is defined from its value for the number before.        *)
Steps(g, S, N) == \A k \in 1..N : \A x \in S : g[<<k, x>>] \in S
Iterates(f, a, g, S, N) ==
    /\ f \in [0..N -> S]
    /\ f[0] = a
    /\ \A k \in 1..N : f[k] = g[<<k, f[k - 1]>>]

LEMMA Recursion ==
  ASSUME NEW S, NEW a \in S, NEW N \in Nat, NEW g, Steps(g, S, N)
  PROVE  \E f : Iterates(f, a, g, S, N)
<1>. DEFINE T == {n \in 0..N : \E f \in [0..n -> S] :
                                  /\ f[0] = a
                                  /\ \A k \in 1..n : f[k] = g[<<k, f[k - 1]>>]}
<1>0. \A k \in 1..N : \A x \in S : g[<<k, x>>] \in S
  BY DEF Steps
<1>1. 0 \in T
  <2>. DEFINE f == [k \in 0..0 |-> a]
  <2>1. f \in [0..0 -> S] /\ f[0] = a /\ \A k \in 1..0 : f[k] = g[<<k, f[k - 1]>>]
    OBVIOUS
  <2>2. 0 \in 0..N
    OBVIOUS
  <2>. HIDE DEF f
  <2>. QED  BY <2>1, <2>2
<1>2. ASSUME NEW n \in 1..N, n - 1 \in T
      PROVE  n \in T
  <2>1. PICK f \in [0..(n - 1) -> S] : /\ f[0] = a
                                       /\ \A k \in 1..(n - 1) : f[k] = g[<<k, f[k - 1]>>]
    BY <1>2
  <2>. DEFINE h == [k \in 0..n |-> IF k = n THEN g[<<n, f[n - 1]>>] ELSE f[k]]
  <2>2. f[n - 1] \in S
    BY <2>1
  <2>3. g[<<n, f[n - 1]>>] \in S
    BY <1>0, <2>2
  <2>4. h \in [0..n -> S]
    BY <2>1, <2>3
  <2>5. h[0] = a
    <3>1. 0 \in 0..n /\ 0 # n
      BY <1>2
    <3>. QED  BY <2>1, <3>1
  <2>6. ASSUME NEW k \in 1..n
        PROVE  h[k] = g[<<k, h[k - 1]>>]
    <3>1. h[k - 1] = f[k - 1]
      OBVIOUS
    <3>2. CASE k = n
      BY <3>1, <3>2
    <3>3. CASE k # n
      <4>1. k \in 1..(n - 1) /\ h[k] = f[k]
        BY <3>3
      <4>. QED  BY <2>1, <3>1, <4>1
    <3>. QED  BY <3>2, <3>3
  <2>. HIDE DEF h
  <2>7. n \in 0..N
    OBVIOUS
  <2>8. \E r \in [0..n -> S] : r[0] = a /\ \A k \in 1..n : r[k] = g[<<k, r[k - 1]>>]
    BY <2>4, <2>5, <2>6
  <2>. QED  BY <2>7, <2>8
<1>. HIDE DEF T
<1>3. N \in T
  BY <1>1, <1>2, CountUp
<1>4. PICK f \in [0..N -> S] : f[0] = a /\ \A k \in 1..N : f[k] = g[<<k, f[k - 1]>>]
  BY <1>3 DEF T
<1>5. Iterates(f, a, g, S, N)
  BY <1>4 DEF Iterates
<1>. QED  BY <1>5

(***************************************************************************)
(* Types of the operators                                                  *)
(***************************************************************************)

NamesOf(cmds) == {cmds[i].n : i \in DOMAIN cmds}

LEMMA QueueInfoType ==
  ASSUME NEW q \in Queues
  PROVE  /\ Info[q].ackTimeout \in Nat /\ (WithAck(q) => Info[q].ackTimeout > 0)
         /\ Info[q].maxRate \in Nat
<1>1. Info[q] \in QueueInfo
  BY InfoAssumption, ElementOfSeq DEF Queues
<1>. QED  BY <1>1, TimeoutAssumption DEF QueueInfo, WithAck, Queues

LEMMA SeqnumType ==
  ASSUME NEW s \in 0..(SeqSize - 1)
  PROVE  Seqnum(s, 1) \in 0..(SeqSize - 1)
  BY SeqAssumption DEF Seqnum

LEMMA QueueType ==
  ASSUME NEW qu \in Queue
  PROVE  /\ qu.entries \in Seq(Command) /\ qu.seq \in 0..(SeqSize - 1)
         /\ qu.txAge \in Nat /\ qu.serial \in Nat
         /\ qu.last.seq \in 0..(SeqSize - 1) /\ qu.last.remaining \in Nat
         /\ qu.pack \in Pack /\ qu.pack.bytes \in Seq(Byte) /\ qu.pack.cmds \in Nat
         /\ qu.pack.remaining \in Nat
         /\ qu.pack.waiting \in BOOLEAN /\ qu.pack.age \in Nat
         /\ DOMAIN qu.entries = 1..Len(qu.entries) /\ Len(qu.entries) \in Nat
  BY DEF Queue, Pack

LEMMA CommandType ==
  ASSUME NEW es \in Seq(Command)
  PROVE  /\ Len(es) \in Nat /\ DOMAIN es = 1..Len(es)
         /\ \A i \in DOMAIN es : es[i] \in Command /\ es[i].n \in Cmds /\ es[i].size \in Nat
         /\ NamesOf(es) \subseteq Cmds
         /\ es # <<>> => 1 \in DOMAIN es /\ Len(es) > 0
<1>1. /\ Len(es) \in Nat /\ DOMAIN es = 1..Len(es)
      /\ \A i \in DOMAIN es : es[i] \in Command
  BY LenProperties
<1>2. \A c \in Command : c.n \in Cmds /\ c.size \in Nat
  BY SizeAssumption DEF Command
<1>3. es # <<>> => Len(es) > 0
  BY <1>1, EmptySeq
<1>. QED  BY <1>1, <1>2, <1>3 DEF NamesOf

(***************************************************************************)
(* Names of commands: cutting a queue in two loses and doubles none.       *)
(***************************************************************************)

Distinct(es) == \A i, j \in DOMAIN es : es[i].n = es[j].n => i = j
Accounts(before, after, names) ==
    /\ NamesOf(after) \cup names = NamesOf(before)
    /\ Distinct(before) => Distinct(after) /\ NamesOf(after) \cap names = {}

LEMMA SplitIs ==
  ASSUME NEW es \in Seq(Command), NEW k \in 0..Len(es)
  PROVE  /\ SubSeq(es, 1, k) \in Seq(Command) /\ Len(SubSeq(es, 1, k)) = k
         /\ DOMAIN SubSeq(es, 1, k) = 1..k
         /\ \A i \in 1..k : SubSeq(es, 1, k)[i] = es[i]
         /\ SubSeq(es, k + 1, Len(es)) \in Seq(Command)
         /\ Len(SubSeq(es, k + 1, Len(es))) = Len(es) - k
         /\ DOMAIN SubSeq(es, k + 1, Len(es)) = 1..(Len(es) - k)
         /\ \A i \in 1..(Len(es) - k) : SubSeq(es, k + 1, Len(es))[i] = es[i + k]
<1>. DEFINE L == Len(es)
<1>1. L \in Nat /\ DOMAIN es = 1..L /\ \A i \in 1..L : es[i] \in Command
  BY CommandType
<1>2. k \in 0..L
  OBVIOUS
<1>. HIDE DEF L
<1>3. /\ SubSeq(es, 1, k) \in Seq(Command) /\ Len(SubSeq(es, 1, k)) = k
      /\ \A i \in 1..k : SubSeq(es, 1, k)[i] = es[i]
  <2>1. /\ SubSeq(es, 1, k) \in Seq(Command)
        /\ Len(SubSeq(es, 1, k)) = IF 1 <= k THEN k - 1 + 1 ELSE 0
        /\ \A i \in 1..(k - 1 + 1) : SubSeq(es, 1, k)[i] = es[1 + i - 1]
    BY <1>1, <1>2, SubSeqProperties
  <2>2. k - 1 + 1 = k /\ \A i \in Int : 1 + i - 1 = i
    BY <1>1, <1>2
  <2>. QED  BY <1>1, <1>2, <2>1, <2>2
<1>4. /\ SubSeq(es, k + 1, L) \in Seq(Command) /\ Len(SubSeq(es, k + 1, L)) = L - k
      /\ \A i \in 1..(L - k) : SubSeq(es, k + 1, L)[i] = es[i + k]
  <2>1. /\ SubSeq(es, k + 1, L) \in Seq(Command)
        /\ Len(SubSeq(es, k + 1, L)) = IF k + 1 <= L THEN L - (k + 1) + 1 ELSE 0
        /\ \A i \in 1..(L - (k + 1) + 1) : SubSeq(es, k + 1, L)[i] = es[(k + 1) + i - 1]
    BY <1>1, <1>2, SubSeqProperties
  <2>2. L - (k + 1) + 1 = L - k /\ \A i \in Int : (k + 1) + i - 1 = i + k
    BY <1>1, <1>2
  <2>. QED  BY <1>1, <1>2, <2>1, <2>2
<1>5. /\ DOMAIN SubSeq(es, 1, k) = 1..k
      /\ DOMAIN SubSeq(es, k + 1, L) = 1..(L - k)
  BY <1>1, <1>2, <1>3, <1>4, LenProperties
<1>. QED  BY <1>3, <1>4, <1>5 DEF L

LEMMA SplitNames ==
  ASSUME NEW es \in Seq(Command), NEW k \in 0..Len(es)
  PROVE  Accounts(es, SubSeq(es, k + 1, Len(es)), NamesOf(SubSeq(es, 1, k)))
<1>. DEFINE L == Len(es)
            head == SubSeq(es, 1, k)
            rest == SubSeq(es, k + 1, Len(es))
<1>1. L \in Nat /\ DOMAIN es = 1..L /\ k \in 0..L /\ k \in Nat
  BY CommandType
<1>2. /\ DOMAIN head = 1..k /\ \A i \in 1..k : head[i] = es[i]
      /\ DOMAIN rest = 1..(L - k) /\ \A i \in 1..(L - k) : rest[i] = es[i + k]
  BY SplitIs
<1>. HIDE DEF L, head, rest
<1>3. /\ \A x : x \in NamesOf(es) <=> \E i \in 1..L : x = es[i].n
      /\ \A x : x \in NamesOf(head) <=> \E i \in 1..k : x = es[i].n
  BY <1>1, <1>2 DEF NamesOf
<1>4. ASSUME NEW x
      PROVE  x \in NamesOf(rest) <=> \E i \in (k + 1)..L : x = es[i].n
  <2>1. ASSUME NEW i \in (k + 1)..L, x = es[i].n
        PROVE  x \in NamesOf(rest)
    <3>1. i - k \in 1..(L - k) /\ (i - k) + k = i
      BY <1>1
    <3>2. i - k \in DOMAIN rest /\ rest[i - k].n = x
      BY <1>2, <2>1, <3>1
    <3>. QED  BY <3>2 DEF NamesOf
  <2>2. ASSUME NEW i \in 1..(L - k), x = rest[i].n
        PROVE  \E j \in (k + 1)..L : x = es[j].n
    <3>1. i + k \in (k + 1)..L /\ x = es[i + k].n
      BY <1>1, <1>2, <2>2
    <3>. QED  BY <3>1
  <2>. QED  BY <1>2, <2>1, <2>2 DEF NamesOf
<1>5. \A i \in Int : i \in 1..L <=> i \in 1..k \/ i \in (k + 1)..L
  BY <1>1
<1>6. NamesOf(rest) \cup NamesOf(head) = NamesOf(es)
  BY <1>3, <1>4, <1>5
<1>7. ASSUME Distinct(es)
      PROVE  Distinct(rest) /\ NamesOf(rest) \cap NamesOf(head) = {}
  <2>1. ASSUME NEW i \in 1..(L - k), NEW j \in 1..(L - k), rest[i].n = rest[j].n
        PROVE  i = j
    <3>1. i + k \in DOMAIN es /\ j + k \in DOMAIN es
      BY <1>1
    <3>2. i + k = j + k
      BY <1>2, <1>7, <2>1, <3>1 DEF Distinct
    <3>. QED  BY <1>1, <3>2
  <2>2. ASSUME NEW i \in 1..k, NEW j \in (k + 1)..L
        PROVE  es[i].n # es[j].n
    <3>1. i \in DOMAIN es /\ j \in DOMAIN es /\ i # j
      BY <1>1
    <3>. QED  BY <1>7, <3>1 DEF Distinct
  <2>3. Distinct(rest)
    BY <1>2, <2>1 DEF Distinct
  <2>4. \A x : ~(x \in NamesOf(rest) /\ x \in NamesOf(head))
    BY <1>3, <1>4, <2>2
  <2>. QED  BY <2>3, <2>4
<1>. QED  BY <1>6, <1>7 DEF Accounts, head, rest

(***************************************************************************)
(* Packing                                                                 *)

(***************************************************************************)
(* The bytes of commands                                                   *)
(***************************************************************************)

(* The bytes of a command, or the last of them.                            *)
BytesOf(bs, c) == \A j \in DOMAIN bs : bs[j].n = c.n

LEMMA FunctionIsSeq ==
  ASSUME NEW S, NEW N \in Nat, NEW f, f \in [1..N -> S]
  PROVE  f \in Seq(S) /\ Len(f) = N
  OBVIOUS

LEMMA EncodedIs ==
  ASSUME NEW c \in Command
  PROVE  /\ Encoded(c) \in Seq(Byte) /\ Len(Encoded(c)) = c.size + 1
         /\ BytesOf(Encoded(c), c)
<1>. DEFINE N == c.size + 1
            bs == Encoded(c)
<1>0. c.n \in Cmds /\ c.size \in Sizes
  BY DEF Command
<1>1. c.n \in Cmds /\ c.size \in Sizes /\ c.size \in Nat /\ N \in Nat
  <2>1. c.size \in Nat
    BY <1>0, SizeAssumption
  <2>. QED  BY <1>0, <2>1
<1>2. ASSUME NEW k \in 1..N
      PROVE  bs[k] \in Byte /\ bs[k].n = c.n
  <2>1. bs[k] = [n |-> c.n, size |-> c.size, k |-> k - 1]
    BY DEF Encoded
  <2>2. k - 1 \in Nat
    BY <1>1
  <2>. QED  BY <1>1, <2>1, <2>2 DEF Byte
<1>3. bs = [k \in 1..N |-> bs[k]]
  BY DEF Encoded
<1>. HIDE DEF bs, N
<1>4. bs \in [1..N -> Byte]
  BY <1>2, <1>3
<1>5. bs \in Seq(Byte) /\ Len(bs) = N /\ DOMAIN bs = 1..N
  BY <1>1, <1>4, FunctionIsSeq
<1>. QED  BY <1>2, <1>5 DEF BytesOf, bs, N

LEMMA RestIs ==
  ASSUME NEW c \in Command, NEW len \in 1..c.size
  PROVE  Rest(c, len) \in Seq(Byte) /\ Len(Rest(c, len)) = len /\ BytesOf(Rest(c, len), c)
<1>. DEFINE bs == Encoded(c)
            a == c.size + 2 - len
            b == c.size + 1
            r == Rest(c, len)
<1>1. c.size \in Nat
  BY SizeAssumption DEF Command
<1>2. /\ bs \in Seq(Byte) /\ Len(bs) = b /\ DOMAIN bs = 1..b
      /\ \A j \in 1..b : bs[j] \in Byte /\ bs[j].n = c.n
  BY EncodedIs DEF BytesOf
<1>3. a \in Int /\ b \in Int /\ 1 <= a /\ a <= b /\ b - a + 1 = len
  BY <1>1
<1>4. r = SubSeq(bs, a, b)
  BY DEF Rest
<1>. HIDE DEF bs, a, b, r
<1>5. \A i \in a..b : i \in 1..b
  BY <1>3
<1>6. \A i \in 1..len : a + i - 1 \in 1..b
  BY <1>3
<1>7. /\ r \in Seq(Byte) /\ Len(r) = len
      /\ \A i \in 1..len : r[i] = bs[a + i - 1]
  BY <1>2, <1>3, <1>4, <1>5, SubSeqProperties
<1>8. DOMAIN r = 1..len
  BY <1>7, LenProperties
<1>9. BytesOf(r, c)
  BY <1>2, <1>6, <1>7, <1>8 DEF BytesOf
<1>. QED  BY <1>7, <1>9 DEF r

Left(es, i, remaining) == remaining # 0 => i \in DOMAIN es /\ remaining <= es[i].size

LEMMA ChunksAre ==
  ASSUME NEW qu \in Queue, Left(qu.entries, 1, qu.last.remaining)
  PROVE  LET cs == Chunks(qu)
             es == qu.entries
         IN  /\ cs \in Seq(Seq(Byte)) /\ Len(cs) = Len(es)
             /\ \A i \in 1..Len(es) : /\ cs[i] \in Seq(Byte) /\ BytesOf(cs[i], es[i])
                                      /\ Len(cs[i]) \in 1..(es[i].size + 1)
             /\ es # <<>> /\ qu.last.remaining = 0 => Len(cs[1]) = es[1].size + 1
<1>. DEFINE cs == Chunks(qu)
            es == qu.entries
            L == Len(es)
<1>1. /\ es \in Seq(Command) /\ L \in Nat /\ DOMAIN es = 1..L
      /\ \A i \in 1..L : es[i] \in Command /\ es[i].size \in Nat
      /\ es # <<>> => 1 \in DOMAIN es
      /\ qu.last.remaining \in Nat
  BY QueueType, CommandType
<1>2. ASSUME NEW i \in 1..L
      PROVE  /\ cs[i] \in Seq(Byte) /\ BytesOf(cs[i], es[i])
             /\ Len(cs[i]) \in 1..(es[i].size + 1)
             /\ qu.last.remaining = 0 => Len(cs[i]) = es[i].size + 1
  <2>1. es[i] \in Command /\ es[i].size \in Nat /\ i \in DOMAIN es
    BY <1>1
  <2>2. CASE i = 1 /\ qu.last.remaining # 0
    <3>1. cs[i] = Rest(es[i], qu.last.remaining)
      BY <2>1, <2>2 DEF Chunks
    <3>2. qu.last.remaining \in 1..es[i].size
      BY <1>1, <2>1, <2>2 DEF Left
    <3>3. cs[i] \in Seq(Byte) /\ Len(cs[i]) = qu.last.remaining /\ BytesOf(cs[i], es[i])
      BY <2>1, <3>1, <3>2, RestIs
    <3>4. qu.last.remaining \in 1..(es[i].size + 1)
      BY <2>1, <3>2
    <3>. QED  BY <2>2, <3>3, <3>4
  <2>3. CASE ~(i = 1 /\ qu.last.remaining # 0)
    <3>1. cs[i] = Encoded(es[i])
      BY <2>1, <2>3 DEF Chunks
    <3>2. cs[i] \in Seq(Byte) /\ Len(cs[i]) = es[i].size + 1 /\ BytesOf(cs[i], es[i])
      BY <2>1, <3>1, EncodedIs
    <3>3. es[i].size + 1 \in 1..(es[i].size + 1)
      BY <2>1
    <3>. QED  BY <3>2, <3>3
  <2>. QED  BY <2>2, <2>3
<1>3. cs = [i \in 1..L |-> cs[i]]
  BY <1>1 DEF Chunks
<1>. HIDE DEF cs, es, L
<1>4. cs \in [1..L -> Seq(Byte)]
  BY <1>2, <1>3
<1>5. cs \in Seq(Seq(Byte)) /\ Len(cs) = L
  BY <1>1, <1>4, FunctionIsSeq
<1>6. es # <<>> => 1 \in 1..L
  BY <1>1
<1>. QED  BY <1>2, <1>5, <1>6 DEF cs, es, L

(***************************************************************************)
(* The chunks of a queue, end to end.  ends(i) is f[i]: the first i.       *)
(***************************************************************************)

Joined(cs, f) ==
    /\ f \in [0..Len(cs) -> Seq(Byte)]
    /\ f[0] = <<>>
    /\ \A k \in 1..Len(cs) : f[k] = f[k - 1] \o cs[k]

LEMMA FlattenIs ==
  ASSUME NEW cs \in Seq(Seq(Byte)), NEW f, Joined(cs, f), NEW i \in 0..Len(cs)
  PROVE  FlattenSeq(SubSeq(cs, 1, i)) = f[i]
<1>. DEFINE L == Len(cs)
            s == SubSeq(cs, 1, i)
            Flat(h) == h = [k \in 1..Len(s) |-> IF k = 1 THEN s[k] ELSE h[k - 1] \o s[k]]
            flat == CHOOSE h : Flat(h)
<1>1. /\ L \in Nat /\ i \in Nat /\ i <= L
      /\ \A k \in 1..L : cs[k] \in Seq(Byte)
  BY LenProperties, ElementOfSeq
<1>2. Len(s) = i /\ s \in Seq(Seq(Byte)) /\ \A k \in 1..i : s[k] = cs[k]
  <2>1. \A k \in 1..i : k \in 1..L
    BY <1>1
  <2>2. /\ s \in Seq(Seq(Byte)) /\ Len(s) = IF 1 <= i THEN i - 1 + 1 ELSE 0
        /\ \A k \in 1..(i - 1 + 1) : s[k] = cs[1 + k - 1]
    <3>. HIDE DEF L
    <3>. QED  BY <1>1, <2>1, SubSeqProperties
  <2>3. i - 1 + 1 = i /\ \A k \in Int : 1 + k - 1 = k
    BY <1>1
  <2>. HIDE DEF s
  <2>. QED  BY <1>1, <2>2, <2>3
<1>3. CASE i = 0
  <2>1. s = <<>>
    <3>. HIDE DEF s
    <3>. QED  BY <1>2, <1>3, EmptySeq
  <2>2. FlattenSeq(s) = s
    <3>. HIDE DEF s
    <3>. QED  BY <1>2, <1>3 DEF FlattenSeq
  <2>. QED  BY <1>3, <2>1, <2>2 DEF Joined
<1>4. CASE i # 0
  <2>1. FlattenSeq(s) = flat[i]
    <3>1. Len(s) # 0
      BY <1>2, <1>4
    <3>2. FlattenSeq(s) = flat[Len(s)]
      BY <3>1 DEF FlattenSeq
    <3>. QED  BY <1>2, <3>2
  <2>2. ASSUME NEW k \in 1..i
        PROVE  f[k] = IF k = 1 THEN s[k] ELSE f[k - 1] \o s[k]
    <3>0. k \in 1..L
      BY <1>1
    <3>1. k \in 1..L /\ f[k] = f[k - 1] \o cs[k] /\ s[k] = cs[k]
      <4>. HIDE DEF s
      <4>. QED  BY <1>2, <3>0 DEF Joined
    <3>2. k = 1 => f[k - 1] = <<>>
      BY DEF Joined
    <3>3. <<>> \o cs[k] = cs[k]
      BY <1>1, <3>1, ConcatEmptySeq
    <3>. QED  BY <3>1, <3>2, <3>3
  <2>3. Flat([k \in 1..i |-> f[k]])
    <3>. DEFINE h == [k \in 1..i |-> f[k]]
    <3>1. ASSUME NEW k \in 1..i
          PROVE  h[k] = IF k = 1 THEN s[k] ELSE h[k - 1] \o s[k]
      <4>1. k # 1 => k - 1 \in 1..i
        BY <1>1
      <4>2. k # 1 => h[k - 1] = f[k - 1]
        BY <4>1
      <4>. QED  BY <2>2, <4>2
    <3>. HIDE DEF s
    <3>. QED  BY <1>2, <3>1
  <2>4. Flat(flat)
    <3>. HIDE DEF Flat
    <3>. QED  BY <2>3
  <2>5. /\ DOMAIN flat = 1..i
        /\ \A k \in 1..i : flat[k] = IF k = 1 THEN s[k] ELSE flat[k - 1] \o s[k]
    <3>. HIDE DEF flat, s
    <3>. QED  BY <1>2, <2>4
  <2>6. \A k \in 0..i : k \in {j \in 0..i : j # 0 => flat[j] = f[j]}
    <3>. HIDE DEF flat, Flat, s
    <3>. DEFINE T == {j \in 0..i : j # 0 => flat[j] = f[j]}
    <3>1. 0 \in T
      BY <1>1
    <3>2. ASSUME NEW k \in 1..i, k - 1 \in T
          PROVE  k \in T
      <4>1. k - 1 # 0 => flat[k - 1] = f[k - 1]
        BY <3>2
      <4>2. k # 1 => k - 1 # 0
        OBVIOUS
      <4>3. flat[k] = f[k]
        BY <2>2, <2>5, <4>1, <4>2
      <4>. QED  BY <1>1, <4>3
    <3>. HIDE DEF T
    <3>3. \A k \in 0..i : k \in T
      BY <1>1, <3>1, <3>2, CountUp
    <3>. QED  BY <3>3 DEF T
  <2>7. flat[i] = f[i]
    <3>. HIDE DEF flat
    <3>. QED  BY <1>1, <1>4, <2>6
  <2>. QED  BY <2>1, <2>7
<1>. QED  BY <1>3, <1>4

LEMMA JoinedIs ==
  ASSUME NEW cs \in Seq(Seq(Byte))
  PROVE  \E f : Joined(cs, f)
<1>. DEFINE L == Len(cs)
            g == [x \in (1..L) \X Seq(Byte) |-> x[2] \o cs[x[1]]]
<1>1. L \in Nat /\ \A k \in 1..L : cs[k] \in Seq(Byte)
  BY LenProperties, ElementOfSeq
<1>2. ASSUME NEW k \in 1..L, NEW x \in Seq(Byte)
      PROVE  g[<<k, x>>] = x \o cs[k] /\ g[<<k, x>>] \in Seq(Byte)
  <2>1. <<k, x>> \in (1..L) \X Seq(Byte)
    OBVIOUS
  <2>2. g[<<k, x>>] = x \o cs[k]
    BY <2>1
  <2>. QED  BY <1>1, <2>2, ConcatProperties
<1>. HIDE DEF g
<1>3. <<>> \in Seq(Byte)
  BY EmptySeq
<1>4. Steps(g, Seq(Byte), L)
  BY <1>2 DEF Steps
<1>5. PICK f : Iterates(f, <<>>, g, Seq(Byte), L)
  <2>. HIDE DEF L
  <2>. QED  BY <1>1, <1>3, <1>4, Recursion
<1>6. ASSUME NEW k \in 1..L
      PROVE  f[k] = f[k - 1] \o cs[k]
  <2>1. k - 1 \in 0..L
    BY <1>1
  <2>2. f[k - 1] \in Seq(Byte)
    BY <1>5, <2>1 DEF Iterates
  <2>. QED  BY <1>2, <1>5, <2>2 DEF Iterates
<1>7. Joined(cs, f)
  BY <1>5, <1>6 DEF Iterates, Joined
<1>. QED  BY <1>7

Chunked(cs, es) ==
    /\ cs \in Seq(Seq(Byte)) /\ Len(cs) = Len(es)
    /\ \A i \in 1..Len(es) : /\ cs[i] \in Seq(Byte) /\ BytesOf(cs[i], es[i])
                             /\ Len(cs[i]) \in Nat /\ Len(cs[i]) >= 1

(* Where the bytes of each command are among those of the first k.         *)
Placed(f, cs, k) ==
    /\ \A i \in 0..k : Len(f[i]) <= Len(f[k])
    /\ \A i \in 1..k, j \in 1..Len(f[k]) :
          Len(f[i - 1]) < j /\ j <= Len(f[i]) => f[k][j] = cs[i][j - Len(f[i - 1])]

(* z is x and then y, which is not empty.                                  *)
Glued(x, y, z) ==
    /\ Len(z) = Len(x) + Len(y) /\ Len(x) < Len(z)
    /\ \A j \in 1..Len(z) : z[j] = IF j <= Len(x) THEN x[j] ELSE y[j - Len(x)]

LEMMA GluedIs ==
  ASSUME NEW x \in Seq(Byte), NEW y \in Seq(Byte), Len(y) >= 1
  PROVE  Glued(x, y, x \o y)
<1>. DEFINE z == x \o y
            lx == Len(x)
            ly == Len(y)
            lz == Len(z)
<1>1. lx \in Nat /\ ly \in Nat
  BY LenProperties
<1>2. lz = lx + ly /\ \A j \in 1..(lx + ly) : z[j] = IF j <= lx THEN x[j] ELSE y[j - lx]
  BY ConcatProperties
<1>3. ly >= 1
  OBVIOUS
<1>. HIDE DEF z, lx, ly, lz
<1>4. lx < lz
  BY <1>1, <1>2, <1>3
<1>5. \A j \in 1..lz : z[j] = IF j <= lx THEN x[j] ELSE y[j - lx]
  BY <1>2
<1>6. lz = lx + ly
  BY <1>2
<1>. QED  BY <1>4, <1>5, <1>6 DEF Glued, z, lx, ly, lz

LEMMA JoinedLengths ==
  ASSUME NEW es \in Seq(Command), NEW cs, Chunked(cs, es), NEW f, Joined(cs, f)
  PROVE  /\ Len(es) \in Nat
         /\ \A k \in 0..Len(es) : f[k] \in Seq(Byte) /\ Len(f[k]) \in Nat
         /\ Len(f[0]) = 0
         /\ \A k \in 1..Len(es) : Glued(f[k - 1], cs[k], f[k])
<1>1. Len(es) \in Nat /\ Len(cs) = Len(es)
  BY CommandType DEF Chunked
<1>2. \A k \in 0..Len(es) : f[k] \in Seq(Byte) /\ Len(f[k]) \in Nat
  BY <1>1, LenProperties DEF Joined
<1>3. Len(f[0]) = 0
  BY DEF Joined
<1>4. ASSUME NEW k \in 1..Len(es)
      PROVE  Glued(f[k - 1], cs[k], f[k])
  <2>1. k - 1 \in 0..Len(es) /\ f[k - 1] \in Seq(Byte) /\ Len(f[k - 1]) \in Nat
    BY <1>1, <1>2
  <2>2. cs[k] \in Seq(Byte) /\ Len(cs[k]) \in Nat /\ Len(cs[k]) >= 1
    BY DEF Chunked
  <2>3. f[k] = f[k - 1] \o cs[k]
    BY <1>1 DEF Joined
  <2>. QED  BY <2>1, <2>2, <2>3, GluedIs
<1>. QED  BY <1>1, <1>2, <1>3, <1>4

LEMMA JoinedPlaces ==
  ASSUME NEW es \in Seq(Command), NEW cs, Chunked(cs, es), NEW f, Joined(cs, f)
  PROVE  \A k \in 0..Len(es) : Placed(f, cs, k)
<1>. DEFINE L == Len(es)
            T == {k \in 0..L : Placed(f, cs, k)}
<1>1. L \in Nat /\ Len(f[0]) = 0 /\ \A k \in 0..L : Len(f[k]) \in Nat
  BY JoinedLengths
<1>2. 0 \in T
  BY <1>1 DEF Placed
<1>3. ASSUME NEW k \in 1..L, k - 1 \in T
      PROVE  k \in T
  <2>. DEFINE before == f[k - 1]
              now == f[k]
              b == Len(before)
              m == Len(now)
  <2>1. /\ m = b + Len(cs[k]) /\ b < m
        /\ \A j \in 1..m : now[j] = IF j <= b THEN before[j] ELSE cs[k][j - b]
    <3>1. Glued(before, cs[k], now)
      BY JoinedLengths
    <3>. HIDE DEF before, now
    <3>. QED  BY <3>1 DEF Glued
  <2>2. k - 1 \in 0..L /\ b \in Nat /\ m \in Nat
    BY <1>1
  <2>3. /\ \A i \in 0..(k - 1) : Len(f[i]) <= b
        /\ \A i \in 1..(k - 1), j \in 1..b :
              Len(f[i - 1]) < j /\ j <= Len(f[i]) => before[j] = cs[i][j - Len(f[i - 1])]
    BY <1>3 DEF Placed
  <2>4. cs[k] \in Seq(Byte) /\ Len(cs[k]) \in Nat
    BY DEF Chunked
  <2>5. \A i \in 0..k : i \in 0..L /\ Len(f[i]) \in Nat /\ (i = k \/ i \in 0..(k - 1))
    BY <1>1
  <2>6. ASSUME NEW i \in 0..k
        PROVE  Len(f[i]) <= m
    <3>1. CASE i = k
      BY <2>2, <3>1
    <3>2. CASE i # k
      <4>1. Len(f[i]) <= b /\ Len(f[i]) \in Nat
        BY <2>3, <2>5, <3>2
      <4>. HIDE DEF b, m
      <4>. QED  BY <2>1, <2>2, <4>1
    <3>. QED  BY <3>1, <3>2
  <2>7. ASSUME NEW i \in 1..k, NEW j \in 1..m, Len(f[i - 1]) < j, j <= Len(f[i])
        PROVE  now[j] = cs[i][j - Len(f[i - 1])]
    <3>1. CASE i = k
      <4>1. b < j /\ ~(j <= b)
        <5>1. b < j
          BY <2>7, <3>1
        <5>. HIDE DEF b, m
        <5>. QED  BY <2>1, <2>2, <2>4, <5>1
      <4>2. now[j] = cs[k][j - b]
        <5>. HIDE DEF b, m, now, before
        <5>. QED  BY <2>1, <4>1
      <4>. QED  BY <3>1, <4>2
    <3>2. CASE i # k
      <4>1. i \in 1..(k - 1) /\ i \in 0..(k - 1)
        BY <1>1, <3>2
      <4>2. Len(f[i]) <= b /\ Len(f[i]) \in Nat
        BY <2>3, <2>5, <4>1
      <4>3. j \in 1..b /\ j <= b
        <5>. HIDE DEF b, m
        <5>. QED  BY <2>2, <2>7, <4>2
      <4>4. before[j] = cs[i][j - Len(f[i - 1])]
        BY <2>3, <2>7, <4>1, <4>3
      <4>5. now[j] = before[j]
        <5>. HIDE DEF b, m, now, before
        <5>. QED  BY <2>1, <4>3
      <4>. QED  BY <4>4, <4>5
    <3>. QED  BY <3>1, <3>2
  <2>8. Placed(f, cs, k)
    BY <2>6, <2>7 DEF Placed
  <2>9. k \in 0..L
    BY <1>1
  <2>. QED  BY <2>8, <2>9
<1>4. \A k \in 0..L : k \in T
  <2>. HIDE DEF T, L
  <2>. QED  BY <1>1, <1>2, <1>3, CountUp
<1>. QED  BY <1>4

(* A cut after b bytes is in command c: the pack holds bytes of it and of  *)
(* those before it.                                                        *)
CutAt(f, es, b, c) ==
    /\ Len(f[c - 1]) < b /\ b <= Len(f[c])
    /\ \A x : (\E j \in 1..b : x = f[Len(es)][j].n) <=> (\E i \in 1..c : x = es[i].n)

LEMMA CutIs ==
  ASSUME NEW es \in Seq(Command), NEW cs, Chunked(cs, es), NEW f, Joined(cs, f),
         NEW b \in Nat, b >= 1, b <= Len(f[Len(es)])
  PROVE  \E c \in 1..Len(es) : CutAt(f, es, b, c)
<1>. DEFINE L == Len(es)
            full == f[L]
            End(i) == Len(f[i])
<1>1. L \in Nat /\ End(0) = 0 /\ (\A k \in 0..L : End(k) \in Nat) /\ L \in 0..L
      /\ \A k \in 1..L : End(k - 1) < End(k)
  <2>1. L \in Nat /\ End(0) = 0 /\ \A k \in 0..L : End(k) \in Nat
    BY JoinedLengths
  <2>2. \A k \in 1..L : End(k - 1) < End(k)
    BY JoinedLengths DEF Glued
  <2>. QED  BY <2>1, <2>2
<1>2. \A k \in 0..L : Placed(f, cs, k)
  BY JoinedPlaces
<1>3. /\ \A i \in 0..L : End(i) <= End(L)
      /\ \A i \in 1..L, j \in 1..End(L) : End(i - 1) < j /\ j <= End(i) => full[j].n = es[i].n
  <2>1. /\ \A i \in 0..L : End(i) <= End(L)
        /\ \A i \in 1..L, j \in 1..End(L) :
              End(i - 1) < j /\ j <= End(i) => full[j] = cs[i][j - End(i - 1)]
    BY <1>1, <1>2 DEF Placed
  <2>2. ASSUME NEW i \in 1..L, NEW j \in 1..End(L), End(i - 1) < j, j <= End(i)
        PROVE  full[j].n = es[i].n
    <3>1. /\ cs[i] \in Seq(Byte) /\ BytesOf(cs[i], es[i]) /\ Len(cs[i]) \in Nat
          /\ End(i) = End(i - 1) + Len(cs[i])
      <4>1. Glued(f[i - 1], cs[i], f[i])
        BY JoinedLengths
      <4>2. End(i) = End(i - 1) + Len(cs[i])
        BY <4>1 DEF Glued
      <4>3. cs[i] \in Seq(Byte) /\ BytesOf(cs[i], es[i]) /\ Len(cs[i]) \in Nat
        BY DEF Chunked
      <4>. HIDE DEF End
      <4>. QED  BY <4>2, <4>3
    <3>2. DOMAIN cs[i] = 1..Len(cs[i])
      BY <3>1, LenProperties
    <3>3. End(i - 1) \in Nat /\ End(i) \in Nat /\ End(L) \in Nat
      <4>1. i - 1 \in 0..L /\ i \in 0..L
        BY <1>1
      <4>. QED  BY <1>1, <4>1
    <3>4. j - End(i - 1) \in 1..Len(cs[i])
      <4>. DEFINE x == End(i - 1)
                  y == End(i)
                  z == Len(cs[i])
                  w == End(L)
      <4>1. x \in Nat /\ y \in Nat /\ z \in Nat /\ w \in Nat /\ y = x + z /\ x < j /\ j <= y
            /\ j \in 1..w
        BY <2>2, <3>1, <3>3
      <4>. HIDE DEF x, y, z, w
      <4>2. j - x \in 1..z
        BY <4>1
      <4>. QED  BY <4>2 DEF x, z
    <3>5. cs[i][j - End(i - 1)].n = es[i].n
      <4>. HIDE DEF End
      <4>. QED  BY <3>1, <3>2, <3>4 DEF BytesOf
    <3>6. full[j] = cs[i][j - End(i - 1)]
      BY <2>1, <2>2
    <3>. QED  BY <3>5, <3>6
  <2>. QED  BY <2>1, <2>2
<1>4. \A k \in 0..L : \A i \in 0..k : End(i) <= End(k)
  BY <1>2 DEF Placed
<1>5. b <= End(L)
  OBVIOUS
<1>. HIDE DEF End, full, L
<1>6. ASSUME NEW m \in Nat, m >= 1, m <= End(L)
      PROVE  \E i \in 1..L : End(i - 1) < m /\ m <= End(i)
                             /\ \A k \in 0..L : m <= End(k) => i <= k
  <2>. DEFINE S == {k \in 0..L : m <= End(k)}
  <2>1. S \in SUBSET Nat /\ S # {}
    <3>1. L \in 0..L
      BY <1>1
    <3>. QED  BY <1>6, <3>1
  <2>2. PICK i \in S : \A k \in S : i <= k
    BY <2>1, LeastOf
  <2>3. i \in 0..L /\ m <= End(i) /\ i # 0
    BY <1>1, <1>6, <2>2
  <2>4. i \in 1..L /\ i - 1 \in 0..L /\ ~(i <= i - 1)
    BY <1>1, <2>3
  <2>5. i - 1 \notin S
    BY <2>2, <2>4
  <2>6. End(i - 1) < m
    BY <1>1, <2>4, <2>5
  <2>. QED  BY <2>2, <2>3, <2>4, <2>6
<1>7. PICK c \in 1..L : End(c - 1) < b /\ b <= End(c)
                        /\ \A k \in 0..L : b <= End(k) => c <= k
  BY <1>5, <1>6
<1>8. ASSUME NEW j \in 1..b
      PROVE  \E i \in 1..c : full[j].n = es[i].n
  <2>0. j \in Nat /\ j >= 1 /\ j <= b /\ j <= End(L) /\ j \in 1..End(L)
    BY <1>1, <1>5
  <2>1. PICK i \in 1..L : End(i - 1) < j /\ j <= End(i)
                          /\ \A k \in 0..L : j <= End(k) => i <= k
    BY <1>6, <2>0
  <2>2. c \in 0..L /\ End(c) \in Nat
    BY <1>1
  <2>3. i <= c
    BY <1>7, <2>0, <2>1, <2>2
  <2>4. i \in 1..c
    BY <1>1, <2>3
  <2>5. full[j].n = es[i].n
    BY <1>3, <2>0, <2>1
  <2>. QED  BY <2>4, <2>5
<1>9. ASSUME NEW i \in 1..c
      PROVE  \E j \in 1..b : full[j].n = es[i].n
  <2>. DEFINE j == End(i - 1) + 1
  <2>1. i \in 1..L /\ i - 1 \in 0..(c - 1) /\ c - 1 \in 0..L /\ i - 1 \in 0..L /\ i \in 0..L
    BY <1>1
  <2>2. End(i - 1) <= End(c - 1) /\ End(i - 1) < End(i) /\ End(i) <= End(L)
    BY <1>1, <1>3, <1>4, <2>1
  <2>3. End(i - 1) \in Nat /\ End(c - 1) \in Nat /\ End(i) \in Nat /\ End(L) \in Nat
    BY <1>1, <2>1
  <2>4. j \in 1..b /\ End(i - 1) < j /\ j <= End(i) /\ j \in 1..End(L)
    BY <1>7, <2>2, <2>3
  <2>. HIDE DEF j
  <2>. QED  BY <1>3, <2>1, <2>4
<1>10. \A x : (\E j \in 1..b : x = full[j].n) <=> (\E i \in 1..c : x = es[i].n)
  BY <1>8, <1>9
<1>. QED  BY <1>7, <1>10 DEF End, full, L, CutAt

LEMMA CountDistinct ==
  ASSUME NEW es \in Seq(Command), Distinct(es), NEW c \in 0..Len(es)
  PROVE  Cardinality({es[i].n : i \in 1..c}) = c
<1>. DEFINE S == {es[i].n : i \in 1..c}
            g == [i \in 1..c |-> es[i].n]
<1>1. c \in Nat /\ \A i \in 1..c : i \in DOMAIN es
  BY CommandType
<1>2. g \in [1..c -> S] /\ \A i \in 1..c : g[i] = es[i].n
  OBVIOUS
<1>3. \A i, j \in 1..c : g[i] = g[j] => i = j
  BY <1>1, <1>2 DEF Distinct
<1>4. \A x \in S : \E i \in 1..c : g[i] = x
  BY <1>2
<1>. HIDE DEF S, g
<1>5. g \in Bijection(1..c, S)
  BY <1>2, <1>3, <1>4 DEF Bijection, Injection, Surjection, IsInjective
<1>6. IsFiniteSet(1..c) /\ Cardinality(1..c) = c
  <2>1. 1 \in Int /\ c \in Int
    BY <1>1
  <2>2. IsFiniteSet(1..c) /\ Cardinality(1..c) = IF 1 > c THEN 0 ELSE c - 1 + 1
    BY <2>1, FS_Interval
  <2>. QED  BY <1>1, <2>2
<1>7. Cardinality(S) = Cardinality(1..c)
  BY <1>5, <1>6, FS_Bijection DEF ExistsBijection
<1>. QED  BY <1>6, <1>7 DEF S

(***************************************************************************)
(* Packing                                                                 *)
(***************************************************************************)

LEMMA MinOfTwo ==
  ASSUME NEW a \in Nat, NEW b \in Nat
  PROVE  Min({a, b}) = IF a <= b THEN a ELSE b
<1>1. {a, b} \in SUBSET Nat /\ {a, b} # {}
  OBVIOUS
<1>2. Min({a, b}) \in {a, b} /\ \A y \in {a, b} : Min({a, b}) <= y
  BY <1>1, MinOfNaturals
<1>. QED  BY <1>2

LEMMA LeadIs ==
  ASSUME NEW bs \in Seq(Byte), NEW len \in Nat
  PROVE  LET lead == Lead(bs, len)
         IN  /\ lead \in Seq(Byte) /\ Len(lead) \in Nat
             /\ Len(lead) = IF len <= Len(bs) THEN len ELSE Len(bs)
             /\ DOMAIN lead = 1..Len(lead)
             /\ \A j \in 1..Len(lead) : lead[j] = bs[j]
<1>. DEFINE L == Len(bs)
            m == IF len <= L THEN len ELSE L
            lead == Lead(bs, len)
<1>1. L \in Nat /\ m \in Nat /\ m <= L /\ \A j \in 1..L : bs[j] \in Byte
  BY LenProperties, ElementOfSeq
<1>2. lead = SubSeq(bs, 1, m)
  BY <1>1, MinOfTwo DEF Lead
<1>. HIDE DEF lead, m, L
<1>3. \A j \in 1..m : j \in 1..L
  BY <1>1
<1>4. /\ lead \in Seq(Byte) /\ Len(lead) = IF 1 <= m THEN m - 1 + 1 ELSE 0
      /\ \A j \in 1..(m - 1 + 1) : lead[j] = bs[1 + j - 1]
  BY <1>1, <1>2, <1>3, SubSeqProperties
<1>5. m - 1 + 1 = m /\ \A j \in Int : 1 + j - 1 = j
  BY <1>1
<1>6. Len(lead) = m /\ \A j \in 1..m : lead[j] = bs[j]
  BY <1>1, <1>4, <1>5
<1>7. DOMAIN lead = 1..m
  BY <1>4, <1>6, LenProperties
<1>. QED  BY <1>1, <1>4, <1>6, <1>7 DEF m, L, lead

Covered(qu) ==
    /\ qu.pack.cmds <= Len(qu.entries)
    /\ Left(qu.entries, qu.pack.cmds, qu.pack.remaining)
    /\ Left(qu.entries, 1, qu.last.remaining)

LEMMA FirstIs ==
  ASSUME NEW qu \in Queue, Left(qu.entries, 1, qu.last.remaining)
  PROVE  \E f : /\ Joined(Chunks(qu), f)
                /\ Chunked(Chunks(qu), qu.entries)
                /\ \A i \in 0..Len(qu.entries) : First(qu, i) = f[i]
<1>. DEFINE cs == Chunks(qu)
            es == qu.entries
<1>1. /\ cs \in Seq(Seq(Byte)) /\ Len(cs) = Len(es)
      /\ \A i \in 1..Len(es) : /\ cs[i] \in Seq(Byte) /\ BytesOf(cs[i], es[i])
                               /\ Len(cs[i]) \in 1..(es[i].size + 1)
  BY ChunksAre
<1>2. Chunked(cs, es)
  <2>1. \A i \in 1..Len(es) : es[i].size \in Nat
    BY QueueType, CommandType
  <2>2. \A i \in 1..Len(es) : Len(cs[i]) \in Nat /\ Len(cs[i]) >= 1
    BY <1>1, <2>1
  <2>. HIDE DEF cs, es
  <2>. QED  BY <1>1, <2>2 DEF Chunked
<1>3. PICK f : Joined(cs, f)
  BY <1>1, JoinedIs
<1>4. \A i \in 0..Len(es) : First(qu, i) = f[i]
  BY <1>1, <1>3, FlattenIs DEF First
<1>. QED  BY <1>2, <1>3, <1>4

(* The bytes of pack are those of the first commands of qu, up to a cut in *)
(* the last of them that leaves `remaining' bytes of it.                   *)
Cuts(qu, pack) ==
    LET es == qu.entries
        b  == Len(pack.bytes)
    IN  \E f : /\ Joined(Chunks(qu), f) /\ Chunked(Chunks(qu), es)
               /\ b \in Nat /\ b <= Len(f[Len(es)])
               /\ \A j \in 1..b : pack.bytes[j] = f[Len(es)][j]
               /\ CutAt(f, es, b, pack.cmds)
               /\ pack.remaining = Len(f[pack.cmds]) - b

LEMMA PackWithAckIs ==
  ASSUME NEW qu \in Queue, Left(qu.entries, 1, qu.last.remaining),
         Distinct(qu.entries), qu.entries # <<>>
  PROVE  LET new == PackWithAck(qu)
         IN  /\ new \in Pack /\ new.cmds \in 1..Len(qu.entries)
             /\ Left(qu.entries, new.cmds, new.remaining)
             /\ new.waiting = qu.pack.waiting /\ new.age = qu.pack.age
             /\ Cuts(qu, new)
<1>. DEFINE es == qu.entries
            L == Len(es)
            cs == Chunks(qu)
<1>1. /\ es \in Seq(Command) /\ L \in Nat /\ L > 0 /\ DOMAIN es = 1..L
      /\ qu.pack \in Pack /\ PackMax \in Nat /\ PackMax >= 1
      /\ \A i \in 1..L : es[i].size \in Nat
  <2>1. es \in Seq(Command) /\ qu.pack \in Pack
    BY QueueType
  <2>2. PackMax \in Nat /\ PackMax >= 1
    BY SizeAssumption
  <2>. QED  BY <2>1, <2>2, CommandType
<1>2. PICK f : /\ Joined(cs, f) /\ Chunked(cs, es)
               /\ \A i \in 0..L : First(qu, i) = f[i]
  BY FirstIs
<1>3. /\ \A k \in 0..L : f[k] \in Seq(Byte) /\ Len(f[k]) \in Nat
      /\ Len(f[0]) = 0
      /\ \A k \in 1..L : Glued(f[k - 1], cs[k], f[k])
  BY <1>1, <1>2, JoinedLengths
<1>. DEFINE full == f[L]
            m == Len(full)
            bytes == Lead(full, PackMax)
            b == Len(bytes)
<1>4. full \in Seq(Byte) /\ m \in Nat /\ First(qu, L) = full
  BY <1>1, <1>2, <1>3
<1>5. m >= 1
  <2>1. L \in 1..L /\ L - 1 \in 0..L /\ L \in 0..L
    BY <1>1
  <2>2. Len(f[L - 1]) < Len(f[L]) /\ Len(f[L - 1]) \in Nat
    BY <1>3, <2>1 DEF Glued
  <2>. QED  BY <1>4, <2>2
<1>6. /\ bytes \in Seq(Byte) /\ b \in Nat /\ b = IF PackMax <= m THEN PackMax ELSE m
      /\ DOMAIN bytes = 1..b /\ \A j \in 1..b : bytes[j] = full[j]
  BY <1>1, <1>4, LeadIs
<1>7. b >= 1 /\ b <= m
  <2>. HIDE DEF m, b
  <2>. QED  BY <1>1, <1>4, <1>5, <1>6
<1>8. PICK c \in 1..L : CutAt(f, es, b, c)
  <2>1. es \in Seq(Command) /\ Chunked(cs, es) /\ Joined(cs, f)
    BY <1>1, <1>2
  <2>2. b \in Nat /\ b >= 1 /\ b <= Len(f[Len(es)])
    BY <1>6, <1>7
  <2>. HIDE DEF b, cs, es
  <2>. QED  BY <2>1, <2>2, CutIs
<1>9. {y.n : y \in Range(bytes)} = {es[i].n : i \in 1..c}
  <2>1. \A x : x \in {y.n : y \in Range(bytes)} <=> \E j \in 1..b : x = bytes[j].n
    <3>. HIDE DEF b, bytes
    <3>. QED  BY <1>6 DEF Range
  <2>2. \A x : x \in {y.n : y \in Range(bytes)} <=> \E j \in 1..b : x = full[j].n
    <3>1. \A j \in 1..b : bytes[j] = full[j]
      BY <1>6
    <3>. HIDE DEF b, bytes, full
    <3>. QED  BY <2>1, <3>1
  <2>3. \A x : x \in {y.n : y \in Range(bytes)} <=> x \in {es[i].n : i \in 1..c}
    <3>1. \A x : (\E j \in 1..b : x = full[j].n) <=> (\E i \in 1..c : x = es[i].n)
      BY <1>8 DEF CutAt
    <3>2. \A x : (\E i \in 1..c : x = es[i].n) <=> x \in {es[i].n : i \in 1..c}
      OBVIOUS
    <3>. HIDE DEF b, bytes, full, es
    <3>. QED  BY <2>2, <3>1, <3>2, Zenon
  <2>. HIDE DEF bytes, es
  <2>. QED  BY <2>3
<1>10. Cardinality({y.n : y \in Range(bytes)}) = c
  <2>1. c \in 0..L /\ es \in Seq(Command) /\ Distinct(es)
    BY <1>1, <1>8
  <2>2. Cardinality({es[i].n : i \in 1..c}) = c
    <3>. HIDE DEF es
    <3>. QED  BY <2>1, CountDistinct
  <2>. QED  BY <1>9, <2>2
<1>. DEFINE rem == Len(First(qu, c)) - b
            new == PackWithAck(qu)
<1>11. rem \in Nat /\ rem <= es[c].size
  <2>1. c \in 0..L /\ c - 1 \in 0..L /\ First(qu, c) = f[c]
    BY <1>1, <1>2, <1>8
  <2>2. Len(f[c]) = Len(f[c - 1]) + Len(cs[c])
    BY <1>3, <1>8 DEF Glued
  <2>3. Len(cs[c]) \in 1..(es[c].size + 1) /\ es[c].size \in Nat
    BY <1>1, <1>8, ChunksAre
  <2>4. Len(f[c]) \in Nat /\ Len(f[c - 1]) \in Nat
    BY <1>3, <2>1
  <2>5. Len(f[c - 1]) < b /\ b <= Len(f[c])
    BY <1>8 DEF CutAt
  <2>. DEFINE now == Len(f[c])
              before == Len(f[c - 1])
              chunk == Len(cs[c])
              size == es[c].size
  <2>6. rem = now - b
    BY <2>1
  <2>7. /\ now = before + chunk /\ chunk \in 1..(size + 1) /\ size \in Nat
        /\ now \in Nat /\ before \in Nat /\ before < b /\ b <= now /\ b \in Nat
    BY <1>6, <2>2, <2>3, <2>4, <2>5
  <2>. HIDE DEF b, rem, now, before, chunk, size
  <2>8. rem \in Nat /\ rem <= size
    BY <2>6, <2>7
  <2>. QED  BY <2>8 DEF size
<1>12. new = [qu.pack EXCEPT !.bytes = bytes, !.cmds = c, !.remaining = rem]
  <2>1. bytes = Lead(First(qu, Len(qu.entries)), PackMax)
    BY <1>4
  <2>2. Cardinality({y.n : y \in Range(Lead(First(qu, Len(qu.entries)), PackMax))}) = c
    BY <1>10, <2>1
  <2>. QED  BY <2>1, <2>2, Zenon DEF PackWithAck
<1>. HIDE DEF rem, new, bytes, es, L
<1>13. c \in Nat
  BY <1>1
<1>14. /\ new \in Pack /\ new.cmds = c /\ new.remaining = rem /\ new.bytes = bytes
       /\ new.waiting = qu.pack.waiting /\ new.age = qu.pack.age
  BY <1>1, <1>6, <1>11, <1>12, <1>13 DEF Pack
<1>15. Left(es, c, rem)
  BY <1>1, <1>8, <1>11 DEF Left
<1>16. c \in 0..L
  BY <1>1
<1>17. Cuts(qu, new)
  <2>1. /\ Joined(Chunks(qu), f) /\ Chunked(Chunks(qu), qu.entries)
        /\ Len(new.bytes) \in Nat /\ Len(new.bytes) <= Len(f[Len(qu.entries)])
        /\ \A j \in 1..Len(new.bytes) : new.bytes[j] = f[Len(qu.entries)][j]
        /\ CutAt(f, qu.entries, Len(new.bytes), new.cmds)
        /\ new.remaining = Len(f[new.cmds]) - Len(new.bytes)
    BY <1>2, <1>6, <1>7, <1>8, <1>14, <1>16 DEF es, L, rem
  <2>. QED  BY <2>1 DEF Cuts
<1>. QED  BY <1>8, <1>14, <1>15, <1>17 DEF new, es, L

LEMMA PackNoAckIs ==
  ASSUME NEW qu \in Queue, qu.last.remaining = 0, qu.entries # <<>>,
         qu.entries[1].size < PackMax
  PROVE  LET new == PackNoAck(qu)
         IN  /\ new \in Pack /\ new.cmds \in 1..Len(qu.entries)
             /\ new.remaining = qu.pack.remaining
             /\ new.waiting = qu.pack.waiting /\ new.age = qu.pack.age
<1>. DEFINE es == qu.entries
            L == Len(es)
            cs == Chunks(qu)
<1>0. Left(es, 1, qu.last.remaining)
  BY DEF Left
<1>1. /\ es \in Seq(Command) /\ L \in Nat /\ L > 0 /\ DOMAIN es = 1..L
      /\ qu.pack \in Pack /\ PackMax \in Nat /\ PackMax >= 1
      /\ \A i \in 1..L : es[i] \in Command /\ es[i].size \in Nat
  <2>1. es \in Seq(Command) /\ qu.pack \in Pack
    BY QueueType
  <2>2. PackMax \in Nat /\ PackMax >= 1
    BY SizeAssumption
  <2>. QED  BY <2>1, <2>2, CommandType
<1>2. PICK f : /\ Joined(cs, f) /\ Chunked(cs, es)
               /\ \A i \in 0..L : First(qu, i) = f[i]
  BY <1>0, FirstIs
<1>3. /\ \A k \in 0..L : f[k] \in Seq(Byte) /\ Len(f[k]) \in Nat
      /\ Len(f[0]) = 0
      /\ \A k \in 1..L : Glued(f[k - 1], cs[k], f[k])
  BY <1>1, <1>2, JoinedLengths
<1>. DEFINE S == {i \in 0..L : Len(First(qu, i)) <= PackMax}
            c == Max(S)
            next == IF c < L THEN Lead(Encoded(es[c + 1]), 1) ELSE <<>>
            bytes == Lead(First(qu, c) \o next, PackMax)
            new == PackNoAck(qu)
<1>4. 1 \in S
  <2>1. 1 \in 1..L /\ 1 \in 0..L /\ 1 - 1 = 0
    BY <1>1
  <2>2. Len(f[1]) = Len(f[0]) + Len(cs[1])
    BY <1>3, <2>1 DEF Glued
  <2>3. Len(cs[1]) = es[1].size + 1 /\ es[1].size \in Nat /\ es[1].size < PackMax
    BY <1>0, <1>1, <2>1, ChunksAre
  <2>4. Len(f[1]) <= PackMax
    <3>. HIDE DEF cs, es
    <3>. QED  BY <1>1, <1>3, <2>2, <2>3
  <2>. QED  BY <1>2, <2>1, <2>4
<1>5. c \in S /\ 1 <= c
  <2>1. S \in SUBSET (0..L) /\ S # {}
    BY <1>4
  <2>. HIDE DEF S, L
  <2>. QED  BY <1>1, <1>4, <2>1, MaxOfInterval
<1>6. c \in 0..L /\ c \in 1..L
  <2>1. c \in 0..L
    <3>. HIDE DEF c
    <3>. QED  BY <1>5
  <2>. HIDE DEF c, L
  <2>. QED  BY <1>1, <1>5, <2>1
<1>7. next \in Seq(Byte)
  <2>1. CASE c < L
    <3>1. c + 1 \in 1..L
      <4>. HIDE DEF c, L
      <4>. QED  BY <1>1, <1>6, <2>1
    <3>2. es[c + 1] \in Command
      BY <1>1, <3>1
    <3>3. Encoded(es[c + 1]) \in Seq(Byte)
      BY <3>2, EncodedIs
    <3>4. next = Lead(Encoded(es[c + 1]), 1)
      BY <2>1
    <3>. QED  BY <3>3, <3>4, LeadIs
  <2>2. CASE ~(c < L)
    BY <2>2, EmptySeq
  <2>. QED  BY <2>1, <2>2
<1>8. bytes \in Seq(Byte)
  <2>1. First(qu, c) \in Seq(Byte)
    BY <1>2, <1>3, <1>6
  <2>2. First(qu, c) \o next \in Seq(Byte)
    <3>. HIDE DEF c, next
    <3>. QED  BY <1>7, <2>1, ConcatProperties
  <2>. HIDE DEF next, c
  <2>. QED  BY <1>1, <2>2, LeadIs
<1>9. new = [qu.pack EXCEPT !.bytes = bytes, !.cmds = c]
  BY DEF PackNoAck
<1>. HIDE DEF new, bytes, c, L
<1>10. c \in Nat
  BY <1>6
<1>11. /\ new \in Pack /\ new.cmds = c /\ new.remaining = qu.pack.remaining
       /\ new.waiting = qu.pack.waiting /\ new.age = qu.pack.age
  BY <1>1, <1>8, <1>9, <1>10 DEF Pack
<1>. QED  BY <1>6, <1>11 DEF new, L

(***************************************************************************)
(* A pass of check_tx_queue                                                *)
(***************************************************************************)

NoteType == [n : Cmds, status : FinalStatus]
NoteNames(notes) == {x.n : x \in notes}

PassResult == [queue : Queue, frames : Seq(Datagram), notes : SUBSET NoteType,
               timeout : (Nat \ {0}) \cup {Off}]

AllFit(q, es) == \A i \in DOMAIN es : Fits(q, es[i].size)

(* A queue without acknowledgement waits for none and cuts no command.     *)
Uncut(q, qu) ==
    ~WithAck(q) => /\ ~qu.pack.waiting /\ qu.pack.remaining = 0
                   /\ qu.last.remaining = 0 /\ AllFit(q, qu.entries)

(* What holds of queue q as long as the interface is up or, if not, stopped.*)
Sane(q, qu, isUp) ==
    /\ qu.pack.age <= Info[q].ackTimeout /\ qu.txAge <= Info[q].maxRate
    /\ IF isUp THEN Covered(qu) ELSE qu.entries = <<>>
    /\ Uncut(q, qu)

Wake(q, qu) == IF qu.pack.waiting THEN Info[q].ackTimeout - qu.pack.age
               ELSE Info[q].maxRate - qu.txAge
Watched(q, qu, timeout) ==
    qu.entries # <<>> /\ (qu.pack.cmds = 0 \/ qu.pack.waiting)
        => timeout # Off /\ timeout <= Wake(q, qu)

LEMMA NotesIs ==
  ASSUME NEW cmds \in Seq(Command), NEW status \in FinalStatus
  PROVE  /\ Notes(cmds, status) \in SUBSET NoteType
         /\ NoteNames(Notes(cmds, status)) = NamesOf(cmds)
<1>1. \A i \in DOMAIN cmds : cmds[i].n \in Cmds
  BY CommandType
<1>2. Notes(cmds, status) \in SUBSET NoteType
  BY <1>1 DEF Notes, Note, NoteType
<1>3. \A x : x \in NoteNames(Notes(cmds, status)) <=> \E i \in DOMAIN cmds : x = cmds[i].n
  <2>1. \A i : Note(cmds[i], status).n = cmds[i].n
    BY DEF Note
  <2>2. \A x : x \in NoteNames(Notes(cmds, status))
                  <=> \E i \in DOMAIN cmds : x = Note(cmds[i], status).n
    BY DEF NoteNames, Notes
  <2>. QED  BY <2>1, <2>2
<1>4. \A x : x \in NamesOf(cmds) <=> \E i \in DOMAIN cmds : x = cmds[i].n
  BY DEF NamesOf
<1>5. \A x : x \in NoteNames(Notes(cmds, status)) <=> x \in NamesOf(cmds)
  BY <1>3, <1>4
<1>. QED  BY <1>2, <1>5

LEMMA FrameType ==
  ASSUME NEW qu \in Queue
  PROVE  Frame(qu) \in Datagram
  BY QueueType DEF Frame, Datagram

LEMMA ExpireIs ==
  ASSUME NEW qu \in Queue
  PROVE  /\ Expire(qu) \in Queue /\ Expire(qu).entries = qu.entries
         /\ Expire(qu).last = qu.last /\ Expire(qu).txAge = qu.txAge
         /\ Expire(qu).pack.waiting = FALSE /\ Expire(qu).pack.age = 0
         /\ Expire(qu).pack.cmds = qu.pack.cmds
         /\ Expire(qu).pack.remaining = qu.pack.remaining
<1>1. /\ Expire(qu) \in Queue /\ Expire(qu).entries = qu.entries
      /\ Expire(qu).last = qu.last /\ Expire(qu).txAge = qu.txAge
      /\ Expire(qu).pack = [qu.pack EXCEPT !.waiting = FALSE, !.age = 0]
  BY DEF Expire, Queue, Pack
<1>2. qu.pack \in Pack
  BY QueueType
<1>3. /\ Expire(qu).pack.waiting = FALSE /\ Expire(qu).pack.age = 0
      /\ Expire(qu).pack.cmds = qu.pack.cmds
      /\ Expire(qu).pack.remaining = qu.pack.remaining
  BY <1>1, <1>2 DEF Pack
<1>. QED  BY <1>1, <1>3

LEMMA PackedIs ==
  ASSUME NEW q \in Queues, NEW qu \in Queue, Covered(qu), Uncut(q, qu),
         Distinct(qu.entries), qu.entries # <<>>
  PROVE  LET new == Packed(q, qu)
         IN  /\ new \in Queue /\ new.entries = qu.entries /\ new.last = qu.last
             /\ new.txAge = qu.txAge
             /\ new.pack.waiting = qu.pack.waiting /\ new.pack.age = qu.pack.age
             /\ new.pack.cmds \in 1..Len(qu.entries)
             /\ Covered(new) /\ Uncut(q, new)
<1>0. /\ qu.entries \in Seq(Command) /\ Len(qu.entries) \in Nat /\ qu.pack.cmds \in Nat
      /\ 1 \in DOMAIN qu.entries
  BY QueueType, CommandType
<1>1. CASE qu.pack.cmds # 0
  BY <1>0, <1>1 DEF Packed, Covered
<1>2. CASE qu.pack.cmds = 0
  <2>. DEFINE pack == IF WithAck(q) THEN PackWithAck(qu) ELSE PackNoAck(qu)
              s == Seqnum(qu.seq, 1)
              n == qu.serial + 1
              new == Packed(q, qu)
  <2>1. /\ pack \in Pack /\ pack.cmds \in 1..Len(qu.entries)
        /\ pack.waiting = qu.pack.waiting /\ pack.age = qu.pack.age
        /\ Left(qu.entries, pack.cmds, pack.remaining)
        /\ ~WithAck(q) => pack.remaining = 0
    <3>1. CASE WithAck(q)
      <4>1. pack = PackWithAck(qu)
        BY <3>1
      <4>2. Left(qu.entries, 1, qu.last.remaining)
        BY DEF Covered
      <4>. QED  BY <3>1, <4>1, <4>2, PackWithAckIs
    <3>2. CASE ~WithAck(q)
      <4>1. pack = PackNoAck(qu)
        BY <3>2
      <4>2. qu.last.remaining = 0 /\ qu.pack.remaining = 0 /\ qu.entries[1].size < PackMax
        BY <1>0, <3>2 DEF Uncut, AllFit, Fits
      <4>3. /\ pack \in Pack /\ pack.cmds \in 1..Len(qu.entries)
            /\ pack.remaining = qu.pack.remaining
            /\ pack.waiting = qu.pack.waiting /\ pack.age = qu.pack.age
        BY <4>1, <4>2, PackNoAckIs
      <4>. QED  BY <4>2, <4>3 DEF Left
    <3>. QED  BY <3>1, <3>2
  <2>2. s \in 0..(SeqSize - 1) /\ n \in Nat
    BY QueueType, SeqnumType
  <2>3. new = [qu EXCEPT !.seq = s, !.serial = n, !.pack = pack]
    BY <1>2 DEF Packed
  <2>. HIDE DEF pack, s, n, new
  <2>4. /\ new \in Queue /\ new.entries = qu.entries /\ new.last = qu.last
        /\ new.txAge = qu.txAge /\ new.pack = pack
    BY <2>1, <2>2, <2>3 DEF Queue
  <2>5. Covered(new)
    <3>1. pack.cmds <= Len(qu.entries)
      BY <1>0, <2>1
    <3>. QED  BY <2>1, <2>4, <3>1 DEF Covered
  <2>6. Uncut(q, new)
    BY <2>1, <2>4 DEF Uncut
  <2>. QED  BY <2>1, <2>4, <2>5, <2>6 DEF new
<1>. QED  BY <1>1, <1>2

LEMMA FlushedIs ==
  ASSUME NEW q \in Queues, ~WithAck(q), NEW qu \in Queue, Covered(qu), Uncut(q, qu)
  PROVE  LET new == Flushed(qu)
         IN  /\ new \in Queue /\ Covered(new) /\ Uncut(q, new)
             /\ Len(new.entries) = Len(qu.entries) - qu.pack.cmds
             /\ new.pack.cmds = 0 /\ new.pack.age = qu.pack.age /\ new.txAge = 0
             /\ Accounts(qu.entries, new.entries, NamesOf(PackedCmds(qu)))
<1>. DEFINE k == qu.pack.cmds
            rest == SubSeq(qu.entries, k + 1, Len(qu.entries))
            none == <<>>
            new == Flushed(qu)
<1>1. k \in 0..Len(qu.entries) /\ qu.entries \in Seq(Command) /\ Len(qu.entries) \in Nat
  BY QueueType DEF Covered
<1>2. none \in Seq(Byte)
  OBVIOUS
<1>3. /\ rest \in Seq(Command) /\ Len(rest) = Len(qu.entries) - k
      /\ DOMAIN rest = 1..(Len(qu.entries) - k)
      /\ \A i \in 1..(Len(qu.entries) - k) : rest[i] = qu.entries[i + k]
  BY <1>1, SplitIs
<1>4. Accounts(qu.entries, rest, NamesOf(PackedCmds(qu)))
  BY <1>1, SplitNames DEF PackedCmds
<1>5. new = [qu EXCEPT !.txAge = 0, !.entries = rest, !.pack.bytes = none, !.pack.cmds = 0]
  BY DEF Flushed
<1>6. AllFit(q, rest)
  <2>1. \A i \in 1..(Len(qu.entries) - k) : i + k \in DOMAIN qu.entries
    BY <1>1, QueueType
  <2>. QED  BY <1>3, <2>1 DEF AllFit, Uncut
<1>. HIDE DEF rest, none, new
<1>7. /\ new \in Queue /\ new.entries = rest /\ new.pack.cmds = 0 /\ new.txAge = 0
      /\ new.pack.waiting = qu.pack.waiting /\ new.pack.age = qu.pack.age
      /\ new.pack.remaining = qu.pack.remaining /\ new.last = qu.last
  BY <1>2, <1>3, <1>5 DEF Queue, Pack
<1>8. Uncut(q, new)
  BY <1>6, <1>7 DEF Uncut
<1>9. Covered(new)
  <2>1. 0 <= Len(rest)
    BY <1>3, LenProperties
  <2>. QED  BY <1>7, <1>8, <2>1 DEF Covered, Left, Uncut
<1>. QED  BY <1>3, <1>4, <1>7, <1>8, <1>9 DEF new

(***************************************************************************)
(* Pack after pack                                                         *)
(***************************************************************************)

BurstPass(q) == {p \in PassResult : /\ Covered(p.queue) /\ Uncut(q, p.queue)
                                    /\ Distinct(p.queue.entries)}

(* One more pack: commands leave only if the socket takes it, and are told *)
(* done as they are packed.                                                *)
Flushes(q, before, after, ok) ==
    /\ after \in BurstPass(q) /\ after.queue.pack.age = before.queue.pack.age
    /\ IF ok = 0
       THEN /\ after.queue.entries = before.queue.entries
            /\ after.queue.pack.cmds # 0 /\ after.queue.txAge = before.queue.txAge
       ELSE /\ after.queue.pack.cmds = 0 /\ after.queue.txAge = 0
            /\ Len(after.queue.entries) < Len(before.queue.entries)
            /\ Info[q].maxRate > 0 => after.timeout = Info[q].maxRate
    /\ \E told : /\ Accounts(before.queue.entries, after.queue.entries, told)
                 /\ ok # 0 /\ before.queue.pack.cmds = 0
                        => NoteNames(after.notes) = NoteNames(before.notes) \cup told

LEMMA FlushPackIs ==
  ASSUME NEW q \in Queues, ~WithAck(q), NEW before \in BurstPass(q),
         before.queue.entries # <<>>, NEW ok \in Nat
  PROVE  Flushes(q, before, FlushPack(q, before, ok), ok)
<1>. DEFINE was == before.queue
            qu == Packed(q, was)
            after == FlushPack(q, before, ok)
            es == was.entries
            told == NamesOf(PackedCmds(qu))
            news == IF was.pack.cmds = 0 THEN Notes(PackedCmds(qu), "PACKED") ELSE {}
            notes == before.notes \cup news
<1>1. /\ was \in Queue /\ before.frames \in Seq(Datagram)
      /\ before.notes \in SUBSET NoteType
      /\ Covered(was) /\ Uncut(q, was) /\ Distinct(es) /\ es # <<>>
  BY DEF PassResult, BurstPass
<1>2. /\ qu \in Queue /\ qu.entries = es /\ qu.txAge = was.txAge
      /\ qu.pack.age = was.pack.age /\ qu.pack.cmds \in 1..Len(es)
      /\ Covered(qu) /\ Uncut(q, qu)
  <2>. HIDE DEF was, qu
  <2>. QED  BY <1>1, PackedIs DEF qu
<1>3. es \in Seq(Command) /\ Len(es) \in Nat
  BY <1>1, QueueType
<1>4. /\ news \in SUBSET NoteType
      /\ was.pack.cmds = 0 => NoteNames(news) = told
  <2>1. PackedCmds(qu) \in Seq(Command)
    <3>1. qu.pack.cmds \in 0..Len(es)
      BY <1>2, <1>3
    <3>. HIDE DEF qu, es
    <3>. QED  BY <1>2, <1>3, <3>1, SplitIs DEF PackedCmds
  <2>2. "PACKED" \in FinalStatus
    BY DEF FinalStatus
  <2>. HIDE DEF qu, was
  <2>. QED  BY <2>1, <2>2, NotesIs
<1>5. notes \in SUBSET NoteType
  <2>. HIDE DEF news
  <2>. QED  BY <1>1, <1>4
<1>6. was.pack.cmds = 0 => NoteNames(notes) = NoteNames(before.notes) \cup told
  <2>1. NoteNames(notes) = NoteNames(before.notes) \cup NoteNames(news)
    <3>. HIDE DEF news
    <3>. QED  BY DEF NoteNames
  <2>. HIDE DEF news, was, notes, told
  <2>. QED  BY <1>4, <2>1
<1>7. CASE ok = 0
  <2>1. after = Pass(qu, before.frames, notes, Off)
    BY <1>7 DEF FlushPack
  <2>. HIDE DEF qu, es, after, notes
  <2>2. /\ after \in PassResult /\ after.queue = qu
    BY <1>1, <1>2, <1>5, <2>1 DEF PassResult, Pass
  <2>3. Accounts(es, es, {})
    BY DEF Accounts
  <2>4. after \in BurstPass(q)
    BY <1>1, <1>2, <2>2 DEF BurstPass
  <2>5. qu.pack.cmds # 0
    BY <1>2
  <2>6. \E names : Accounts(es, qu.entries, names)
    BY <1>2, <2>3
  <2>. QED  BY <1>2, <1>7, <2>2, <2>4, <2>5, <2>6 DEF Flushes, es, after
<1>8. CASE ok # 0
  <2>. DEFINE frames == Append(before.frames, Frame(qu))
              rate == Info[q].maxRate
              timeout == IF rate > 0 THEN rate ELSE Off
              flushed == Flushed(qu)
  <2>1. after = Pass(flushed, frames, notes, timeout)
    BY <1>8 DEF FlushPack
  <2>2. frames \in Seq(Datagram)
    BY <1>1, <1>2, FrameType
  <2>3. /\ timeout \in (Nat \ {0}) \cup {Off} /\ (rate > 0 => timeout = rate)
    BY QueueInfoType
  <2>4. /\ flushed \in Queue /\ Covered(flushed) /\ Uncut(q, flushed)
        /\ Len(flushed.entries) = Len(es) - qu.pack.cmds
        /\ flushed.pack.cmds = 0 /\ flushed.pack.age = was.pack.age /\ flushed.txAge = 0
        /\ Accounts(es, flushed.entries, told)
    BY <1>2, FlushedIs
  <2>. HIDE DEF qu, es, after, told, notes, frames, timeout, flushed, was
  <2>5. after \in PassResult /\ after.queue = flushed /\ after.notes = notes
        /\ after.timeout = timeout
    BY <1>5, <2>1, <2>2, <2>3, <2>4 DEF PassResult, Pass
  <2>6. Distinct(flushed.entries)
    BY <1>1, <2>4 DEF Accounts
  <2>7. after \in BurstPass(q)
    BY <2>4, <2>5, <2>6 DEF BurstPass
  <2>8. Len(flushed.entries) < Len(es)
    BY <1>2, <1>3, <2>4
  <2>9. \E names : /\ Accounts(es, flushed.entries, names)
                   /\ was.pack.cmds = 0
                        => NoteNames(notes) = NoteNames(before.notes) \cup names
    BY <1>6, <2>4
  <2>. QED  BY <1>8, <2>3, <2>4, <2>5, <2>7, <2>8, <2>9 DEF Flushes, es, after, was
<1>. QED  BY <1>7, <1>8

BurstStep(q, k, p, ok) ==
    IF \/ p.queue.entries = <<>>
       \/ k > ok + 1
       \/ k > 1 /\ Info[q].maxRate > 0
    THEN p
    ELSE FlushPack(q, p, ok + 1 - k)

LEMMA BurstIs ==
  ASSUME NEW q \in Queues, ~WithAck(q), NEW qu \in Queue, Covered(qu), Uncut(q, qu),
         Distinct(qu.entries), NEW ok \in 0..MaxCmds
  PROVE  \E burst \in [0..MaxCmds -> BurstPass(q)] :
            /\ burst[0] = Pass(qu, <<>>, {}, Off)
            /\ \A k \in 1..MaxCmds : burst[k] = BurstStep(q, k, burst[k - 1], ok)
            /\ SendPacks(q, qu, ok) = IF burst[MaxCmds].queue.entries = <<>>
                                      THEN [burst[MaxCmds] EXCEPT !.timeout = Off]
                                      ELSE burst[MaxCmds]
<1>. DEFINE N == MaxCmds
            start == Pass(qu, <<>>, {}, Off)
            States == BurstPass(q)
            g == [x \in (1..N) \X States |-> BurstStep(q, x[1], x[2], ok)]
            Burst(b) == b = [k \in 0..N |->
                               IF k = 0 THEN start
                               ELSE LET before == b[k - 1]
                                    IN  IF \/ before.queue.entries = <<>>
                                           \/ k > ok + 1
                                           \/ k > 1 /\ Info[q].maxRate > 0
                                        THEN before
                                        ELSE FlushPack(q, before, ok + 1 - k)]
<1>1. N \in Nat /\ ok \in Nat
  BY BoundsAssumption
<1>2. start \in States
  <2>1. start \in PassResult /\ start.queue = qu
    <3>1. <<>> \in Seq(Datagram)
      OBVIOUS
    <3>. QED  BY <3>1 DEF Pass, PassResult, Off
  <2>. HIDE DEF start
  <2>. QED  BY <2>1 DEF BurstPass
<1>3. ASSUME NEW k \in 1..N, NEW p \in States
      PROVE  g[<<k, p>>] = BurstStep(q, k, p, ok) /\ g[<<k, p>>] \in States
  <2>1. <<k, p>> \in (1..N) \X States
    OBVIOUS
  <2>2. g[<<k, p>>] = BurstStep(q, k, p, ok)
    BY <2>1
  <2>3. BurstStep(q, k, p, ok) \in States
    <3>1. CASE \/ p.queue.entries = <<>>
               \/ k > ok + 1
               \/ k > 1 /\ Info[q].maxRate > 0
      BY <3>1 DEF BurstStep
    <3>2. CASE ~(\/ p.queue.entries = <<>>
                 \/ k > ok + 1
                 \/ k > 1 /\ Info[q].maxRate > 0)
      <4>1. ok + 1 - k \in Nat
        BY <1>1, <3>2
      <4>2. Flushes(q, p, FlushPack(q, p, ok + 1 - k), ok + 1 - k)
        BY <3>2, <4>1, FlushPackIs
      <4>. QED  BY <3>2, <4>2 DEF BurstStep, Flushes
    <3>. QED  BY <3>1, <3>2
  <2>. QED  BY <2>2, <2>3
<1>. HIDE DEF g, start, States
<1>4. PICK f : Iterates(f, start, g, States, N)
  <2>1. Steps(g, States, N)
    BY <1>3 DEF Steps
  <2>. HIDE DEF N
  <2>. QED  BY <1>1, <1>2, <2>1, Recursion
<1>5. f \in [0..N -> States] /\ f[0] = start
      /\ \A k \in 1..N : f[k] = g[<<k, f[k - 1]>>]
  BY <1>4 DEF Iterates
<1>6. ASSUME NEW k \in 1..N
      PROVE  f[k] = BurstStep(q, k, f[k - 1], ok)
  <2>1. k - 1 \in 0..N
    BY <1>1
  <2>2. f[k - 1] \in States
    BY <1>5, <2>1
  <2>. QED  BY <1>3, <1>5, <2>2
<1>7. Burst(f)
  <2>1. ASSUME NEW k \in 0..N
        PROVE  f[k] = IF k = 0 THEN start
                      ELSE LET before == f[k - 1]
                           IN  IF \/ before.queue.entries = <<>>
                                  \/ k > ok + 1
                                  \/ k > 1 /\ Info[q].maxRate > 0
                               THEN before
                               ELSE FlushPack(q, before, ok + 1 - k)
    <3>1. CASE k = 0
      BY <1>5, <3>1
    <3>2. CASE k # 0
      <4>1. k \in 1..N
        BY <3>2
      <4>. QED  BY <1>6, <3>2, <4>1 DEF BurstStep
    <3>. QED  BY <3>1, <3>2
  <2>. QED  BY <1>5, <2>1
<1>. DEFINE burst == CHOOSE b : Burst(b)
<1>8. Burst(burst)
  <2>. HIDE DEF Burst
  <2>. QED  BY <1>7
<1>9. SendPacks(q, qu, ok) = IF burst[N].queue.entries = <<>>
                             THEN [burst[N] EXCEPT !.timeout = Off] ELSE burst[N]
  BY DEF SendPacks, start
<1>10. burst[0] = start
  <2>. HIDE DEF burst
  <2>1. 0 \in 0..N
    BY <1>1
  <2>. QED  BY <1>8, <2>1
<1>11. \A k \in 1..N : burst[k] = BurstStep(q, k, burst[k - 1], ok)
  <2>. HIDE DEF burst
  <2>1. \A k \in 1..N : k \in 0..N /\ k # 0
    OBVIOUS
  <2>. QED  BY <1>8, <2>1 DEF BurstStep
<1>12. \A k \in 0..N : burst[k] = f[k]
  <2>. HIDE DEF burst, Burst
  <2>. DEFINE T == {k \in 0..N : burst[k] = f[k]}
  <2>1. 0 \in T
    BY <1>1, <1>5, <1>10
  <2>2. \A k \in 1..N : k - 1 \in T => k \in T
    BY <1>6, <1>11
  <2>. HIDE DEF T, N
  <2>3. \A k \in 0..N : k \in T
    BY <1>1, <2>1, <2>2, CountUp
  <2>. QED  BY <2>3 DEF T
<1>13. N \in 0..N
  BY <1>1
<1>14. SendPacks(q, qu, ok) = IF f[N].queue.entries = <<>>
                             THEN [f[N] EXCEPT !.timeout = Off] ELSE f[N]
  <2>1. burst[N] = f[N]
    <3>. HIDE DEF burst
    <3>. QED  BY <1>12, <1>13
  <2>. HIDE DEF burst, Burst
  <2>. QED  BY <1>9, <2>1
<1>. QED  BY <1>5, <1>6, <1>14 DEF start, States

(* As many commands as names, at most.                                     *)
LEMMA DistinctLength ==
  ASSUME NEW es \in Seq(Command), Distinct(es)
  PROVE  Len(es) <= MaxCmds
<1>1. Len(es) \in Nat /\ DOMAIN es = 1..Len(es) /\ \A i \in DOMAIN es : es[i].n \in Cmds
  BY CommandType
<1>2. /\ IsFiniteSet(1..Len(es)) /\ Cardinality(1..Len(es)) = Len(es)
      /\ IsFiniteSet(Cmds) /\ Cardinality(Cmds) = MaxCmds
  <2>1. \A m \in Nat : IsFiniteSet(1..m) /\ Cardinality(1..m) = m
    <3>1. TAKE m \in Nat
    <3>2. 1 \in Int /\ m \in Int
      OBVIOUS
    <3>3. IsFiniteSet(1..m) /\ Cardinality(1..m) = IF 1 > m THEN 0 ELSE m - 1 + 1
      BY <3>2, FS_Interval
    <3>. QED  BY <3>3
  <2>. QED  BY <1>1, <2>1, BoundsAssumption DEF Cmds
<1>3. SUFFICES ASSUME Len(es) > MaxCmds
               PROVE  FALSE
  BY <1>1, BoundsAssumption
<1>. DEFINE f == [i \in 1..Len(es) |-> es[i].n]
<1>4. f \in [1..Len(es) -> Cmds]
  BY <1>1
<1>5. Cardinality(Cmds) < Cardinality(1..Len(es))
  BY <1>2, <1>3
<1>6. \E x, y \in 1..Len(es) : x # y /\ f[x] = f[y]
  <2>. HIDE DEF f
  <2>. QED  BY <1>2, <1>4, <1>5, FS_PigeonHole
<1>. QED  BY <1>1, <1>6 DEF Distinct

LEMMA AccountsTwice ==
  ASSUME NEW a, NEW b, NEW c, NEW x, NEW y, Accounts(a, b, x), Accounts(b, c, y)
  PROVE  Accounts(a, c, x \cup y)
  BY DEF Accounts

(* After k packs of at most ok: the queue is empty, or the socket refused  *)
(* one, or the rate is limited, or k packs left it.                        *)
Sent(q, qu, k, ok, p) ==
    \/ p.queue.entries = <<>>
    \/ p.queue.pack.cmds # 0 /\ k > ok
    \/ /\ k > 0 /\ Info[q].maxRate > 0 /\ p.timeout = Info[q].maxRate
       /\ p.queue.txAge = 0 /\ p.queue.pack.cmds = 0
    \/ /\ k <= ok /\ Len(p.queue.entries) + k <= Len(qu.entries)
       /\ k = 0 \/ Info[q].maxRate = 0

BurstSane(q, qu, k, ok, p) ==
    /\ p \in BurstPass(q)
    /\ p.queue.pack.age = qu.pack.age /\ p.queue.txAge <= Info[q].maxRate
    /\ NamesOf(p.queue.entries) \subseteq NamesOf(qu.entries)
    /\ Sent(q, qu, k, ok, p)
    /\ ok = MaxCmds /\ qu.pack.cmds = 0
           => /\ p.queue.pack.cmds = 0
              /\ Accounts(qu.entries, p.queue.entries, NoteNames(p.notes))

LEMMA BurstStepSane ==
  ASSUME NEW q \in Queues, ~WithAck(q), NEW qu \in Queue, NEW ok \in 0..MaxCmds,
         NEW k \in 1..MaxCmds, NEW p, BurstSane(q, qu, k - 1, ok, p)
  PROVE  BurstSane(q, qu, k, ok, BurstStep(q, k, p, ok))
<1>. DEFINE es == p.queue.entries
            rate == Info[q].maxRate
<1>1. ok \in Nat /\ k \in Nat /\ k > 0 /\ k - 1 \in Nat /\ MaxCmds \in Nat /\ k <= MaxCmds
      /\ ok <= MaxCmds
  BY BoundsAssumption
<1>2. p \in BurstPass(q) /\ p \in PassResult /\ p.queue \in Queue
  BY DEF BurstSane, BurstPass, PassResult
<1>3. Len(es) \in Nat /\ Len(qu.entries) \in Nat /\ rate \in Nat
  BY <1>2, QueueType, QueueInfoType
<1>4. CASE es = <<>> \/ k > ok + 1 \/ (k > 1 /\ rate > 0)
  <2>1. BurstStep(q, k, p, ok) = p
    BY <1>4 DEF BurstStep
  <2>2. Sent(q, qu, k - 1, ok, p)
    BY DEF BurstSane
  <2>3. Sent(q, qu, k, ok, p)
    <3>1. CASE es = <<>>
      BY <3>1 DEF Sent
    <3>2. CASE p.queue.pack.cmds # 0 /\ k - 1 > ok
      <4>1. k > ok
        BY <1>1, <3>2
      <4>. QED  BY <3>2, <4>1 DEF Sent
    <3>3. CASE /\ k - 1 > 0 /\ rate > 0 /\ p.timeout = rate
               /\ p.queue.txAge = 0 /\ p.queue.pack.cmds = 0
      BY <1>1, <3>3 DEF Sent
    <3>4. CASE es # <<>> /\ k - 1 <= ok /\ (k - 1 = 0 \/ rate = 0)
      BY <1>1, <1>3, <1>4, <3>4
    <3>. QED  BY <2>2, <3>1, <3>2, <3>3, <3>4 DEF Sent
  <2>. QED  BY <2>1, <2>3 DEF BurstSane
<1>5. CASE ~(es = <<>> \/ k > ok + 1 \/ (k > 1 /\ rate > 0))
  <2>. DEFINE left == ok + 1 - k
              after == FlushPack(q, p, left)
              now == after.queue
  <2>1. left \in Nat /\ (left = 0 <=> k > ok) /\ (left # 0 => k <= ok)
        /\ (ok = MaxCmds => left # 0)
    BY <1>1, <1>5
  <2>2. BurstStep(q, k, p, ok) = after
    BY <1>5 DEF BurstStep
  <2>. HIDE DEF left
  <2>3. Flushes(q, p, after, left)
    BY <1>2, <1>5, <2>1, FlushPackIs
  <2>. HIDE DEF after
  <2>4. PICK told : /\ Accounts(es, now.entries, told)
                    /\ left # 0 /\ p.queue.pack.cmds = 0
                           => NoteNames(after.notes) = NoteNames(p.notes) \cup told
    BY <2>3 DEF Flushes
  <2>5. /\ after \in BurstPass(q) /\ now.pack.age = p.queue.pack.age
        /\ left = 0 => /\ now.entries = es /\ now.pack.cmds # 0
                       /\ now.txAge = p.queue.txAge
        /\ left # 0 => /\ now.pack.cmds = 0 /\ now.txAge = 0
                       /\ Len(now.entries) < Len(es)
                       /\ rate > 0 => after.timeout = rate
    BY <2>3 DEF Flushes
  <2>. HIDE DEF now
  <2>6. now \in Queue /\ Len(now.entries) \in Nat
    <3>1. now \in Queue
      BY <2>5 DEF BurstPass, PassResult, now
    <3>. QED  BY <3>1, QueueType
  <2>7. NamesOf(now.entries) \subseteq NamesOf(qu.entries)
    BY <2>4 DEF Accounts, BurstSane
  <2>8. now.txAge <= rate
    <3>1. CASE left = 0
      BY <2>5, <3>1 DEF BurstSane
    <3>2. CASE left # 0
      BY <1>3, <2>5, <3>2
    <3>. QED  BY <3>1, <3>2
  <2>9. Sent(q, qu, k, ok, after)
    <3>1. CASE left = 0
      BY <2>1, <2>5, <3>1 DEF Sent, now
    <3>2. CASE left # 0 /\ rate > 0
      BY <1>1, <2>5, <3>2 DEF Sent, now
    <3>3. CASE left # 0 /\ ~(rate > 0)
      <4>1. rate = 0 /\ k <= ok
        BY <1>3, <2>1, <3>3
      <4>2. Len(es) + (k - 1) <= Len(qu.entries)
        <5>1. Sent(q, qu, k - 1, ok, p)
          BY DEF BurstSane
        <5>2. ~(k - 1 > ok) /\ ~(rate > 0) /\ es # <<>>
          BY <1>1, <1>5, <3>3, <4>1
        <5>. QED  BY <5>1, <5>2 DEF Sent
      <4>3. Len(now.entries) + k <= Len(qu.entries)
        BY <1>1, <1>3, <2>5, <2>6, <3>3, <4>2
      <4>. QED  BY <4>1, <4>3 DEF Sent, now
    <3>. QED  BY <3>1, <3>2, <3>3
  <2>10. ASSUME ok = MaxCmds, qu.pack.cmds = 0
         PROVE  /\ now.pack.cmds = 0
                /\ Accounts(qu.entries, now.entries, NoteNames(after.notes))
    <3>1. p.queue.pack.cmds = 0 /\ Accounts(qu.entries, es, NoteNames(p.notes))
      BY <2>10 DEF BurstSane
    <3>2. left # 0
      BY <2>1, <2>10
    <3>3. NoteNames(after.notes) = NoteNames(p.notes) \cup told
      BY <2>4, <3>1, <3>2
    <3>. HIDE DEF es
    <3>4. Accounts(qu.entries, now.entries, NoteNames(p.notes) \cup told)
      BY <2>4, <3>1, AccountsTwice
    <3>. QED  BY <2>5, <3>2, <3>3, <3>4
  <2>11. now.pack.age = qu.pack.age
    BY <2>5 DEF BurstSane
  <2>. QED  BY <2>2, <2>5, <2>7, <2>8, <2>9, <2>10, <2>11 DEF BurstSane, now
<1>. QED  BY <1>4, <1>5

(* What a pass leaves of queue q: commands leave it only if they are told  *)
(* done, unless the socket refuses packs of a queue without acknowledgement. *)
PassSound(q, qu, ok, isUp, pass) ==
    /\ pass \in PassResult
    /\ Sane(q, pass.queue, isUp)
    /\ Watched(q, pass.queue, pass.timeout)
    /\ Distinct(pass.queue.entries)
    /\ NamesOf(pass.queue.entries) \subseteq NamesOf(qu.entries)
    /\ WithAck(q) \/ (ok = MaxCmds /\ qu.pack.cmds = 0)
           => Accounts(qu.entries, pass.queue.entries, NoteNames(pass.notes))
    /\ ~WithAck(q) /\ ok = MaxCmds /\ qu.pack.cmds = 0 => pass.queue.pack.cmds = 0

LEMMA SendPacksSound ==
  ASSUME NEW q \in Queues, ~WithAck(q), NEW qu \in Queue, Covered(qu), Uncut(q, qu),
         qu.entries # <<>>, Distinct(qu.entries), qu.pack.age = 0,
         qu.txAge <= Info[q].maxRate, NEW ok \in 0..MaxCmds
  PROVE  PassSound(q, qu, ok, TRUE, SendPacks(q, qu, ok))
<1>1. PICK burst \in [0..MaxCmds -> BurstPass(q)] :
            /\ burst[0] = Pass(qu, <<>>, {}, Off)
            /\ \A k \in 1..MaxCmds : burst[k] = BurstStep(q, k, burst[k - 1], ok)
            /\ SendPacks(q, qu, ok) = IF burst[MaxCmds].queue.entries = <<>>
                                      THEN [burst[MaxCmds] EXCEPT !.timeout = Off]
                                      ELSE burst[MaxCmds]
  BY BurstIs
<1>2. MaxCmds \in Nat /\ MaxCmds \in 0..MaxCmds /\ 0 \in 0..MaxCmds /\ ok \in Nat
      /\ Info[q].ackTimeout \in Nat /\ Info[q].maxRate \in Nat
  BY BoundsAssumption, QueueInfoType
<1>3. BurstSane(q, qu, 0, ok, burst[0])
  <2>1. Accounts(qu.entries, qu.entries, {})
    BY DEF Accounts
  <2>2. burst[0] \in BurstPass(q)
    BY <1>2
  <2>3. burst[0].queue = qu /\ burst[0].notes = {} /\ NoteNames({}) = {}
    BY <1>1 DEF Pass, NoteNames
  <2>4. Len(qu.entries) + 0 <= Len(qu.entries) /\ 0 <= ok
    BY <1>2, QueueType
  <2>5. Sent(q, qu, 0, ok, burst[0])
    BY <2>3, <2>4 DEF Sent
  <2>6. Accounts(qu.entries, burst[0].queue.entries, NoteNames(burst[0].notes))
    BY <2>1, <2>3
  <2>. QED  BY <2>2, <2>3, <2>5, <2>6 DEF BurstSane
<1>4. \A k \in 0..MaxCmds : BurstSane(q, qu, k, ok, burst[k])
  <2>. DEFINE T == {k \in 0..MaxCmds : BurstSane(q, qu, k, ok, burst[k])}
  <2>1. 0 \in T
    BY <1>2, <1>3
  <2>2. ASSUME NEW k \in 1..MaxCmds, k - 1 \in T
        PROVE  k \in T
    <3>1. BurstSane(q, qu, k, ok, BurstStep(q, k, burst[k - 1], ok))
      BY <2>2, BurstStepSane
    <3>2. k \in 0..MaxCmds
      OBVIOUS
    <3>. QED  BY <1>1, <3>1, <3>2
  <2>. HIDE DEF T
  <2>3. \A k \in 0..MaxCmds : k \in T
    BY <1>2, <2>1, <2>2, CountUp
  <2>. QED  BY <2>3 DEF T
<1>. DEFINE p == burst[MaxCmds]
            pass == SendPacks(q, qu, ok)
<1>5. BurstSane(q, qu, MaxCmds, ok, p) /\ p \in BurstPass(q) /\ p \in PassResult
  BY <1>2, <1>4 DEF BurstPass
<1>6. pass = IF p.queue.entries = <<>> THEN [p EXCEPT !.timeout = Off] ELSE p
  BY <1>1
<1>. HIDE DEF p, pass
<1>7. /\ pass \in PassResult /\ pass.queue = p.queue /\ pass.notes = p.notes
      /\ p.queue.entries # <<>> => pass.timeout = p.timeout
  BY <1>5, <1>6 DEF PassResult
<1>8. /\ p.queue \in Queue /\ Covered(p.queue) /\ Uncut(q, p.queue)
      /\ Distinct(p.queue.entries) /\ p.queue.pack.waiting = FALSE
  <2>1. p.queue \in Queue /\ Covered(p.queue) /\ Uncut(q, p.queue)
        /\ Distinct(p.queue.entries)
    BY <1>5 DEF BurstPass, PassResult
  <2>2. p.queue.pack.waiting \in BOOLEAN /\ ~p.queue.pack.waiting
    BY <2>1, QueueType DEF Uncut
  <2>. QED  BY <2>1, <2>2
<1>9. Sane(q, pass.queue, TRUE)
  <2>1. p.queue.pack.age <= Info[q].ackTimeout
    BY <1>2, <1>5 DEF BurstSane
  <2>2. p.queue.txAge <= Info[q].maxRate
    BY <1>5 DEF BurstSane
  <2>. QED  BY <1>7, <1>8, <2>1, <2>2 DEF Sane
<1>10. Watched(q, pass.queue, pass.timeout)
  <2>1. SUFFICES ASSUME p.queue.entries # <<>>, p.queue.pack.cmds = 0
                 PROVE  pass.timeout # Off /\ pass.timeout <= Info[q].maxRate - p.queue.txAge
    BY <1>7, <1>8 DEF Watched, Wake
  <2>2. Len(qu.entries) <= MaxCmds /\ Len(qu.entries) \in Nat
        /\ Len(p.queue.entries) \in Nat /\ Len(p.queue.entries) # 0
    <3>1. Len(qu.entries) <= MaxCmds
      BY QueueType, DistinctLength
    <3>2. p.queue.entries \in Seq(Command)
      BY <1>8, QueueType
    <3>. QED  BY <2>1, <3>1, <3>2, QueueType, CommandType
  <2>3. ~(Len(p.queue.entries) + MaxCmds <= Len(qu.entries))
    BY <1>2, <2>2
  <2>4. p.timeout = Info[q].maxRate /\ p.queue.txAge = 0 /\ Info[q].maxRate > 0
    BY <1>5, <2>1, <2>3 DEF BurstSane, Sent
  <2>. QED  BY <1>2, <1>7, <2>1, <2>4 DEF Off
<1>. QED  BY <1>5, <1>7, <1>8, <1>9, <1>10 DEF PassSound, BurstSane, pass

LEMMA SendPackSound ==
  ASSUME NEW q \in Queues, WithAck(q), NEW qu \in Queue, Covered(qu),
         qu.entries # <<>>, Distinct(qu.entries), qu.pack.waiting = FALSE,
         qu.pack.age = 0, qu.txAge <= Info[q].maxRate, NEW ok \in 0..MaxCmds
  PROVE  PassSound(q, qu, ok, TRUE, SendPack(q, qu, ok))
<1>. DEFINE pass == SendPack(q, qu, ok)
            packed == Packed(q, qu)
            none == <<>>
<1>1. Accounts(qu.entries, qu.entries, NoteNames({}))
  BY DEF Accounts, NoteNames
<1>2. /\ Info[q].ackTimeout \in Nat /\ Info[q].ackTimeout > 0 /\ Info[q].maxRate \in Nat
      /\ none \in Seq(Datagram) /\ {} \in SUBSET NoteType
  BY QueueInfoType
<1>3. /\ packed \in Queue /\ packed.entries = qu.entries /\ packed.txAge = qu.txAge
      /\ packed.pack.waiting = FALSE /\ packed.pack.age = 0
      /\ packed.pack.cmds \in 1..Len(qu.entries) /\ packed.pack.cmds # 0
      /\ Covered(packed) /\ Uncut(q, packed)
  <2>1. Uncut(q, qu)
    BY DEF Uncut
  <2>. QED  BY <2>1, PackedIs
<1>4. CASE ok = 0
  <2>1. pass = Pass(packed, none, {}, Off)
    BY <1>4 DEF SendPack
  <2>. HIDE DEF pass, packed, none
  <2>2. pass \in PassResult /\ pass.queue = packed /\ pass.notes = {}
    BY <1>2, <1>3, <2>1 DEF Pass, PassResult
  <2>3. Sane(q, pass.queue, TRUE)
    BY <1>2, <1>3, <2>2 DEF Sane
  <2>4. Watched(q, pass.queue, pass.timeout)
    BY <1>3, <2>2 DEF Watched
  <2>. QED  BY <1>1, <1>3, <2>2, <2>3, <2>4 DEF PassSound, pass
<1>5. CASE ok # 0
  <2>. DEFINE new == [packed EXCEPT !.txAge = 0, !.pack.waiting = TRUE, !.pack.age = 0]
              frames == <<Frame(packed)>>
  <2>1. pass = Pass(new, frames, {}, Info[q].ackTimeout)
    BY <1>5 DEF SendPack
  <2>2. frames \in Seq(Datagram)
    BY <1>3, FrameType
  <2>. HIDE DEF packed
  <2>3. /\ new \in Queue /\ new.entries = packed.entries /\ new.txAge = 0
        /\ new.pack.cmds = packed.pack.cmds /\ new.pack.remaining = packed.pack.remaining
        /\ new.last = packed.last /\ new.pack.age = 0 /\ new.pack.waiting = TRUE
    BY <1>3 DEF Queue, Pack
  <2>. HIDE DEF pass, new, frames
  <2>4. /\ pass \in PassResult /\ pass.queue = new /\ pass.notes = {}
        /\ pass.timeout = Info[q].ackTimeout
    BY <1>2, <2>1, <2>2, <2>3 DEF Pass, PassResult
  <2>5. Sane(q, pass.queue, TRUE)
    <3>1. Covered(new)
      BY <1>3, <2>3 DEF Covered
    <3>2. Uncut(q, new)
      BY DEF Uncut
    <3>. QED  BY <1>2, <2>3, <2>4, <3>1, <3>2 DEF Sane
  <2>6. Watched(q, pass.queue, pass.timeout)
    <3>1. Info[q].ackTimeout # Off /\ Info[q].ackTimeout <= Info[q].ackTimeout - 0
      BY <1>2 DEF Off
    <3>. QED  BY <2>3, <2>4, <3>1 DEF Watched, Wake
  <2>. QED  BY <1>1, <1>3, <2>3, <2>4, <2>5, <2>6 DEF PassSound, pass
<1>. QED  BY <1>4, <1>5

LEMMA CheckTxQueueSound ==
  ASSUME NEW q \in Queues, NEW qu \in Queue, NEW isUp \in BOOLEAN, Sane(q, qu, isUp),
         Distinct(qu.entries), NEW ok \in 0..MaxCmds
  PROVE  PassSound(q, qu, ok, isUp, CheckTxQueue(q, qu, ok))
<1>. DEFINE pass == CheckTxQueue(q, qu, ok)
            none == <<>>
            expired == Expire(qu)
<1>1. /\ Accounts(qu.entries, qu.entries, NoteNames({}))
      /\ none \in Seq(Datagram) /\ {} \in SUBSET NoteType
  BY DEF Accounts, NoteNames
<1>2. /\ Info[q].ackTimeout \in Nat /\ qu.pack.age \in Nat
      /\ Info[q].maxRate \in Nat /\ qu.txAge \in Nat
  BY QueueInfoType, QueueType
<1>3. CASE qu.entries = <<>>
  <2>1. pass = Pass(qu, none, {}, Off)
    BY <1>3 DEF CheckTxQueue
  <2>. HIDE DEF pass, none
  <2>2. pass \in PassResult /\ pass.queue = qu /\ pass.notes = {}
    BY <1>1, <2>1 DEF Pass, PassResult
  <2>3. Watched(q, pass.queue, pass.timeout)
    BY <1>3, <2>2 DEF Watched
  <2>. QED  BY <1>1, <2>2, <2>3 DEF PassSound, pass
<1>4. qu.entries # <<>> => isUp = TRUE /\ Covered(qu)
  BY DEF Sane
<1>5. CASE qu.entries # <<>> /\ AckPending(q, qu)
  <2>. DEFINE left == Info[q].ackTimeout - qu.pack.age
  <2>1. pass = Pass(qu, none, {}, left)
    BY <1>5 DEF CheckTxQueue
  <2>2. left \in Nat \ {0} /\ left # Off /\ left <= Info[q].ackTimeout - qu.pack.age
    BY <1>2, <1>5 DEF AckPending, Off
  <2>3. qu.pack.waiting = TRUE /\ WithAck(q)
    BY <1>5, QueueType DEF AckPending, Sane, Uncut
  <2>. HIDE DEF pass, left, none
  <2>4. pass \in PassResult /\ pass.queue = qu /\ pass.notes = {} /\ pass.timeout = left
    BY <1>1, <2>1, <2>2 DEF Pass, PassResult
  <2>5. Watched(q, pass.queue, pass.timeout)
    BY <2>2, <2>3, <2>4 DEF Watched, Wake
  <2>. QED  BY <1>1, <2>3, <2>4, <2>5 DEF PassSound, pass
<1>6. /\ expired \in Queue /\ expired.entries = qu.entries /\ expired.txAge = qu.txAge
      /\ expired.last = qu.last
      /\ expired.pack.waiting = FALSE /\ expired.pack.age = 0
      /\ expired.pack.cmds = qu.pack.cmds /\ expired.pack.remaining = qu.pack.remaining
  BY ExpireIs
<1>7. Uncut(q, expired) /\ (Covered(qu) => Covered(expired))
  BY <1>6 DEF Sane, Uncut, Covered
<1>8. CASE qu.entries # <<>> /\ ~AckPending(q, qu) /\ TooSoon(q, qu)
  <2>. DEFINE left == Info[q].maxRate - expired.txAge
  <2>1. pass = Pass(expired, none, {}, left)
    BY <1>8 DEF CheckTxQueue, SendLater
  <2>2. left \in Nat \ {0} /\ left # Off /\ left <= Info[q].maxRate - expired.txAge
    BY <1>2, <1>6, <1>8 DEF TooSoon, Off
  <2>. HIDE DEF pass, left, none, expired
  <2>3. pass \in PassResult /\ pass.queue = expired /\ pass.notes = {} /\ pass.timeout = left
    BY <1>1, <1>6, <2>1, <2>2 DEF Pass, PassResult
  <2>4. Watched(q, pass.queue, pass.timeout)
    BY <1>6, <2>2, <2>3 DEF Watched, Wake
  <2>5. Sane(q, pass.queue, isUp)
    BY <1>2, <1>4, <1>6, <1>7, <1>8, <2>3 DEF Sane
  <2>. QED  BY <1>1, <1>6, <2>3, <2>4, <2>5 DEF PassSound, pass
<1>9. CASE qu.entries # <<>> /\ ~AckPending(q, qu) /\ ~TooSoon(q, qu)
  <2>1. PassSound(q, expired, ok, TRUE, pass)
    <3>1. /\ Covered(expired) /\ expired.entries # <<>> /\ Distinct(expired.entries)
          /\ expired.txAge <= Info[q].maxRate
      BY <1>4, <1>6, <1>7, <1>9 DEF Sane
    <3>2. CASE WithAck(q)
      <4>1. pass = SendPack(q, expired, ok)
        BY <1>9, <3>2 DEF CheckTxQueue
      <4>. HIDE DEF pass, expired
      <4>. QED  BY <1>6, <3>1, <3>2, <4>1, SendPackSound
    <3>3. CASE ~WithAck(q)
      <4>1. pass = SendPacks(q, expired, ok)
        BY <1>9, <3>3 DEF CheckTxQueue
      <4>. HIDE DEF pass, expired
      <4>. QED  BY <1>6, <1>7, <3>1, <3>3, <4>1, SendPacksSound
    <3>. QED  BY <3>2, <3>3
  <2>2. isUp = TRUE
    BY <1>4, <1>9
  <2>. HIDE DEF pass, expired
  <2>. QED  BY <1>6, <2>1, <2>2 DEF PassSound, pass
<1>. QED  BY <1>3, <1>5, <1>8, <1>9

(***************************************************************************)
(* The queues together: check_tx_queues                                    *)
(***************************************************************************)

DoneType == [Cmds -> Seq(FinalStatus)]

AllNames(t) == UNION {NamesOf(t[q].entries) : q \in Queues}
Separate(t) ==
    /\ \A q \in Queues : Distinct(t[q].entries)
    /\ \A p, q \in Queues : p # q => NamesOf(t[p].entries) \cap NamesOf(t[q].entries) = {}

(* The queues t hold some of the commands 1..k.                            *)
Listed(t, k) == Separate(t) /\ AllNames(t) \subseteq 1..k

(* With the queues t, d says what became of commands 1..k.                 *)
Told(t, d, k) ==
    \A n \in Cmds : /\ n \in AllNames(t) => d[n] = <<>>
                    /\ n \in 1..k /\ n \notin AllNames(t) => Len(d[n]) = 1
                    /\ n > k => d[n] = <<>>

(* Nothing is told done that the socket then refuses.                      *)
Firm == RefuseUntil = 0 \/ \A q \in Queues : WithAck(q)
Fresh(q, qu) == ~WithAck(q) => qu.pack.cmds = 0

LEMMA NotifyIs ==
  ASSUME NEW d \in DoneType, NEW notes \in SUBSET NoteType
  PROVE  /\ Notify(d, notes) \in DoneType
         /\ \A n \in Cmds :
               /\ n \notin NoteNames(notes) => Notify(d, notes)[n] = d[n]
               /\ n \in NoteNames(notes) /\ d[n] = <<>> => Len(Notify(d, notes)[n]) = 1
<1>. DEFINE new == Notify(d, notes)
            Status(n) == (CHOOSE x \in notes : x.n = n).status
<1>1. ASSUME NEW n \in Cmds
      PROVE  /\ new[n] \in Seq(FinalStatus)
             /\ n \notin NoteNames(notes) => new[n] = d[n]
             /\ n \in NoteNames(notes) /\ d[n] = <<>> => Len(new[n]) = 1
  <2>0. d[n] \in Seq(FinalStatus)
    BY DEF DoneType
  <2>1. CASE \E x \in notes : x.n = n
    <3>1. (CHOOSE x \in notes : x.n = n) \in notes
      BY <2>1
    <3>2. Status(n) \in FinalStatus
      BY <3>1 DEF NoteType
    <3>3. new[n] = Append(d[n], Status(n))
      BY <2>1 DEF Notify
    <3>. HIDE DEF Status, new
    <3>4. new[n] \in Seq(FinalStatus) /\ Len(new[n]) = Len(d[n]) + 1
      BY <2>0, <3>2, <3>3, AppendProperties
    <3>5. n \in NoteNames(notes)
      BY <2>1 DEF NoteNames
    <3>6. d[n] = <<>> => Len(d[n]) = 0
      OBVIOUS
    <3>. QED  BY <3>4, <3>5, <3>6
  <2>2. CASE ~\E x \in notes : x.n = n
    <3>1. new[n] = d[n]
      BY <2>2 DEF Notify
    <3>2. n \notin NoteNames(notes)
      BY <2>2 DEF NoteNames
    <3>. HIDE DEF new
    <3>. QED  BY <2>0, <3>1, <3>2
  <2>. QED  BY <2>1, <2>2
<1>2. new = [n \in Cmds |-> new[n]]
  BY DEF Notify
<1>. HIDE DEF new
<1>3. new \in DoneType
  BY <1>1, <1>2 DEF DoneType
<1>. QED  BY <1>1, <1>3 DEF new

LEMMA KeptListed ==
  ASSUME NEW s, NEW t, NEW k, Listed(s, k),
         \A q \in Queues : /\ Distinct(t[q].entries)
                           /\ NamesOf(t[q].entries) \subseteq NamesOf(s[q].entries)
  PROVE  Listed(t, k)
<1>1. Separate(t)
  BY DEF Listed, Separate
<1>2. AllNames(t) \subseteq AllNames(s)
  BY DEF AllNames
<1>. QED  BY <1>1, <1>2 DEF Listed

LEMMA TellTold ==
  ASSUME NEW s, NEW t, NEW told, NEW notes \in SUBSET NoteType, NEW d \in DoneType,
         NEW k \in 0..MaxCmds, Listed(s, k), Told(s, d, k),
         \A q \in Queues : Accounts(s[q].entries, t[q].entries, told[q]),
         \A n : n \in NoteNames(notes) <=> \E q \in Queues : n \in told[q]
  PROVE  Told(t, Notify(d, notes), k)
<1>. DEFINE new == Notify(d, notes)
            names == NoteNames(notes)
<1>1. ASSUME NEW q \in Queues
      PROVE  /\ NamesOf(t[q].entries) \cup told[q] = NamesOf(s[q].entries)
             /\ NamesOf(t[q].entries) \cap told[q] = {}
  BY DEF Listed, Separate, Accounts
<1>2. /\ \A n : n \in AllNames(s) <=> \E q \in Queues : n \in NamesOf(s[q].entries)
      /\ \A n : n \in AllNames(t) <=> \E q \in Queues : n \in NamesOf(t[q].entries)
      /\ \A n : n \in names <=> \E q \in Queues : n \in told[q]
  BY DEF AllNames
<1>. HIDE DEF names
<1>3. AllNames(t) \cup names = AllNames(s)
  BY <1>1, <1>2
<1>4. AllNames(t) \cap names = {}
  <2>1. SUFFICES ASSUME NEW n, n \in AllNames(t), n \in names
                 PROVE  FALSE
    OBVIOUS
  <2>2. PICK p \in Queues : n \in NamesOf(t[p].entries)
    BY <1>2, <2>1
  <2>3. PICK q \in Queues : n \in told[q]
    BY <1>2, <2>1
  <2>4. n \in NamesOf(s[p].entries) /\ n \in NamesOf(s[q].entries)
    BY <1>1, <2>2, <2>3
  <2>5. p = q
    BY <2>4 DEF Listed, Separate
  <2>. QED  BY <1>1, <2>2, <2>3, <2>5
<1>5. ASSUME NEW n \in Cmds
      PROVE  /\ n \in AllNames(t) => new[n] = <<>>
             /\ n \in 1..k /\ n \notin AllNames(t) => Len(new[n]) = 1
             /\ n > k => new[n] = <<>>
  <2>1. /\ n \notin names => new[n] = d[n]
        /\ n \in names /\ d[n] = <<>> => Len(new[n]) = 1
    BY NotifyIs DEF names
  <2>2. /\ n \in AllNames(s) => d[n] = <<>>
        /\ n \in 1..k /\ n \notin AllNames(s) => Len(d[n]) = 1
        /\ n > k => d[n] = <<>>
    BY DEF Told
  <2>3. n \in AllNames(s) => n \in 1..k
    BY DEF Listed
  <2>4. n \in 1..k => ~(n > k)
    BY BoundsAssumption
  <2>. HIDE DEF new
  <2>5. CASE n \in names
    BY <1>3, <1>4, <2>1, <2>2, <2>3, <2>4, <2>5
  <2>6. CASE n \notin names
    BY <1>3, <2>1, <2>2, <2>6
  <2>. QED  BY <2>5, <2>6
<1>. HIDE DEF new
<1>6. Told(t, new, k)
  BY <1>5 DEF Told
<1>. QED  BY <1>6 DEF new

LEMMA PutType ==
  ASSUME NEW channel \in Seq(Datagram), NEW frames \in Seq(Datagram)
  PROVE  Put(channel, frames) \in Seq(Datagram)
  BY DEF Put

LEMMA NextTimerIs ==
  ASSUME NEW S \in SUBSET ((Nat \ {0}) \cup {Off})
  PROVE  /\ NextTimer(S) \in Nat \cup {Off}
         /\ \A x \in S : x # Off => NextTimer(S) # Off /\ NextTimer(S) <= x
<1>1. 0 \notin S
  BY DEF Off
<1>2. CASE S \subseteq {Off}
  BY <1>2 DEF NextTimer
<1>3. CASE ~(S \subseteq {Off})
  <2>. DEFINE T == S \ {Off}
  <2>1. T \in SUBSET Nat /\ T # {}
    BY <1>3
  <2>2. NextTimer(S) = Min(T)
    BY <1>1, <1>3 DEF NextTimer
  <2>3. \A x \in S : x # Off => x \in T
    OBVIOUS
  <2>. HIDE DEF T
  <2>4. Min(T) \in T /\ \A y \in T : Min(T) <= y
    BY <2>1, MinOfNaturals
  <2>5. Min(T) \in Nat /\ Min(T) # Off
    <3>1. Off \notin Nat
      BY DEF Off
    <3>. QED  BY <2>1, <2>4, <3>1
  <2>. QED  BY <2>2, <2>3, <2>4, <2>5
<1>. QED  BY <1>2, <1>3

(* What holds of the sender, with d told and the shared timer at `left'.   *)
Sound(t, d, k, left, isUp) ==
    /\ t \in [Queues -> Queue] /\ d \in DoneType
    /\ Listed(t, k)
    /\ Firm => Told(t, d, k) /\ \A q \in Queues : Fresh(q, t[q])
    /\ \A q \in Queues : Sane(q, t[q], isUp) /\ Watched(q, t[q], left)

LEMMA CheckTxQueuesSound ==
  ASSUME NEW t \in [Queues -> Queue], NEW notes \in SUBSET NoteType, done \in DoneType,
         NEW k \in 0..MaxCmds, NEW isUp \in BOOLEAN, data \in [Queues -> Seq(Datagram)],
         Listed(t, k), \A q \in Queues : Sane(q, t[q], isUp),
         Firm => Told(t, Notify(done, notes), k) /\ \A q \in Queues : Fresh(q, t[q]),
         CheckTxQueues(t, notes)
  PROVE  /\ timer' \in Nat \cup {Off} /\ data' \in [Queues -> Seq(Datagram)]
         /\ Sound(tx', done', k, timer', isUp)
<1>1. PICK pass \in Passes(t) :
        /\ tx' = [q \in Queues |-> pass[q].queue]
        /\ data' = [q \in Queues |-> Put(data[q], pass[q].frames)]
        /\ done' = Notify(Notify(done, notes), UNION {pass[q].notes : q \in Queues})
        /\ timer' = NextTimer({pass[q].timeout : q \in Queues})
  BY DEF CheckTxQueues
<1>2. PICK ok \in Budget(t) : pass = [q \in Queues |-> CheckTxQueue(q, t[q], ok[q])]
  BY DEF Passes
<1>. DEFINE given == UNION {pass[q].notes : q \in Queues}
            told == [q \in Queues |-> NoteNames(pass[q].notes)]
            timeouts == {pass[q].timeout : q \in Queues}
            d == Notify(done, notes)
<1>3. ASSUME NEW q \in Queues
      PROVE  ok[q] \in 0..MaxCmds /\ (Firm /\ ~WithAck(q) => ok[q] = MaxCmds)
  <2>1. ok \in [Queues -> 0..MaxCmds]
        /\ \A p \in Queues : t[p].serial >= RefuseUntil => ok[p] = MaxCmds
    BY DEF Budget
  <2>2. t[q].serial \in Nat
    BY QueueType
  <2>. QED  BY <2>1, <2>2 DEF Firm
<1>4. ASSUME NEW q \in Queues
      PROVE  PassSound(q, t[q], ok[q], isUp, pass[q])
  <2>1. t[q] \in Queue /\ Sane(q, t[q], isUp) /\ Distinct(t[q].entries)
    BY DEF Listed, Separate
  <2>2. ok[q] \in 0..MaxCmds
    BY <1>3
  <2>3. PassSound(q, t[q], ok[q], isUp, CheckTxQueue(q, t[q], ok[q]))
    BY <2>1, <2>2, CheckTxQueueSound
  <2>. QED  BY <1>2, <2>3
<1>5. ASSUME NEW q \in Queues
      PROVE  /\ pass[q].queue \in Queue /\ pass[q].frames \in Seq(Datagram)
             /\ pass[q].notes \in SUBSET NoteType
             /\ pass[q].timeout \in (Nat \ {0}) \cup {Off}
             /\ Sane(q, pass[q].queue, isUp) /\ Watched(q, pass[q].queue, pass[q].timeout)
             /\ Distinct(pass[q].queue.entries)
             /\ NamesOf(pass[q].queue.entries) \subseteq NamesOf(t[q].entries)
  BY <1>4 DEF PassSound, PassResult
<1>6. tx' \in [Queues -> Queue] /\ \A q \in Queues : tx'[q] = pass[q].queue
  BY <1>1, <1>5
<1>7. data' \in [Queues -> Seq(Datagram)]
  BY <1>1, <1>5, PutType
<1>8. timeouts \in SUBSET ((Nat \ {0}) \cup {Off})
  BY <1>5
<1>9. timer' \in Nat \cup {Off}
      /\ \A x \in timeouts : x # Off => timer' # Off /\ timer' <= x
  <2>. HIDE DEF timeouts
  <2>. QED  BY <1>1, <1>8, NextTimerIs DEF timeouts
<1>10. given \in SUBSET NoteType
  BY <1>5
<1>11. d \in DoneType /\ done' = Notify(d, given)
  BY <1>1, NotifyIs
<1>12. done' \in DoneType
  <2>. HIDE DEF d, given
  <2>. QED  BY <1>10, <1>11, NotifyIs
<1>13. Listed(tx', k)
  BY <1>5, <1>6, KeptListed
<1>14. ASSUME Firm
       PROVE  Told(tx', done', k) /\ \A q \in Queues : Fresh(q, tx'[q])
  <2>1. ASSUME NEW q \in Queues
        PROVE  WithAck(q) \/ (ok[q] = MaxCmds /\ t[q].pack.cmds = 0)
    BY <1>3, <1>14 DEF Fresh
  <2>2. \A q \in Queues : Accounts(t[q].entries, tx'[q].entries, told[q])
    BY <1>4, <1>6, <2>1 DEF PassSound
  <2>3. \A q \in Queues : Fresh(q, tx'[q])
    BY <1>4, <1>6, <2>1 DEF PassSound, Fresh
  <2>4. \A n : n \in NoteNames(given) <=> \E q \in Queues : n \in told[q]
    BY DEF NoteNames
  <2>5. Told(t, d, k)
    BY <1>14
  <2>. HIDE DEF d, given, told
  <2>6. Told(tx', Notify(d, given), k)
    BY <1>10, <1>11, <2>2, <2>4, <2>5, TellTold
  <2>. QED  BY <1>11, <2>3, <2>6
<1>15. ASSUME NEW q \in Queues
       PROVE  Watched(q, tx'[q], timer')
  <2>. DEFINE x == pass[q].timeout
  <2>1. Watched(q, tx'[q], x) /\ x \in timeouts
    BY <1>5, <1>6
  <2>2. CASE x = Off
    BY <2>1, <2>2 DEF Watched
  <2>3. CASE x # Off
    <3>1. timer' # Off /\ timer' <= x /\ x \in Nat /\ timer' \in Nat
      <4>. HIDE DEF timeouts
      <4>. QED  BY <1>5, <1>9, <2>1, <2>3
    <3>2. Wake(q, tx'[q]) \in Int
      <4>1. /\ tx'[q].pack.age \in Nat /\ Info[q].ackTimeout \in Nat
            /\ tx'[q].txAge \in Nat /\ Info[q].maxRate \in Nat
        BY <1>6, QueueType, QueueInfoType
      <4>. QED  BY <4>1 DEF Wake
    <3>3. x <= Wake(q, tx'[q]) => timer' <= Wake(q, tx'[q])
      BY <3>1, <3>2
    <3>. HIDE DEF x
    <3>. QED  BY <2>1, <3>1, <3>3 DEF Watched
  <2>. QED  BY <2>2, <2>3
<1>16. \A q \in Queues : Sane(q, tx'[q], isUp)
  BY <1>5, <1>6
<1>17. Sound(tx', done', k, timer', isUp)
  BY <1>6, <1>12, <1>13, <1>14, <1>15, <1>16 DEF Sound
<1>. QED  BY <1>7, <1>9, <1>17

(***************************************************************************)
(* The inductive invariant                                                 *)
(***************************************************************************)

IInv == TypeOK /\ Sound(tx, done, sent, timer, up)

LEMMA InitIInv == Init => IInv
<1>. SUFFICES ASSUME Init
              PROVE  IInv
  OBVIOUS
<1>. DEFINE none == <<>>
<1>1. /\ none \in Seq(Command) /\ DOMAIN none = {} /\ Len(none) = 0
      /\ none \in Seq(FinalStatus) /\ none \in Seq(Datagram) /\ none \in Seq(Byte)
      /\ none \in Seq(Cmds \cup {Garbled})
  OBVIOUS
<1>2. ASSUME NEW q \in Queues
      PROVE  /\ tx[q] \in Queue /\ tx[q].entries = none /\ tx[q].pack.cmds = 0
             /\ tx[q].pack.age = 0 /\ ~tx[q].pack.waiting
             /\ tx[q].pack.remaining = 0 /\ tx[q].last.remaining = 0
             /\ tx[q].txAge = Info[q].maxRate
  <2>1. tx[q] = [entries |-> none, seq |-> SeqSize - 1, txAge |-> Info[q].maxRate,
                 pack |-> [bytes |-> none, cmds |-> 0, remaining |-> 0, waiting |-> FALSE,
                           age |-> 0],
                 last |-> [seq |-> SeqSize - 1, remaining |-> 0], serial |-> 0]
    BY DEF Init, NewQueue, NewPack
  <2>2. SeqSize - 1 \in 0..(SeqSize - 1) /\ Info[q].maxRate \in Nat
    BY SeqAssumption, QueueInfoType
  <2>. HIDE DEF none
  <2>. QED  BY <1>1, <2>1, <2>2 DEF Queue, Pack
<1>3. TypeOK
  <2>1. tx \in [Queues -> Queue]
    <3>1. tx = [q \in Queues |-> NewQueue(q)]
      BY DEF Init
    <3>. QED  BY <1>2, <3>1
  <2>2. recv \in [Queues -> 0..(SeqSize - 1)]
    BY SeqAssumption DEF Init
  <2>3. /\ timer \in Nat \cup {Off} /\ up \in BOOLEAN /\ sent \in 0..MaxCmds
        /\ rserial \in [Queues -> Nat] /\ synced \in [Queues -> BOOLEAN]
    BY BoundsAssumption DEF Init
  <2>4. /\ done \in [Cmds -> Seq(FinalStatus)]
        /\ data \in [Queues -> Seq(Datagram)] /\ acks \in [Queues -> Seq(Datagram)]
        /\ delivered \in [Queues -> Seq(Cmds \cup {Garbled})]
    BY DEF Init
  <2>5. partial \in [Queues -> Partial]
    BY DEF Init, Partial
  <2>. QED  BY <2>1, <2>2, <2>3, <2>4, <2>5 DEF TypeOK
<1>4. \A q \in Queues : NamesOf(tx[q].entries) = {} /\ Distinct(tx[q].entries)
  <2>. HIDE DEF none
  <2>. QED  BY <1>1, <1>2 DEF NamesOf, Distinct
<1>5. AllNames(tx) = {} /\ Listed(tx, sent)
  BY <1>4 DEF AllNames, Separate, Listed
<1>6. Told(tx, done, sent)
  <2>1. sent = 0 /\ \A n \in Cmds : done[n] = <<>> /\ n \notin 1..sent
    BY DEF Init
  <2>. QED  BY <1>5, <2>1 DEF Told
<1>7. ASSUME NEW q \in Queues
      PROVE  Sane(q, tx[q], up) /\ Watched(q, tx[q], timer) /\ Fresh(q, tx[q])
  <2>1. up
    BY DEF Init
  <2>2. tx[q].pack.age <= Info[q].ackTimeout /\ tx[q].txAge <= Info[q].maxRate
    BY <1>2, QueueInfoType
  <2>3. Covered(tx[q])
    <3>. HIDE DEF none
    <3>. QED  BY <1>1, <1>2 DEF Covered, Left
  <2>4. Uncut(q, tx[q])
    <3>. HIDE DEF none
    <3>. QED  BY <1>1, <1>2 DEF Uncut, AllFit
  <2>5. Watched(q, tx[q], timer) /\ Fresh(q, tx[q])
    BY <1>2 DEF Watched, Fresh
  <2>. QED  BY <2>1, <2>2, <2>3, <2>4, <2>5 DEF Sane
<1>. QED  BY <1>3, <1>5, <1>6, <1>7 DEF IInv, Sound, TypeOK, DoneType

LEMMA WatchType == Watch => synced' \in [Queues -> BOOLEAN]
  BY DEF Watch, InWindow

(* What the handlers share: a check of the queues after which nothing else *)
(* changes the sender's state.                                             *)
LEMMA CheckIInv ==
  ASSUME IInv, NEW t \in [Queues -> Queue], NEW notes \in SUBSET NoteType,
         NEW k \in 0..MaxCmds, sent' = k, Listed(t, k),
         Firm => Told(t, Notify(done, notes), k) /\ \A q \in Queues : Fresh(q, t[q]),
         \A q \in Queues : Sane(q, t[q], up),
         CheckTxQueues(t, notes), acks' \in [Queues -> Seq(Datagram)],
         UNCHANGED <<up, receiver>>, Watch
  PROVE  IInv'
<1>1. data \in [Queues -> Seq(Datagram)] /\ up \in BOOLEAN /\ done \in DoneType
  BY DEF IInv, TypeOK, DoneType
<1>. DEFINE isUp == up
<1>2. isUp \in BOOLEAN /\ \A q \in Queues : Sane(q, t[q], isUp)
  BY <1>1
<1>. HIDE DEF isUp
<1>3. /\ timer' \in Nat \cup {Off} /\ data' \in [Queues -> Seq(Datagram)]
      /\ Sound(tx', done', k, timer', isUp)
  BY <1>1, <1>2, CheckTxQueuesSound
<1>4. synced' \in [Queues -> BOOLEAN]
  BY WatchType
<1>5. tx' \in [Queues -> Queue] /\ done' \in [Cmds -> Seq(FinalStatus)]
  BY <1>3 DEF Sound, DoneType
<1>6. TypeOK'
  BY <1>3, <1>4, <1>5 DEF IInv, TypeOK, receiver
<1>7. Sound(tx', done', sent', timer', up')
  BY <1>3 DEF isUp
<1>. QED  BY <1>6, <1>7 DEF IInv

LEMMA AppendListed ==
  ASSUME NEW s \in [Queues -> Queue], NEW q \in Queues, NEW t, NEW c \in Command,
         NEW k \in 0..MaxCmds, c.n = k + 1, Listed(s, k),
         t[q].entries = Append(s[q].entries, c),
         \A p \in Queues : p # q => t[p] = s[p]
  PROVE  /\ Listed(t, k + 1)
         /\ \A d : Told(s, d, k) => Told(t, d, k + 1)
<1>. DEFINE n == k + 1
            es == s[q].entries
            new == Append(es, c)
            L == Len(es)
<1>1. /\ es \in Seq(Command) /\ L \in Nat /\ DOMAIN es = 1..L
  BY QueueType
<1>2. /\ DOMAIN new = 1..(L + 1) /\ new[L + 1] = c
      /\ \A i \in 1..L : new[i] = es[i]
  BY <1>1, AppendProperties, LenProperties
<1>3. t[q].entries = new
  OBVIOUS
<1>4. n \notin AllNames(s) /\ k \in Nat /\ n \in Nat
  <2>1. n \notin 1..k /\ k \in Nat
    BY BoundsAssumption
  <2>. QED  BY <2>1 DEF Listed
<1>5. \A p \in Queues : n \notin NamesOf(s[p].entries)
  BY <1>4 DEF AllNames
<1>6. \A i \in 1..L : es[i].n # n
  BY <1>1, <1>5 DEF NamesOf
<1>. HIDE DEF new, L, es
<1>7. NamesOf(new) = NamesOf(es) \cup {n}
  <2>1. \A i \in 1..(L + 1) : i \in 1..L \/ i = L + 1
    BY <1>1
  <2>2. \A i \in 1..L : i \in 1..(L + 1)
    BY <1>1
  <2>3. L + 1 \in 1..(L + 1)
    BY <1>1
  <2>. QED  BY <1>1, <1>2, <2>1, <2>2, <2>3 DEF NamesOf
<1>8. Distinct(new)
  <2>1. \A i \in 1..(L + 1) : i \in 1..L \/ i = L + 1
    BY <1>1
  <2>2. Distinct(es)
    BY DEF Listed, Separate, es
  <2>. QED  BY <1>1, <1>2, <1>6, <2>1, <2>2 DEF Distinct
<1>9. /\ \A x : x \in AllNames(s) <=> \E p \in Queues : x \in NamesOf(s[p].entries)
      /\ \A x : x \in AllNames(t) <=> \E p \in Queues : x \in NamesOf(t[p].entries)
  BY DEF AllNames
<1>10. /\ NamesOf(t[q].entries) = NamesOf(s[q].entries) \cup {n}
       /\ \A p \in Queues : p # q => NamesOf(t[p].entries) = NamesOf(s[p].entries)
  BY <1>3, <1>7 DEF es
<1>11. AllNames(t) = AllNames(s) \cup {n}
  <2>. HIDE DEF n
  <2>. QED  BY <1>9, <1>10
<1>12. Separate(t)
  <2>1. \A p \in Queues : Distinct(t[p].entries)
    <3>1. TAKE p \in Queues
    <3>2. CASE p = q
      BY <1>3, <1>8, <3>2
    <3>3. CASE p # q
      BY <3>3 DEF Listed, Separate
    <3>. QED  BY <3>2, <3>3
  <2>2. ASSUME NEW p \in Queues, NEW r \in Queues, p # r
        PROVE  NamesOf(t[p].entries) \cap NamesOf(t[r].entries) = {}
    <3>1. NamesOf(s[p].entries) \cap NamesOf(s[r].entries) = {}
      BY <2>2 DEF Listed, Separate
    <3>. HIDE DEF n
    <3>. QED  BY <1>5, <1>10, <2>2, <3>1
  <2>. QED  BY <2>1, <2>2 DEF Separate
<1>13. \A x \in Nat : /\ x \in 1..n <=> x \in 1..k \/ x = n
                      /\ x > n => x > k
  BY <1>4
<1>14. n > k /\ n \in 1..n
  BY <1>4
<1>15. \A x \in 1..k : x \in Nat
  OBVIOUS
<1>16. AllNames(t) \subseteq 1..n
  <2>. HIDE DEF n
  <2>. QED  BY <1>11, <1>13, <1>14, <1>15 DEF Listed
<1>17. ASSUME NEW d, Told(s, d, k), NEW m \in Cmds
       PROVE  /\ m \in AllNames(t) => d[m] = <<>>
              /\ m \in 1..n /\ m \notin AllNames(t) => Len(d[m]) = 1
              /\ m > n => d[m] = <<>>
  <2>1. m \in Nat
    BY DEF Cmds
  <2>2. /\ m \in AllNames(s) => d[m] = <<>>
        /\ m \in 1..k /\ m \notin AllNames(s) => Len(d[m]) = 1
        /\ m > k => d[m] = <<>>
    BY <1>17 DEF Told
  <2>3. c.n = n
    OBVIOUS
  <2>4. CASE m = n
    BY <1>11, <1>14, <2>2, <2>4
  <2>5. CASE m # n
    <3>. HIDE DEF n
    <3>. QED  BY <1>11, <1>13, <1>14, <2>1, <2>2, <2>5
  <2>. QED  BY <2>4, <2>5
<1>18. \A d : Told(s, d, k) => Told(t, d, n)
  BY <1>17 DEF Told
<1>. QED  BY <1>12, <1>16, <1>18 DEF Listed

LEMMA NotifyNone ==
  ASSUME NEW d \in DoneType
  PROVE  Notify(d, {}) = d
  BY DEF Notify, DoneType

LEMMA AppendSane ==
  ASSUME NEW q \in Queues, NEW qu \in Queue, NEW new, NEW c \in Command, NEW isUp, isUp,
         new.entries = Append(qu.entries, c), new.pack = qu.pack, new.last = qu.last,
         new.txAge = qu.txAge, Fits(q, c.size), Sane(q, qu, isUp)
  PROVE  Sane(q, new, isUp)
<1>. DEFINE es == qu.entries
            longer == Append(es, c)
            L == Len(es)
<1>1. /\ L \in Nat /\ DOMAIN es = 1..L /\ es \in Seq(Command) /\ qu.pack.cmds \in Nat
      /\ Len(longer) = L + 1
      /\ DOMAIN longer = 1..(L + 1) /\ longer[L + 1] = c
      /\ \A i \in 1..L : longer[i] = es[i]
  BY QueueType, AppendProperties, LenProperties
<1>2. Covered(qu) /\ Uncut(q, qu)
  BY DEF Sane
<1>3. new.entries = longer
  OBVIOUS
<1>. HIDE DEF L, longer
<1>4. ASSUME NEW i, NEW left, Left(es, i, left)
      PROVE  Left(longer, i, left)
  <2>1. i \in 1..L => i \in 1..(L + 1)
    BY <1>1
  <2>. HIDE DEF es
  <2>. QED  BY <1>1, <1>4, <2>1 DEF Left
<1>5. Covered(new)
  <2>1. qu.pack.cmds <= L + 1
    BY <1>1, <1>2 DEF Covered, L
  <2>2. Left(longer, qu.pack.cmds, qu.pack.remaining) /\ Left(longer, 1, qu.last.remaining)
    BY <1>2, <1>4 DEF Covered
  <2>. QED  BY <1>1, <1>3, <2>1, <2>2 DEF Covered
<1>6. ASSUME ~WithAck(q)
      PROVE  AllFit(q, longer)
  <2>1. AllFit(q, es)
    BY <1>2, <1>6 DEF Uncut
  <2>2. \A i \in 1..(L + 1) : i \in 1..L \/ i = L + 1
    BY <1>1
  <2>. HIDE DEF es
  <2>. QED  BY <1>1, <2>1, <2>2 DEF AllFit
<1>7. Uncut(q, new)
  BY <1>2, <1>3, <1>6 DEF Uncut
<1>. QED  BY <1>5, <1>7 DEF Sane

LEMMA SendIInv ==
  ASSUME IInv, NEW bt \in BufferTypes, NEW size \in Sizes, Send(bt, size)
  PROVE  IInv'
<1>. DEFINE c == [n |-> sent + 1, size |-> size]
<1>1. PICK q \in Queues :
        /\ Fits(q, size)
        /\ CheckTxQueues([tx EXCEPT ![q].entries = Append(tx[q].entries, c)], {})
  BY DEF Send
<1>. DEFINE t == [tx EXCEPT ![q].entries = Append(tx[q].entries, c)]
            new == [tx[q] EXCEPT !.entries = Append(tx[q].entries, c)]
<1>2. /\ tx \in [Queues -> Queue] /\ tx[q] \in Queue /\ up
      /\ sent \in 0..MaxCmds /\ sent \in Nat /\ sent + 1 \in 0..MaxCmds
      /\ sent' = sent + 1 /\ done \in DoneType /\ Listed(tx, sent)
      /\ Firm => Told(tx, done, sent) /\ \A p \in Queues : Fresh(p, tx[p])
      /\ \A p \in Queues : Sane(p, tx[p], up)
  <2>1. /\ up /\ sent \in 0..MaxCmds /\ sent' = sent + 1 /\ sent < MaxCmds
        /\ tx \in [Queues -> Queue]
    BY DEF IInv, TypeOK, Send
  <2>2. sent \in Nat /\ sent + 1 \in 0..MaxCmds
    BY <2>1, BoundsAssumption
  <2>3. Sound(tx, done, sent, timer, up)
    BY DEF IInv
  <2>. QED  BY <2>1, <2>2, <2>3 DEF Sound
<1>3. c \in Command /\ c.n = sent + 1 /\ c.size = size
  <2>1. sent + 1 \in Cmds
    BY <1>2 DEF Cmds, Send
  <2>. QED  BY <2>1 DEF Command
<1>4. CheckTxQueues(t, {})
  BY <1>1
<1>. HIDE DEF c
<1>5. tx[q].entries \in Seq(Command) /\ Append(tx[q].entries, c) \in Seq(Command)
  BY <1>2, <1>3, QueueType
<1>6. /\ t[q] = new /\ new \in Queue /\ new.entries = Append(tx[q].entries, c)
      /\ new.pack = tx[q].pack /\ new.last = tx[q].last /\ new.txAge = tx[q].txAge
      /\ t \in [Queues -> Queue]
      /\ \A p \in Queues : p # q => t[p] = tx[p]
  BY <1>2, <1>5 DEF Queue
<1>. HIDE DEF t, new
<1>7. /\ Listed(t, sent + 1)
      /\ \A d : Told(tx, d, sent) => Told(t, d, sent + 1)
  BY <1>2, <1>3, <1>6, AppendListed
<1>8. ASSUME NEW p \in Queues
      PROVE  Sane(p, t[p], up) /\ (Fresh(p, tx[p]) => Fresh(p, t[p]))
  <2>1. Sane(p, tx[p], up)
    BY <1>2
  <2>2. CASE p # q
    BY <1>6, <2>1, <2>2
  <2>3. CASE p = q
    BY <1>1, <1>2, <1>3, <1>6, <2>1, <2>3, AppendSane DEF Fresh
  <2>. QED  BY <2>2, <2>3
<1>9. UNCHANGED <<up, receiver>> /\ Watch /\ acks' \in [Queues -> Seq(Datagram)]
  BY DEF IInv, TypeOK, Send
<1>10. {} \in SUBSET NoteType
  OBVIOUS
<1>11. Firm => Told(t, Notify(done, {}), sent + 1) /\ \A p \in Queues : Fresh(p, t[p])
  BY <1>2, <1>7, <1>8, NotifyNone
<1>. QED  BY <1>2, <1>4, <1>6, <1>7, <1>8, <1>9, <1>10, <1>11, CheckIInv

LEMMA TimerCbIInv ==
  ASSUME IInv, TimerCb
  PROVE  IInv'
<1>1. /\ tx \in [Queues -> Queue] /\ done \in DoneType /\ sent \in 0..MaxCmds
      /\ Listed(tx, sent) /\ \A q \in Queues : Sane(q, tx[q], up)
      /\ Firm => Told(tx, done, sent) /\ \A p \in Queues : Fresh(p, tx[p])
      /\ acks' \in [Queues -> Seq(Datagram)] /\ {} \in SUBSET NoteType
  BY DEF IInv, TypeOK, Sound, TimerCb
<1>2. CheckTxQueues(tx, {}) /\ UNCHANGED <<up, receiver>> /\ Watch /\ sent' = sent
  BY DEF TimerCb
<1>3. Notify(done, {}) = done
  BY <1>1, NotifyNone
<1>. QED  BY <1>1, <1>2, <1>3, CheckIInv

LEMMA TakenType ==
  ASSUME NEW channel \in Seq(Datagram), channel # <<>>, NEW copy \in BOOLEAN
  PROVE  Taken(channel, copy) \in Seq(Datagram) /\ Head(channel) \in Datagram
<1>1. Head(channel) \in Datagram /\ Tail(channel) \in Seq(Datagram)
  BY HeadTailProperties
<1>. QED  BY <1>1 DEF Taken

(* The first command left is the one the pack cut, if it cut one.          *)
LEMMA AcknowledgedIs ==
  ASSUME NEW qu \in Queue, Covered(qu)
  PROVE  LET new == Acknowledged(qu)
             whole == SubSeq(qu.entries, 1, SentWhole(qu))
         IN  /\ new \in Queue /\ whole \in Seq(Command)
             /\ new.pack.waiting = qu.pack.waiting /\ new.pack.age = qu.pack.age
             /\ new.txAge = qu.txAge /\ Covered(new)
             /\ Accounts(qu.entries, new.entries, NamesOf(whole))
<1>. DEFINE k == SentWhole(qu)
            es == qu.entries
            L == Len(es)
            left == qu.pack.remaining
            rest == SubSeq(es, k + 1, L)
            none == <<>>
            last == [seq |-> qu.seq, remaining |-> left]
            new == Acknowledged(qu)
<1>1. /\ es \in Seq(Command) /\ L \in Nat /\ DOMAIN es = 1..L /\ qu.pack.cmds \in 0..L
      /\ left \in Nat /\ Left(es, qu.pack.cmds, left)
  BY QueueType DEF Covered
<1>2. /\ k \in 0..L
      /\ left # 0 => k + 1 \in 1..L /\ left <= es[k + 1].size
  <2>1. CASE left = 0
    BY <1>1, <2>1 DEF SentWhole
  <2>2. CASE left # 0
    <3>1. k = qu.pack.cmds - 1
      BY <2>2 DEF SentWhole
    <3>2. qu.pack.cmds \in 1..L /\ left <= es[qu.pack.cmds].size
      BY <1>1, <2>2 DEF Left
    <3>3. k + 1 = qu.pack.cmds
      BY <3>1, <3>2
    <3>. HIDE DEF k, L, es, left
    <3>. QED  BY <1>1, <3>1, <3>2, <3>3
  <2>. QED  BY <2>1, <2>2
<1>3. none \in Seq(Byte)
  OBVIOUS
<1>4. last \in [seq : 0..(SeqSize - 1), remaining : Nat]
  BY <1>1, QueueType
<1>5. /\ SubSeq(es, 1, k) \in Seq(Command)
      /\ Accounts(es, rest, NamesOf(SubSeq(es, 1, k)))
      /\ rest \in Seq(Command) /\ DOMAIN rest = 1..(L - k)
      /\ \A i \in 1..(L - k) : rest[i] = es[i + k]
  <2>. HIDE DEF k
  <2>. QED  BY <1>1, <1>2, SplitIs, SplitNames
<1>6. new = [qu EXCEPT !.entries = rest, !.last = last, !.pack.bytes = none,
                       !.pack.cmds = 0, !.pack.remaining = 0]
  BY DEF Acknowledged
<1>7. Left(rest, 1, left)
  <2>1. left # 0 => 1 \in 1..(L - k) /\ 1 + k = k + 1
    <3>. HIDE DEF k, L, left
    <3>. QED  BY <1>1, <1>2
  <2>. HIDE DEF k, L, left, rest
  <2>. QED  BY <1>2, <1>5, <2>1 DEF Left
<1>8. last.remaining = left
  OBVIOUS
<1>9. 0 <= Len(rest)
  BY <1>5, LenProperties
<1>. HIDE DEF rest, none, new, last, k
<1>10. /\ new \in Queue /\ new.entries = rest /\ new.pack.cmds = 0
       /\ new.pack.waiting = qu.pack.waiting /\ new.pack.age = qu.pack.age
       /\ new.pack.remaining = 0 /\ new.last = last /\ new.txAge = qu.txAge
  BY <1>3, <1>4, <1>5, <1>6 DEF Queue, Pack
<1>11. Covered(new)
  <2>1. Left(rest, 0, 0)
    BY DEF Left
  <2>. QED  BY <1>7, <1>8, <1>9, <1>10, <2>1 DEF Covered
<1>. QED  BY <1>5, <1>10, <1>11 DEF new, k

LEMMA RecvAckIInv ==
  ASSUME IInv, NEW q \in Queues, NEW copy \in BOOLEAN, RecvAck(q, copy)
  PROVE  IInv'
<1>1. /\ tx \in [Queues -> Queue] /\ tx[q] \in Queue /\ done \in DoneType
      /\ sent \in 0..MaxCmds /\ Listed(tx, sent)
      /\ Firm => Told(tx, done, sent) /\ \A p \in Queues : Fresh(p, tx[p])
      /\ \A p \in Queues : Sane(p, tx[p], up)
      /\ acks \in [Queues -> Seq(Datagram)]
  BY DEF IInv, TypeOK, Sound
<1>2. acks' \in [Queues -> Seq(Datagram)]
  <2>1. Taken(acks[q], copy) \in Seq(Datagram)
    BY <1>1, TakenType DEF RecvAck
  <2>2. acks' = [acks EXCEPT ![q] = Taken(acks[q], copy)]
    BY DEF RecvAck
  <2>. QED  BY <1>1, <2>1, <2>2
<1>3. UNCHANGED <<up, sent, receiver>> /\ Watch
  BY DEF RecvAck
<1>4. CASE ~up
  <2>1. UNCHANGED <<tx, data, done, timer>>
    BY <1>4 DEF RecvAck
  <2>2. synced' \in [Queues -> BOOLEAN]
    BY <1>3, WatchType
  <2>3. TypeOK'
    BY <1>2, <1>3, <2>1, <2>2 DEF IInv, TypeOK, receiver
  <2>. QED  BY <1>3, <2>1, <2>3 DEF IInv
<1>5. CASE up /\ ~Acknowledges(Head(acks[q]), tx[q])
  <2>1. CheckTxQueues(tx, {}) /\ {} \in SUBSET NoteType
    BY <1>5 DEF RecvAck
  <2>2. Notify(done, {}) = done
    BY <1>1, NotifyNone
  <2>. QED  BY <1>1, <1>2, <1>3, <2>1, <2>2, CheckIInv
<1>6. CASE up /\ Acknowledges(Head(acks[q]), tx[q])
  <2>. DEFINE t == [tx EXCEPT ![q] = Acknowledged(tx[q])]
              whole == SubSeq(tx[q].entries, 1, SentWhole(tx[q]))
              notes == Notes(whole, "ACK_RECEIVED")
              told == [p \in Queues |-> IF p = q THEN NamesOf(whole) ELSE {}]
  <2>1. CheckTxQueues(t, notes)
    BY <1>6 DEF RecvAck
  <2>2. Covered(tx[q]) /\ WithAck(q)
    BY <1>1, <1>6 DEF Sane, Uncut, Acknowledges
  <2>3. /\ Acknowledged(tx[q]) \in Queue /\ Covered(Acknowledged(tx[q]))
        /\ whole \in Seq(Command)
        /\ Acknowledged(tx[q]).pack.waiting = tx[q].pack.waiting
        /\ Acknowledged(tx[q]).pack.age = tx[q].pack.age
        /\ Acknowledged(tx[q]).txAge = tx[q].txAge
        /\ Accounts(tx[q].entries, Acknowledged(tx[q]).entries, NamesOf(whole))
    BY <1>1, <2>2, AcknowledgedIs
  <2>4. /\ t \in [Queues -> Queue] /\ t[q] = Acknowledged(tx[q])
        /\ \A p \in Queues : p # q => t[p] = tx[p]
    BY <1>1, <2>3
  <2>. HIDE DEF t, whole
  <2>5. notes \in SUBSET NoteType /\ NoteNames(notes) = NamesOf(whole)
    BY <2>3, NotesIs DEF FinalStatus
  <2>6. \A n : n \in NoteNames(notes) <=> \E p \in Queues : n \in told[p]
    BY <2>5
  <2>7. ASSUME NEW p \in Queues
        PROVE  Accounts(tx[p].entries, t[p].entries, told[p])
    <3>1. CASE p = q
      BY <2>3, <2>4, <3>1
    <3>2. CASE p # q
      BY <2>4, <3>2 DEF Accounts
    <3>. QED  BY <3>1, <3>2
  <2>8. Listed(t, sent)
    <3>1. \A p \in Queues : /\ Distinct(t[p].entries)
                            /\ NamesOf(t[p].entries) \subseteq NamesOf(tx[p].entries)
      BY <1>1, <2>7 DEF Accounts, Listed, Separate
    <3>. QED  BY <1>1, <3>1, KeptListed
  <2>9. ASSUME Firm
        PROVE  Told(t, Notify(done, notes), sent) /\ \A p \in Queues : Fresh(p, t[p])
    <3>1. \A p \in Queues : Fresh(p, t[p])
      BY <1>1, <2>2, <2>4, <2>9 DEF Fresh
    <3>2. Told(tx, done, sent)
      BY <1>1, <2>9
    <3>. HIDE DEF told, notes
    <3>3. Told(t, Notify(done, notes), sent)
      BY <1>1, <2>5, <2>6, <2>7, <3>2, TellTold
    <3>. QED  BY <3>1, <3>3
  <2>10. ASSUME NEW p \in Queues
         PROVE  Sane(p, t[p], up)
    BY <1>1, <1>6, <2>2, <2>3, <2>4 DEF Sane, Uncut
  <2>. HIDE DEF notes
  <2>. QED  BY <1>1, <1>2, <1>3, <2>1, <2>4, <2>5, <2>8, <2>9, <2>10, CheckIInv
<1>. QED  BY <1>4, <1>5, <1>6

LEMMA StopIInv ==
  ASSUME IInv, Stop
  PROVE  IInv'
<1>. DEFINE none == <<>>
            notes == UNION {Notes(tx[q].entries, "CANCELED") : q \in Queues}
            told == [q \in Queues |-> NamesOf(tx[q].entries)]
            t == [q \in Queues |-> [tx[q] EXCEPT !.entries = none]]
            d == Notify(done, notes)
<1>1. /\ tx \in [Queues -> Queue] /\ done \in DoneType /\ sent \in 0..MaxCmds
      /\ Listed(tx, sent) /\ \A q \in Queues : Sane(q, tx[q], up)
      /\ Firm => Told(tx, done, sent) /\ \A q \in Queues : Fresh(q, tx[q])
      /\ tx' = t /\ done' = d /\ sent' = sent /\ up' = FALSE
  BY DEF IInv, TypeOK, Sound, Stop
<1>2. none \in Seq(Command) /\ DOMAIN none = {}
  OBVIOUS
<1>3. NamesOf(none) = {} /\ Distinct(none) /\ \A q : AllFit(q, none)
  <2>. HIDE DEF none
  <2>. QED  BY <1>2 DEF NamesOf, Distinct, AllFit
<1>. HIDE DEF none
<1>4. ASSUME NEW q \in Queues
      PROVE  /\ t[q] \in Queue /\ t[q].entries = none /\ t[q].pack = tx[q].pack
             /\ t[q].last = tx[q].last /\ t[q].txAge = tx[q].txAge
  <2>1. tx[q] \in Queue
    BY <1>1
  <2>. QED  BY <1>2, <2>1 DEF Queue
<1>5. t \in [Queues -> Queue]
  BY <1>4
<1>6. ASSUME NEW q \in Queues
      PROVE  /\ Notes(tx[q].entries, "CANCELED") \in SUBSET NoteType
             /\ NoteNames(Notes(tx[q].entries, "CANCELED")) = told[q]
  <2>1. tx[q].entries \in Seq(Command)
    BY <1>1, QueueType
  <2>. QED  BY <2>1, NotesIs DEF FinalStatus
<1>7. notes \in SUBSET NoteType
  BY <1>6
<1>8. \A n : n \in NoteNames(notes) <=> \E q \in Queues : n \in told[q]
  <2>1. \A n : n \in NoteNames(notes)
                 <=> \E q \in Queues : n \in NoteNames(Notes(tx[q].entries, "CANCELED"))
    BY DEF NoteNames
  <2>. HIDE DEF notes
  <2>. QED  BY <1>6, <2>1
<1>. HIDE DEF t, notes
<1>9. \A q \in Queues : Accounts(tx[q].entries, t[q].entries, told[q])
  BY <1>3, <1>4 DEF Accounts
<1>10. d \in DoneType
  BY <1>1, <1>7, NotifyIs
<1>11. Listed(t, sent)
  <2>1. \A q \in Queues : /\ Distinct(t[q].entries)
                          /\ NamesOf(t[q].entries) \subseteq NamesOf(tx[q].entries)
    BY <1>3, <1>4
  <2>. QED  BY <1>1, <2>1, KeptListed
<1>12. ASSUME Firm
       PROVE  Told(t, d, sent) /\ \A q \in Queues : Fresh(q, t[q])
  <2>1. \A q \in Queues : Fresh(q, t[q])
    BY <1>1, <1>4, <1>12 DEF Fresh
  <2>2. Told(tx, done, sent)
    BY <1>1, <1>12
  <2>. HIDE DEF told
  <2>3. Told(t, d, sent)
    BY <1>1, <1>7, <1>8, <1>9, <2>2, TellTold
  <2>. QED  BY <2>1, <2>3
<1>. HIDE DEF d
<1>13. ASSUME NEW q \in Queues
       PROVE  Sane(q, t[q], FALSE) /\ Watched(q, t[q], timer')
  <2>1. t[q].entries = <<>>
    BY <1>4 DEF none
  <2>2. Uncut(q, t[q])
    BY <1>1, <1>3, <1>4 DEF Sane, Uncut
  <2>. QED  BY <1>1, <1>4, <2>1, <2>2 DEF Sane, Watched
<1>14. Sound(tx', done', sent', timer', up')
  BY <1>1, <1>5, <1>10, <1>11, <1>12, <1>13 DEF Sound
<1>15. synced' \in [Queues -> BOOLEAN]
  BY WatchType DEF Stop
<1>16. TypeOK'
  BY <1>1, <1>5, <1>10, <1>15 DEF IInv, TypeOK, DoneType, Stop, receiver
<1>. QED  BY <1>14, <1>16 DEF IInv

(* The handlers of the other peer and of the network leave the sender's    *)
(* side as it is.                                                          *)
LEMMA SenderKept ==
  ASSUME IInv, UNCHANGED <<tx, timer, up, sent, done>>, TypeOK'
  PROVE  IInv'
  BY DEF IInv

(***************************************************************************)
(* The receiver: what unpack_cmds makes of any bytes.  h[s] is the state   *)
(* after the bytes at the places in s.                                     *)
(***************************************************************************)

Unpacking == [need : Nat, got : Seq(Byte), lost : BOOLEAN, out : Seq(Cmds \cup {Garbled})]
Unpacks(h, first, bytes, k) ==
    /\ h \in [SUBSET (1..k) -> Unpacking]
    /\ \A s \in SUBSET (1..k) :
          h[s] = IF s = {} THEN first ELSE UnpackByte(h[s \ {Max(s)}], bytes[Max(s)])

LEMMA DecodedType ==
  ASSUME NEW buf \in Seq(Byte), buf # <<>>
  PROVE  Decoded(buf) \in Cmds \cup {Garbled}
<1>1. buf[1] \in Byte
  <2>1. Len(buf) \in Nat /\ Len(buf) # 0
    BY EmptySeq
  <2>2. 1 \in 1..Len(buf)
    BY <2>1
  <2>. QED  BY <2>2, ElementOfSeq
<1>2. buf[1].n \in Cmds
  BY <1>1 DEF Byte
<1>. QED  BY <1>2 DEF Decoded

LEMMA UnpackByteType ==
  ASSUME NEW st \in Unpacking, NEW b \in Byte
  PROVE  UnpackByte(st, b) \in Unpacking
<1>. DEFINE longer == Append(st.got, b)
            word == Decoded(longer)
            words == Append(st.out, word)
            bad == Append(st.out, Garbled)
            none == <<>>
<1>1. /\ st.need \in Nat /\ st.got \in Seq(Byte) /\ st.lost \in BOOLEAN
      /\ st.out \in Seq(Cmds \cup {Garbled})
  BY DEF Unpacking
<1>2. b.size \in Nat
  BY SizeAssumption DEF Byte
<1>3. longer \in Seq(Byte) /\ longer # <<>>
  <2>1. longer \in Seq(Byte) /\ Len(longer) = Len(st.got) + 1 /\ Len(st.got) \in Nat
    BY <1>1, AppendProperties, LenProperties
  <2>2. Len(longer) # 0
    <3>. HIDE DEF longer
    <3>. QED  BY <2>1
  <2>3. longer # <<>>
    <3>. HIDE DEF longer
    <3>. QED  BY <2>2
  <2>. QED  BY <2>1, <2>3
<1>. HIDE DEF longer
<1>4. word \in Cmds \cup {Garbled}
  BY <1>3, DecodedType
<1>. HIDE DEF word
<1>5. words \in Seq(Cmds \cup {Garbled}) /\ bad \in Seq(Cmds \cup {Garbled})
  BY <1>1, <1>4, AppendProperties
<1>6. none \in Seq(Byte)
  OBVIOUS
<1>. HIDE DEF words, bad, none
<1>7. CASE st.lost
  BY <1>7 DEF UnpackByte
<1>8. CASE ~st.lost /\ Idle(st) /\ b.k = 0
  <2>1. UnpackByte(st, b) = [st EXCEPT !.need = b.size]
    BY <1>1, <1>8 DEF UnpackByte, Idle
  <2>. QED  BY <1>2, <2>1 DEF Unpacking
<1>9. CASE ~st.lost /\ Idle(st) /\ b.k # 0
  <2>1. UnpackByte(st, b) = [st EXCEPT !.lost = TRUE, !.out = bad]
    BY <1>1, <1>9 DEF UnpackByte, Idle, bad
  <2>. QED  BY <1>5, <2>1 DEF Unpacking
<1>10. CASE ~st.lost /\ ~Idle(st) /\ st.need = 1
  <2>1. UnpackByte(st, b) = [st EXCEPT !.need = 0, !.got = none, !.out = words]
    BY <1>1, <1>10 DEF UnpackByte, Idle, words, word, longer, none
  <2>2. [st EXCEPT !.need = 0, !.got = none, !.out = words] \in Unpacking
    BY <1>1, <1>5, <1>6 DEF Unpacking
  <2>. QED  BY <2>1, <2>2
<1>11. CASE ~st.lost /\ ~Idle(st) /\ st.need # 1
  <2>. DEFINE m == st.need - 1
  <2>1. m \in Nat
    BY <1>1, <1>11 DEF Idle
  <2>2. UnpackByte(st, b) = [st EXCEPT !.need = m, !.got = longer]
    BY <1>11 DEF UnpackByte, longer
  <2>. HIDE DEF m
  <2>. QED  BY <1>3, <2>1, <2>2 DEF Unpacking
<1>. QED  BY <1>1, <1>7, <1>8, <1>9, <1>10, <1>11

LEMMA UnpacksIs ==
  ASSUME NEW bytes \in Seq(Byte), NEW first \in Unpacking
  PROVE  \E h : Unpacks(h, first, bytes, Len(bytes))
<1>. DEFINE N == Len(bytes)
            T == {k \in 0..N : \E h : Unpacks(h, first, bytes, k)}
<1>1. N \in Nat /\ \A k \in 1..N : bytes[k] \in Byte
  BY LenProperties, ElementOfSeq
<1>. HIDE DEF N
<1>2. 0 \in T
  <2>. DEFINE h == [s \in SUBSET (1..0) |-> first]
  <2>1. \A s \in SUBSET (1..0) : s = {}
    OBVIOUS
  <2>2. Unpacks(h, first, bytes, 0)
    BY <2>1 DEF Unpacks
  <2>3. 0 \in 0..N
    BY <1>1
  <2>. QED  BY <2>2, <2>3
<1>3. ASSUME NEW k \in 1..N, k - 1 \in T
      PROVE  k \in T
  <2>1. PICK g : Unpacks(g, first, bytes, k - 1)
    BY <1>3
  <2>2. k \in Nat /\ k \in 0..N /\ bytes[k] \in Byte
    BY <1>1
  <2>3. /\ \A s \in SUBSET (1..k) : s \ {k} \in SUBSET (1..(k - 1))
        /\ \A s \in SUBSET (1..(k - 1)) : k \notin s /\ s \in SUBSET (1..k)
    BY <2>2
  <2>. DEFINE h == [s \in SUBSET (1..k) |->
                      IF k \in s THEN UnpackByte(g[s \ {k}], bytes[k]) ELSE g[s]]
  <2>4. /\ g \in [SUBSET (1..(k - 1)) -> Unpacking]
        /\ \A s \in SUBSET (1..(k - 1)) :
              g[s] = IF s = {} THEN first ELSE UnpackByte(g[s \ {Max(s)}], bytes[Max(s)])
    BY <2>1 DEF Unpacks
  <2>5. ASSUME NEW s \in SUBSET (1..k)
        PROVE  h[s] \in Unpacking
    <3>1. CASE k \in s
      <4>1. g[s \ {k}] \in Unpacking
        BY <2>3, <2>4
      <4>2. UnpackByte(g[s \ {k}], bytes[k]) \in Unpacking
        BY <2>2, <4>1, UnpackByteType
      <4>. QED  BY <3>1, <4>2
    <3>2. CASE k \notin s
      <4>1. s \in SUBSET (1..(k - 1))
        BY <2>3, <3>2
      <4>2. g[s] \in Unpacking
        BY <2>4, <4>1
      <4>. QED  BY <3>2, <4>2
    <3>. QED  BY <3>1, <3>2
  <2>6. h \in [SUBSET (1..k) -> Unpacking]
    <3>1. h = [s \in SUBSET (1..k) |-> h[s]]
      OBVIOUS
    <3>. HIDE DEF h
    <3>. QED  BY <2>5, <3>1
  <2>7. /\ \A s \in SUBSET (1..(k - 1)) : h[s] = g[s]
        /\ \A s \in SUBSET (1..k) : k \in s => h[s] = UnpackByte(g[s \ {k}], bytes[k])
    BY <2>3
  <2>. HIDE DEF h
  <2>8. ASSUME NEW s \in SUBSET (1..k), s # {}
        PROVE  h[s] = UnpackByte(h[s \ {Max(s)}], bytes[Max(s)])
    <3>1. s \in SUBSET (0..k)
      BY <2>2
    <3>2. Max(s) \in s /\ \A y \in s : y <= Max(s)
      BY <2>2, <2>8, <3>1, MaxOfInterval
    <3>3. CASE k \in s
      <4>1. Max(s) = k
        <5>1. k <= Max(s) /\ Max(s) \in 1..k
          BY <3>2, <3>3
        <5>. HIDE DEF Max
        <5>. QED  BY <2>2, <5>1
      <4>2. h[s \ {k}] = g[s \ {k}]
        BY <2>3, <2>7
      <4>3. h[s] = UnpackByte(g[s \ {k}], bytes[k])
        BY <2>7, <3>3
      <4>. QED  BY <4>1, <4>2, <4>3
    <3>4. CASE k \notin s
      <4>. DEFINE m == Max(s)
      <4>1. s \in SUBSET (1..(k - 1)) /\ s \ {m} \in SUBSET (1..(k - 1))
        BY <2>3, <3>4
      <4>2. h[s] = g[s] /\ h[s \ {m}] = g[s \ {m}]
        BY <2>7, <4>1
      <4>3. g[s] = UnpackByte(g[s \ {m}], bytes[m])
        BY <2>4, <2>8, <4>1
      <4>. QED  BY <4>2, <4>3
    <3>. QED  BY <3>3, <3>4
  <2>9. h[{}] = first
    <3>1. {} \in SUBSET (1..(k - 1))
      OBVIOUS
    <3>. QED  BY <2>4, <2>7, <3>1
  <2>10. Unpacks(h, first, bytes, k)
    BY <2>6, <2>8, <2>9 DEF Unpacks
  <2>. QED  BY <2>2, <2>10
<1>. HIDE DEF T
<1>4. N \in T
  <2>1. N \in 0..N
    BY <1>1
  <2>. QED  BY <1>1, <1>2, <1>3, <2>1, CountUp
<1>. QED  BY <1>4 DEF T, N

(* g[j] is the receiver's state after the first j bytes.                   *)
Runs(g, first, bytes) ==
    /\ g \in [0..Len(bytes) -> Unpacking]
    /\ g[0] = first
    /\ \A j \in 1..Len(bytes) : g[j] = UnpackByte(g[j - 1], bytes[j])

(* The state of a receiver that holds part of a command, of which commands *)
(* out were given to the application.                                      *)
Halted(part, out) == [need |-> part.need, got |-> part.got, lost |-> FALSE, out |-> out]

LEMMA UnpackRuns ==
  ASSUME NEW from \in Partial, NEW bytes \in Seq(Byte)
  PROVE  \E g : Runs(g, Halted(from, <<>>), bytes) /\ Unpack(from, bytes) = g[Len(bytes)]
<1>. DEFINE N == Len(bytes)
            none == <<>>
            first == Halted(from, none)
            Folds(it) == it = [s \in SUBSET (DOMAIN bytes) |->
                                 IF s = {} THEN first
                                 ELSE UnpackByte(it[s \ {Max(s)}], bytes[Max(s)])]
            fold == CHOOSE it : Folds(it)
<1>1. Unpack(from, bytes) = fold[DOMAIN bytes]
  BY DEF Unpack, FoldLeft, MapThenFoldSet, Halted
<1>2. first \in Unpacking
  BY DEF Partial, Unpacking, Halted
<1>. HIDE DEF first
<1>3. N \in Nat /\ DOMAIN bytes = 1..N /\ \A k \in 1..N : bytes[k] \in Byte
  BY LenProperties, ElementOfSeq
<1>4. PICK h : Unpacks(h, first, bytes, N)
  BY <1>2, UnpacksIs
<1>. HIDE DEF N
<1>5. Folds(h)
  <2>1. h = [s \in SUBSET (1..N) |-> h[s]]
    BY <1>4 DEF Unpacks
  <2>2. \A s \in SUBSET (1..N) :
           h[s] = IF s = {} THEN first ELSE UnpackByte(h[s \ {Max(s)}], bytes[Max(s)])
    BY <1>4 DEF Unpacks
  <2>3. h = [s \in SUBSET (1..N) |->
               IF s = {} THEN first ELSE UnpackByte(h[s \ {Max(s)}], bytes[Max(s)])]
    BY <2>1, <2>2
  <2>. QED  BY <1>3, <2>3
<1>6. Folds(fold)
  <2>. HIDE DEF Folds
  <2>. QED  BY <1>5
<1>7. \A s \in SUBSET (1..N) :
        fold[s] = IF s = {} THEN first ELSE UnpackByte(fold[s \ {Max(s)}], bytes[Max(s)])
  <2>. HIDE DEF fold
  <2>. QED  BY <1>3, <1>6
<1>. HIDE DEF Folds, fold
<1>. DEFINE g == [k \in 0..N |-> fold[1..k]]
            T == {k \in 0..N : g[k] \in Unpacking}
<1>8. g[0] = first
  <2>1. 1..0 = {} /\ {} \in SUBSET (1..N) /\ 0 \in 0..N
    BY <1>3
  <2>2. fold[{}] = first
    BY <1>7, <2>1
  <2>3. fold[1..0] = first
    BY <2>1, <2>2
  <2>. QED  BY <2>1, <2>3
<1>9. ASSUME NEW k \in 1..N
      PROVE  g[k] = UnpackByte(g[k - 1], bytes[k])
  <2>. DEFINE s == 1..k
  <2>1. k \in Nat /\ k \in 0..N /\ s \in SUBSET (1..N) /\ k \in s /\ s \in SUBSET (0..k)
    BY <1>3
  <2>2. Max(s) = k
    <3>1. Max(s) \in s /\ \A y \in s : y <= Max(s)
      <4>1. s # {}
        BY <2>1
      <4>. HIDE DEF s
      <4>. QED  BY <2>1, <4>1, MaxOfInterval
    <3>2. k <= Max(s) /\ Max(s) \in 1..k
      BY <2>1, <3>1
    <3>. HIDE DEF Max, s
    <3>. QED  BY <2>1, <3>2
  <2>3. s \ {k} = 1..(k - 1)
    BY <2>1
  <2>4. fold[s] = UnpackByte(fold[s \ {k}], bytes[k])
    <3>1. s # {}
      BY <2>1
    <3>. HIDE DEF s
    <3>. QED  BY <1>7, <2>1, <2>2, <3>1
  <2>5. k - 1 \in 0..N
    BY <1>3
  <2>. QED  BY <2>1, <2>3, <2>4, <2>5
<1>10. g = [k \in 0..N |-> g[k]]
  OBVIOUS
<1>11. g[N] = fold[DOMAIN bytes]
  BY <1>3
<1>. HIDE DEF g
<1>12. 0 \in T
  BY <1>2, <1>3, <1>8
<1>13. ASSUME NEW k \in 1..N, k - 1 \in T
       PROVE  k \in T
  <2>1. g[k - 1] \in Unpacking /\ bytes[k] \in Byte /\ k \in 0..N
    BY <1>3, <1>13
  <2>2. g[k] \in Unpacking
    BY <1>9, <2>1, UnpackByteType
  <2>. QED  BY <2>1, <2>2
<1>14. \A k \in 0..N : k \in T
  <2>. HIDE DEF T
  <2>. QED  BY <1>3, <1>12, <1>13, CountUp
<1>15. g \in [0..N -> Unpacking]
  BY <1>10, <1>14
<1>16. Runs(g, first, bytes)
  BY <1>8, <1>9, <1>15 DEF Runs, N
<1>. QED  BY <1>1, <1>11, <1>16 DEF N, first

LEMMA UnpackType ==
  ASSUME NEW from \in Partial, NEW bytes \in Seq(Byte)
  PROVE  Unpack(from, bytes) \in Unpacking
<1>1. PICK g : Runs(g, Halted(from, <<>>), bytes) /\ Unpack(from, bytes) = g[Len(bytes)]
  BY UnpackRuns
<1>2. Len(bytes) \in 0..Len(bytes)
  BY LenProperties
<1>. QED  BY <1>1, <1>2 DEF Runs

LEMMA RecvDataIInv ==
  ASSUME IInv, NEW q \in Queues, NEW copy \in BOOLEAN, RecvData(q, copy)
  PROVE  IInv'
<1>. DEFINE f == Head(data[q])
            none == <<>>
            ack == <<[f EXCEPT !.bytes = none]>>
            st == Unpack(partial[q], f.bytes)
<1>1. /\ data \in [Queues -> Seq(Datagram)] /\ acks \in [Queues -> Seq(Datagram)]
      /\ recv \in [Queues -> 0..(SeqSize - 1)] /\ rserial \in [Queues -> Nat]
      /\ partial \in [Queues -> Partial]
      /\ delivered \in [Queues -> Seq(Cmds \cup {Garbled})]
  BY DEF IInv, TypeOK
<1>2. /\ data' = [data EXCEPT ![q] = Taken(data[q], copy)]
      /\ acks' = [acks EXCEPT ![q] = IF WithAck(q) THEN Put(acks[q], ack) ELSE acks[q]]
      /\ UNCHANGED <<tx, timer, up, sent, done>>
  BY DEF RecvData
<1>3. f \in Datagram /\ Taken(data[q], copy) \in Seq(Datagram)
  BY <1>1, TakenType DEF RecvData
<1>4. none \in Seq(Byte)
  OBVIOUS
<1>5. /\ ShouldProcess(recv[q], f.seq)
            => /\ recv' = [recv EXCEPT ![q] = f.seq]
               /\ rserial' = [rserial EXCEPT ![q] = f.serial]
               /\ partial' = [partial EXCEPT ![q] = Kept(q, st)]
               /\ delivered' = [delivered EXCEPT ![q] = delivered[q] \o st.out]
      /\ ~ShouldProcess(recv[q], f.seq) => UNCHANGED receiver
  BY DEF RecvData
<1>. HIDE DEF none, f
<1>6. [f EXCEPT !.bytes = none] \in Datagram
  BY <1>3, <1>4 DEF Datagram
<1>7. ack \in Seq(Datagram)
  BY <1>6
<1>. HIDE DEF ack
<1>8. acks' \in [Queues -> Seq(Datagram)]
  <2>1. Put(acks[q], ack) \in Seq(Datagram)
    BY <1>1, <1>7, PutType
  <2>. QED  BY <1>1, <1>2, <2>1
<1>9. data' \in [Queues -> Seq(Datagram)]
  BY <1>1, <1>2, <1>3
<1>10. f.seq \in 0..(SeqSize - 1) /\ f.serial \in Nat /\ f.bytes \in Seq(Byte)
  BY <1>3 DEF Datagram
<1>11. st \in Unpacking
  BY <1>1, <1>10, UnpackType
<1>. HIDE DEF st
<1>12. Kept(q, st) \in Partial /\ st.out \in Seq(Cmds \cup {Garbled})
  BY <1>11 DEF Kept, Partial, Unpacking
<1>13. delivered[q] \o st.out \in Seq(Cmds \cup {Garbled})
  BY <1>1, <1>12
<1>14. /\ recv' \in [Queues -> 0..(SeqSize - 1)] /\ rserial' \in [Queues -> Nat]
       /\ partial' \in [Queues -> Partial]
       /\ delivered' \in [Queues -> Seq(Cmds \cup {Garbled})]
  BY <1>1, <1>5, <1>10, <1>12, <1>13 DEF receiver
<1>15. synced' \in [Queues -> BOOLEAN]
  BY WatchType DEF RecvData
<1>16. TypeOK'
  BY <1>2, <1>8, <1>9, <1>14, <1>15 DEF IInv, TypeOK
<1>. QED  BY <1>2, <1>16, SenderKept

LEMMA LoseIInv ==
  ASSUME IInv, NEW q \in Queues, LoseData(q) \/ LoseAck(q)
  PROVE  IInv'
<1>1. data \in [Queues -> Seq(Datagram)] /\ acks \in [Queues -> Seq(Datagram)]
  BY DEF IInv, TypeOK
<1>2. \A c \in Seq(Datagram) : c # <<>> => Tail(c) \in Seq(Datagram)
  BY HeadTailProperties
<1>3. /\ data' \in [Queues -> Seq(Datagram)] /\ acks' \in [Queues -> Seq(Datagram)]
      /\ UNCHANGED <<tx, timer, up, sent, done, receiver, synced>>
  BY <1>1, <1>2 DEF LoseData, LoseAck
<1>4. TypeOK'
  BY <1>3 DEF IInv, TypeOK, receiver
<1>. QED  BY <1>3, <1>4, SenderKept

Aged(q, qu) ==
    [qu EXCEPT !.txAge = Older(qu.txAge, Info[q].maxRate),
               !.pack.age = IF qu.pack.waiting THEN Older(qu.pack.age, Info[q].ackTimeout)
                            ELSE qu.pack.age]

LEMMA AgedIs ==
  ASSUME NEW q \in Queues, NEW qu \in Queue
  PROVE  LET new == Aged(q, qu)
         IN  /\ new \in Queue /\ new.entries = qu.entries /\ new.last = qu.last
             /\ new.txAge = Older(qu.txAge, Info[q].maxRate)
             /\ new.pack.waiting = qu.pack.waiting /\ new.pack.cmds = qu.pack.cmds
             /\ new.pack.remaining = qu.pack.remaining
             /\ new.pack.age = IF qu.pack.waiting THEN Older(qu.pack.age, Info[q].ackTimeout)
                               ELSE qu.pack.age
<1>. DEFINE a == IF qu.pack.waiting THEN Older(qu.pack.age, Info[q].ackTimeout)
                 ELSE qu.pack.age
            b == Older(qu.txAge, Info[q].maxRate)
<1>1. a \in Nat /\ b \in Nat
  BY QueueType, QueueInfoType DEF Older
<1>2. Aged(q, qu) = [qu EXCEPT !.txAge = b, !.pack.age = a]
  BY DEF Aged
<1>3. a = IF qu.pack.waiting THEN Older(qu.pack.age, Info[q].ackTimeout) ELSE qu.pack.age
  OBVIOUS
<1>4. b = Older(qu.txAge, Info[q].maxRate)
  OBVIOUS
<1>5. qu.pack \in Pack
  BY QueueType
<1>. DEFINE new == Aged(q, qu)
            pack == [qu.pack EXCEPT !.age = a]
<1>. HIDE DEF a, b
<1>6. /\ pack \in Pack /\ pack.age = a /\ pack.waiting = qu.pack.waiting
      /\ pack.cmds = qu.pack.cmds /\ pack.remaining = qu.pack.remaining
  BY <1>1, <1>5 DEF Pack
<1>7. new = [qu EXCEPT !.txAge = b, !.pack = pack]
  BY <1>2 DEF Queue
<1>. HIDE DEF new, pack
<1>8. /\ new \in Queue /\ new.entries = qu.entries /\ new.last = qu.last
      /\ new.txAge = b /\ new.pack = pack
  BY <1>1, <1>6, <1>7 DEF Queue
<1>. QED  BY <1>3, <1>4, <1>6, <1>8 DEF new

(* As the queue ages, the timer runs: it stays in time.                    *)
LEMMA AgedSound ==
  ASSUME NEW q \in Queues, NEW qu \in Queue, NEW isUp, Sane(q, qu, isUp),
         NEW left \in Nat \cup {Off}, Watched(q, qu, left)
  PROVE  /\ Sane(q, Aged(q, qu), isUp)
         /\ Watched(q, Aged(q, qu), IF left > 0 THEN left - 1 ELSE left)
<1>. DEFINE new == Aged(q, qu)
            timeout == Info[q].ackTimeout
            rate == Info[q].maxRate
            now == IF left > 0 THEN left - 1 ELSE left
<1>1. /\ new.entries = qu.entries /\ new.last = qu.last
      /\ new.txAge = Older(qu.txAge, rate)
      /\ new.pack.waiting = qu.pack.waiting /\ new.pack.cmds = qu.pack.cmds
      /\ new.pack.remaining = qu.pack.remaining
      /\ new.pack.age = IF qu.pack.waiting THEN Older(qu.pack.age, timeout)
                        ELSE qu.pack.age
  BY AgedIs
<1>2. /\ timeout \in Nat /\ rate \in Nat /\ qu.pack.age \in Nat /\ qu.txAge \in Nat
      /\ qu.pack.waiting \in BOOLEAN
  BY QueueInfoType, QueueType
<1>3. qu.pack.age <= timeout /\ qu.txAge <= rate
  BY DEF Sane
<1>4. Wake(q, qu) = IF qu.pack.waiting THEN timeout - qu.pack.age ELSE rate - qu.txAge
  BY DEF Wake
<1>5. Wake(q, new) = IF new.pack.waiting THEN timeout - new.pack.age ELSE rate - new.txAge
  BY DEF Wake
<1>. HIDE DEF new, timeout, rate
<1>6. \A a, limit \in Nat :
         a <= limit => /\ Older(a, limit) <= limit /\ Older(a, limit) \in Nat
                       /\ limit - Older(a, limit) \in Nat
                       /\ limit - a - 1 <= limit - Older(a, limit)
  BY DEF Older
<1>7. Older(qu.pack.age, timeout) <= timeout /\ Older(qu.txAge, rate) <= rate
  BY <1>2, <1>3, <1>6
<1>8. new.pack.age <= timeout /\ new.txAge <= rate
  <2>1. new.txAge <= rate
    BY <1>1, <1>7
  <2>2. CASE qu.pack.waiting
    BY <1>1, <1>7, <2>1, <2>2
  <2>3. CASE ~qu.pack.waiting
    BY <1>1, <1>3, <2>1, <2>3
  <2>. QED  BY <1>2, <2>2, <2>3
<1>9. Sane(q, new, isUp)
  BY <1>1, <1>8 DEF Sane, Covered, Uncut, timeout, rate
<1>10. /\ Wake(q, new) \in Nat /\ Wake(q, qu) \in Int
       /\ Wake(q, qu) - 1 <= Wake(q, new)
  <2>1. CASE qu.pack.waiting
    <3>1. /\ Wake(q, new) = timeout - Older(qu.pack.age, timeout)
          /\ Wake(q, qu) = timeout - qu.pack.age
      BY <1>1, <1>4, <1>5, <2>1
    <3>2. /\ timeout - Older(qu.pack.age, timeout) \in Nat
          /\ timeout - qu.pack.age - 1 <= timeout - Older(qu.pack.age, timeout)
      BY <1>2, <1>3, <1>6
    <3>. QED  BY <1>2, <3>1, <3>2
  <2>2. CASE ~qu.pack.waiting
    <3>1. Wake(q, new) = rate - Older(qu.txAge, rate) /\ Wake(q, qu) = rate - qu.txAge
      BY <1>1, <1>4, <1>5, <2>2
    <3>2. /\ rate - Older(qu.txAge, rate) \in Nat
          /\ rate - qu.txAge - 1 <= rate - Older(qu.txAge, rate)
      BY <1>2, <1>3, <1>6
    <3>. QED  BY <1>2, <3>1, <3>2
  <2>. QED  BY <1>2, <2>1, <2>2
<1>11. ASSUME left # Off, left <= Wake(q, qu)
       PROVE  now # Off /\ now <= Wake(q, new)
  <2>1. left \in Nat
    BY <1>11
  <2>2. now \in Nat /\ (left > 0 => now = left - 1) /\ (left = 0 => now = 0)
    BY <2>1
  <2>3. now <= Wake(q, new)
    <3>. HIDE DEF now
    <3>. QED  BY <1>10, <1>11, <2>1, <2>2
  <2>. QED  BY <2>2, <2>3 DEF Off
<1>. HIDE DEF now
<1>12. Watched(q, new, now)
  BY <1>1, <1>11 DEF Watched
<1>. QED  BY <1>9, <1>12 DEF new, now

LEMMA TickIInv ==
  ASSUME IInv, Tick
  PROVE  IInv'
<1>. DEFINE t == [q \in Queues |-> Aged(q, tx[q])]
            now == IF timer > 0 THEN timer - 1 ELSE timer
<1>1. /\ tx \in [Queues -> Queue] /\ timer \in Nat \cup {Off}
      /\ UNCHANGED <<up, sent, done, data, acks, receiver, synced>>
      /\ tx' = t /\ timer' = now
  BY DEF IInv, TypeOK, Tick, Aged
<1>2. /\ Sound(tx, done, sent, timer, up)
      /\ \A q \in Queues : tx[q] \in Queue /\ t[q] = Aged(q, tx[q])
  BY <1>1 DEF IInv
<1>. HIDE DEF t
<1>3. t \in [Queues -> Queue]
  <2>1. \A q \in Queues : Aged(q, tx[q]) \in Queue
    BY <1>2, AgedIs
  <2>. QED  BY <2>1 DEF t
<1>4. timer' \in Nat \cup {Off}
  BY <1>1 DEF Off
<1>5. TypeOK'
  BY <1>1, <1>3, <1>4 DEF IInv, TypeOK, receiver
<1>6. \A q \in Queues : /\ t[q].entries = tx[q].entries
                        /\ Fresh(q, tx[q]) => Fresh(q, t[q])
  BY <1>2, AgedIs DEF Fresh
<1>7. AllNames(t) = AllNames(tx) /\ Separate(t) /\ Listed(t, sent)
  BY <1>2, <1>6 DEF Sound, AllNames, Separate, Listed
<1>8. Firm => Told(t, done, sent) /\ \A q \in Queues : Fresh(q, t[q])
  BY <1>2, <1>6, <1>7 DEF Sound, Told
<1>9. \A q \in Queues : Sane(q, t[q], up) /\ Watched(q, t[q], now)
  BY <1>1, <1>2, AgedSound DEF Sound
<1>. HIDE DEF now
<1>10. Sound(t, done, sent, now, up)
  BY <1>2, <1>3, <1>7, <1>8, <1>9 DEF Sound
<1>11. (Sound(tx, done, sent, timer, up))'
  BY <1>1, <1>10
<1>. QED  BY <1>5, <1>11 DEF IInv

LEMMA NextIInv == IInv /\ [Next]_vars => IInv'
<1>. SUFFICES ASSUME IInv, [Next]_vars
              PROVE  IInv'
  OBVIOUS
<1>1. ASSUME NEW bt \in BufferTypes, NEW size \in Sizes, Send(bt, size)
      PROVE  IInv'
  BY <1>1, SendIInv
<1>2. CASE TimerCb
  BY <1>2, TimerCbIInv
<1>3. ASSUME NEW q \in Queues, NEW copy \in BOOLEAN, RecvAck(q, copy)
      PROVE  IInv'
  BY <1>3, RecvAckIInv
<1>4. ASSUME NEW q \in Queues, NEW copy \in BOOLEAN, RecvData(q, copy)
      PROVE  IInv'
  BY <1>4, RecvDataIInv
<1>5. CASE Stop
  BY <1>5, StopIInv
<1>6. ASSUME NEW q \in Queues, LoseData(q) \/ LoseAck(q)
      PROVE  IInv'
  BY <1>6, LoseIInv
<1>7. CASE Tick
  BY <1>7, TickIInv
<1>8. CASE UNCHANGED vars
  <2>1. TypeOK'
    BY <1>8 DEF vars, IInv, TypeOK
  <2>2. UNCHANGED <<tx, timer, up, sent, done>>
    BY <1>8 DEF vars
  <2>. QED  BY <2>1, <2>2, SenderKept
<1>. QED  BY <1>1, <1>2, <1>3, <1>4, <1>5, <1>6, <1>7, <1>8 DEF Next

LEMMA SpecIInv == Spec => []IInv
  BY InitIInv, NextIInv, PTL DEF Spec

(* While a queue has something to send that the socket has not refused,    *)
(* the timer all queues share is armed, and in time for that queue, for    *)
(* all numbers of queues, timeouts, rates and sizes: no check of the       *)
(* queues, acknowledgement or sending of another queue puts it off         *)
(* (check_tx_queues, check_tx_queue, recv_ack).                            *)
THEOREM QueuesAreWatched == Spec => []QueuesWatched
<1>1. IInv => QueuesWatched
  <2>. SUFFICES ASSUME IInv, NEW q \in Queues, tx[q].entries # <<>>, ~Refused(q)
                PROVE  timer # Off /\ timer <= WakeUp(q)
    BY DEF QueuesWatched
  <2>1. Watched(q, tx[q], timer)
    BY DEF IInv, Sound
  <2>2. tx[q].pack.cmds = 0 \/ tx[q].pack.waiting
    BY DEF Refused
  <2>3. WakeUp(q) = Wake(q, tx[q])
    BY DEF WakeUp, Wake
  <2>. QED  BY <2>1, <2>2, <2>3 DEF Watched
<1>. QED  BY <1>1, SpecIInv, PTL

(* Every accepted command is queued or was told its end exactly once,      *)
(* however it was packed, cut, sent again, acknowledged or cancelled, for  *)
(* all sizes of commands and packs.  The socket must take every datagram   *)
(* or all queues be acknowledged: a queue without acknowledgement tells    *)
(* commands done before the socket has taken their pack, and still holds   *)
(* them when it refuses (queue_pack_cmds, send_pack, recv_ack, stop).      *)
THEOREM CommandsAreAccounted ==
  ASSUME RefuseUntil = 0 \/ \A q \in Queues : WithAck(q)
  PROVE  Spec => []Accounted
<1>1. IInv => Accounted
  <2>. SUFFICES ASSUME IInv
                PROVE  Accounted
    OBVIOUS
  <2>1. Pending = AllNames(tx)
    BY DEF Pending, PendingIn, AllNames, NamesOf
  <2>2. Told(tx, done, sent)
    BY DEF IInv, Sound, Firm
  <2>3. DoneOnce
    BY <2>1, <2>2 DEF Told, DoneOnce
  <2>. QED  BY <2>3 DEF IInv, Accounted
<1>. QED  BY <1>1, SpecIInv, PTL

(* Without that condition: all variables keep their types, whatever the    *)
(* socket refuses and whatever reaches the peer's unpack_cmds, and no      *)
(* command is in two queues or twice in one.                               *)
THEOREM QueuesAreSeparate == Spec => [](TypeOK /\ Separate(tx))
<1>1. IInv => TypeOK /\ Separate(tx)
  BY DEF IInv, Sound, Listed
<1>. QED  BY <1>1, SpecIInv, PTL

(***************************************************************************)
(* One queue with acknowledgement is a reliable channel.  First, what the  *)
(* receiver makes of the bytes of a pack.                                  *)
(***************************************************************************)

Word == Cmds \cup {Garbled}

(* A receiver that has the command c but for its last `left' bytes; all of *)
(* it, or nothing yet, when left is not a number of bytes of its payload.  *)
Payload(c, k) == [i \in 1..k |-> [n |-> c.n, size |-> c.size, k |-> i]]
Idling == [need |-> 0, got |-> <<>>]
Midway(c, left) ==
    IF left \in 1..c.size THEN [need |-> left, got |-> Payload(c, c.size - left)]
    ELSE Idling
At(c, left, out) == Halted(Midway(c, left), out)
ByteAt(c, k) == [n |-> c.n, size |-> c.size, k |-> k]

LEMMA PayloadIs ==
  ASSUME NEW c \in Command, NEW k \in Nat
  PROVE  /\ Payload(c, k) \in Seq(Byte) /\ Len(Payload(c, k)) = k
         /\ Append(Payload(c, k), ByteAt(c, k + 1)) = Payload(c, k + 1)
         /\ k = 0 => Payload(c, k) = <<>>
         /\ k > 0 => Decoded(Payload(c, k)) = c.n
<1>1. c.n \in Cmds /\ c.size \in Sizes
  BY DEF Command
<1>2. ASSUME NEW m \in Nat
      PROVE  /\ Payload(c, m) \in Seq(Byte) /\ Len(Payload(c, m)) = m
             /\ DOMAIN Payload(c, m) = 1..m
             /\ \A i \in 1..m : Payload(c, m)[i] = ByteAt(c, i)
  <2>1. \A i \in 1..m : ByteAt(c, i) \in Byte
    BY <1>1 DEF ByteAt, Byte
  <2>2. Payload(c, m) = [i \in 1..m |-> ByteAt(c, i)]
    BY DEF Payload, ByteAt
  <2>3. Payload(c, m) \in [1..m -> Byte]
    BY <2>1, <2>2
  <2>4. Payload(c, m) \in Seq(Byte) /\ Len(Payload(c, m)) = m
    BY <2>3, FunctionIsSeq
  <2>. QED  BY <2>2, <2>4
<1>3. k + 1 \in Nat /\ ByteAt(c, k + 1) \in Byte
  BY <1>1 DEF ByteAt, Byte
<1>4. Append(Payload(c, k), ByteAt(c, k + 1)) = Payload(c, k + 1)
  <2>. DEFINE s == Payload(c, k)
              t == Payload(c, k + 1)
              b == ByteAt(c, k + 1)
              longer == Append(s, b)
  <2>1. /\ s \in Seq(Byte) /\ Len(s) = k /\ \A i \in 1..k : s[i] = ByteAt(c, i)
        /\ t \in Seq(Byte) /\ Len(t) = k + 1 /\ \A i \in 1..(k + 1) : t[i] = ByteAt(c, i)
    BY <1>2, <1>3
  <2>. HIDE DEF s, t
  <2>2. /\ longer \in Seq(Byte) /\ Len(longer) = k + 1
        /\ \A i \in 1..k : longer[i] = s[i]
        /\ longer[k + 1] = b
    BY <1>3, <2>1, AppendProperties
  <2>3. \A i \in 1..(k + 1) : i \in 1..k \/ i = k + 1
    OBVIOUS
  <2>4. \A i \in 1..(k + 1) : longer[i] = t[i]
    <3>. HIDE DEF longer
    <3>. QED  BY <2>1, <2>2, <2>3
  <2>5. longer = t
    <3>. HIDE DEF longer
    <3>. QED  BY <2>1, <2>2, <2>4, SeqEqual
  <2>. QED  BY <2>5 DEF s, t
<1>5. k = 0 => Payload(c, k) = <<>>
  BY <1>2, EmptySeq
<1>6. ASSUME k > 0
      PROVE  Decoded(Payload(c, k)) = c.n
  <2>. DEFINE s == Payload(c, k)
  <2>0. DOMAIN s = 1..k /\ \A i \in 1..k : s[i] = ByteAt(c, i)
    BY <1>2
  <2>1. \A i \in 1..k : s[i].n = c.n /\ s[i].k = i
    <3>. HIDE DEF s
    <3>. QED  BY <2>0 DEF ByteAt
  <2>2. 1 \in 1..k
    BY <1>6
  <2>. HIDE DEF s
  <2>3. Decoded(s) = c.n
    BY <2>0, <2>1, <2>2 DEF Decoded
  <2>. QED  BY <2>3 DEF s
<1>. QED  BY <1>2, <1>4, <1>5, <1>6

LEMMA CommandIs ==
  ASSUME NEW c \in Command
  PROVE  c.n \in Cmds /\ c.size \in Nat /\ c.size > 0
<1>1. c.n \in Cmds /\ c.size \in Sizes
  BY DEF Command
<1>2. c.size \in Nat \ {0}
  BY <1>1, SizeAssumption
<1>. QED  BY <1>1, <1>2

(* A receiver that waits for n bytes after those it got.                   *)
Holding(st, n, got, out) ==
    st \in Unpacking /\ st.need = n /\ st.got = got /\ ~st.lost /\ st.out = out

LEMMA HoldingIs ==
  ASSUME NEW st, NEW n \in Nat, NEW got \in Seq(Byte), NEW out \in Seq(Word),
         NEW m \in Nat, NEW new \in Seq(Byte), NEW more \in Seq(Word),
         Holding(st, n, got, out)
  PROVE  /\ Holding([st EXCEPT !.need = m], m, got, out)
         /\ Holding([st EXCEPT !.need = m, !.got = new], m, new, out)
         /\ Holding([st EXCEPT !.need = m, !.got = new, !.out = more], m, new, more)
  BY DEF Holding, Unpacking, Word

LEMMA HoldingSame ==
  ASSUME NEW s, NEW t, NEW n, NEW got, NEW out, Holding(s, n, got, out),
         Holding(t, n, got, out)
  PROVE  s = t
  BY DEF Holding, Unpacking

LEMMA HaltedIs ==
  ASSUME NEW part, NEW n \in Nat, NEW got \in Seq(Byte), NEW out \in Seq(Word),
         part = [need |-> n, got |-> got]
  PROVE  Holding(Halted(part, out), n, got, out)
  BY DEF Unpacking, Halted, Holding, Word

LEMMA MidwayIs ==
  ASSUME NEW c \in Command, NEW left \in Nat
  PROVE  /\ left \in 1..c.size =>
               Midway(c, left) = [need |-> left, got |-> Payload(c, c.size - left)]
         /\ left \notin 1..c.size => Midway(c, left) = [need |-> 0, got |-> <<>>]
         /\ Midway(c, left) \in Partial
<1>1. c.size \in Nat
  BY CommandIs
<1>2. CASE left \in 1..c.size
  <2>. DEFINE k == c.size - left
  <2>1. k \in Nat
    BY <1>1, <1>2
  <2>. HIDE DEF k
  <2>2. Payload(c, k) \in Seq(Byte)
    BY <2>1, PayloadIs
  <2>. QED  BY <1>2, <2>2 DEF k, Midway, Partial
<1>3. CASE left \notin 1..c.size
  BY <1>3 DEF Midway, Idling, Partial
<1>. QED  BY <1>2, <1>3

(* One more byte of a command, in its place.                               *)
LEMMA ByteStep ==
  ASSUME NEW c \in Command, NEW left \in 1..(c.size + 1), NEW out \in Seq(Word)
  PROVE  UnpackByte(At(c, left, out), ByteAt(c, c.size + 1 - left)) =
            At(c, left - 1, IF left = 1 THEN Append(out, c.n) ELSE out)
<1>. DEFINE b == ByteAt(c, c.size + 1 - left)
            st == At(c, left, out)
            new == IF left = 1 THEN Append(out, c.n) ELSE out
            none == <<>>
<1>0. SUFFICES UnpackByte(st, b) = At(c, left - 1, new)
  OBVIOUS
<1>1. /\ c.size \in Nat /\ c.size > 0 /\ left \in Nat /\ left > 0 /\ left <= c.size + 1
      /\ b.size = c.size /\ b.k = c.size + 1 - left
  <2>1. c.size \in Nat /\ c.size > 0
    BY CommandIs
  <2>2. left \in Nat /\ left > 0 /\ left <= c.size + 1
    BY <2>1
  <2>3. b.size = c.size /\ b.k = c.size + 1 - left
    BY DEF ByteAt
  <2>. HIDE DEF b
  <2>. QED  BY <2>1, <2>2, <2>3
<1>2. none \in Seq(Byte) /\ 0 \in Nat
  OBVIOUS
<1>3. CASE left = c.size + 1
  <2>. DEFINE size == c.size
  <2>1. left \notin 1..c.size /\ b.k = 0 /\ left # 1
    BY <1>1, <1>3
  <2>2. left - 1 = size /\ size \in 1..c.size /\ c.size - size = 0 /\ size \in Nat
    BY <1>1, <1>3
  <2>3. Payload(c, 0) = none
    BY PayloadIs
  <2>4. Midway(c, left - 1) = [need |-> size, got |-> none]
    BY <2>2, <2>3 DEF Midway
  <2>5. Midway(c, left) = [need |-> 0, got |-> none]
    BY <2>1 DEF Midway, Idling
  <2>6. b.size = size
    BY <1>1
  <2>7. new = out
    BY <2>1
  <2>. HIDE DEF none, size, b, new
  <2>8. Holding(st, 0, none, out) /\ Holding(At(c, left - 1, out), size, none, out)
    BY <1>2, <2>2, <2>4, <2>5, HaltedIs DEF At
  <2>. HIDE DEF st
  <2>9. ~st.lost /\ st.need = 0 /\ Idle(st)
    BY <2>8 DEF Holding, Idle
  <2>10. UnpackByte(st, b) = [st EXCEPT !.need = size]
    BY <2>1, <2>6, <2>9 DEF UnpackByte
  <2>11. Holding([st EXCEPT !.need = size], size, none, out)
    BY <1>2, <2>2, <2>8, HoldingIs
  <2>12. UnpackByte(st, b) = At(c, left - 1, out)
    BY <2>8, <2>10, <2>11, HoldingSame
  <2>. QED  BY <2>7, <2>12
<1>4. CASE left \in 1..c.size
  <2>. DEFINE k == c.size - left
              got == Payload(c, k)
              longer == Append(got, b)
              more == Append(out, c.n)
              less == left - 1
              now == left
  <2>1. /\ k \in Nat /\ k + 1 = c.size + 1 - left /\ k + 1 > 0 /\ k + 1 \in Nat
        /\ now \in Nat /\ less \in Nat
    BY <1>1, <1>4
  <2>2. Midway(c, left) = [need |-> now, got |-> got]
    BY <1>4 DEF Midway
  <2>3. longer = Payload(c, k + 1) /\ got \in Seq(Byte)
    BY <2>1, PayloadIs
  <2>4. longer \in Seq(Byte)
    <3>. HIDE DEF k, longer
    <3>1. Payload(c, k + 1) \in Seq(Byte)
      BY <2>1, PayloadIs
    <3>. QED  BY <2>3, <3>1
  <2>5. more \in Seq(Word)
    BY CommandIs DEF Word
  <2>. HIDE DEF k, got, longer, b, none, more
  <2>6. Holding(st, now, got, out)
    <3>. HIDE DEF now
    <3>. QED  BY <2>1, <2>2, <2>3, HaltedIs DEF At
  <2>. HIDE DEF st
  <2>7. ~st.lost /\ st.need = now /\ st.got = got /\ st.out = out
    <3>. HIDE DEF now
    <3>. QED  BY <2>6 DEF Holding
  <2>8. ~Idle(st)
    BY <1>1, <2>7 DEF Idle
  <2>9. CASE left = 1
    <3>1. k + 1 = c.size /\ k + 1 \in Nat /\ k + 1 > 0
      BY <1>1, <2>1, <2>9
    <3>2. Decoded(longer) = c.n
      BY <2>3, <3>1, PayloadIs, <2>1
    <3>3. UnpackByte(st, b) = [st EXCEPT !.need = 0, !.got = none, !.out = more]
      BY <2>7, <2>8, <2>9, <3>2 DEF UnpackByte, longer, more, none
    <3>4. Midway(c, less) = [need |-> 0, got |-> none]
      BY <1>1, <2>9 DEF Midway, Idling, none
    <3>5. new = more
      BY <2>9 DEF more
    <3>. HIDE DEF new, less, now
    <3>6. Holding([st EXCEPT !.need = 0, !.got = none, !.out = more], 0, none, more)
      BY <1>2, <2>1, <2>3, <2>5, <2>6, HoldingIs
    <3>7. Holding(At(c, less, more), 0, none, more)
      BY <1>2, <2>5, <3>4, HaltedIs DEF At
    <3>8. UnpackByte(st, b) = At(c, less, new)
      BY <3>3, <3>5, <3>6, <3>7, HoldingSame
    <3>. QED  BY <3>8 DEF less
  <2>10. CASE left # 1
    <3>1. UnpackByte(st, b) = [st EXCEPT !.need = less, !.got = longer]
      BY <2>7, <2>8, <2>10 DEF UnpackByte, longer
    <3>2. left - 1 \in 1..c.size /\ c.size - (left - 1) = k + 1
      BY <1>1, <1>4, <2>10 DEF k
    <3>3. Midway(c, less) = [need |-> less, got |-> longer]
      BY <2>3, <3>2 DEF Midway
    <3>4. new = out
      BY <2>10
    <3>. HIDE DEF new, less, now
    <3>5. Holding([st EXCEPT !.need = less, !.got = longer], less, longer, out)
      BY <2>1, <2>3, <2>4, <2>5, <2>6, HoldingIs
    <3>6. Holding(At(c, less, out), less, longer, out)
      BY <2>1, <2>4, <3>3, HaltedIs DEF At
    <3>7. UnpackByte(st, b) = At(c, less, new)
      BY <3>1, <3>4, <3>5, <3>6, HoldingSame
    <3>. QED  BY <3>7 DEF less
  <2>. QED  BY <2>9, <2>10
<1>5. left = c.size + 1 \/ left \in 1..c.size
  BY <1>1
<1>. QED  BY <1>3, <1>4, <1>5

(* The names of the first i commands of es.                                *)
Names(es, i) == [k \in 1..i |-> es[k].n]

LEMMA NamesAre ==
  ASSUME NEW es \in Seq(Command), NEW i \in 0..Len(es)
  PROVE  /\ Names(es, i) \in Seq(Word) /\ Len(Names(es, i)) = i
         /\ i = 0 => Names(es, i) = <<>>
         /\ \A k \in 1..i : Names(es, i)[k] = es[k].n
         /\ i > 0 => Append(Names(es, i - 1), es[i].n) = Names(es, i)
<1>1. /\ Len(es) \in Nat /\ \A k \in 1..Len(es) : es[k].n \in Word
  BY CommandType DEF Word
<1>2. ASSUME NEW m \in 0..Len(es)
      PROVE  /\ Names(es, m) \in Seq(Word) /\ Len(Names(es, m)) = m
             /\ \A k \in 1..m : Names(es, m)[k] = es[k].n
  <2>1. m \in Nat /\ \A k \in 1..m : es[k].n \in Word
    BY <1>1
  <2>2. Names(es, m) \in [1..m -> Word]
    BY <2>1 DEF Names
  <2>3. Names(es, m) \in Seq(Word) /\ Len(Names(es, m)) = m
    BY <2>1, <2>2, FunctionIsSeq
  <2>4. \A k \in 1..m : Names(es, m)[k] = es[k].n
    BY DEF Names
  <2>. QED  BY <2>3, <2>4
<1>3. i = 0 => Names(es, i) = <<>>
  BY <1>2, EmptySeq
<1>4. ASSUME i > 0
      PROVE  Append(Names(es, i - 1), es[i].n) = Names(es, i)
  <2>. DEFINE s == Names(es, i - 1)
              t == Names(es, i)
              longer == Append(s, es[i].n)
  <2>1. i - 1 \in 0..Len(es) /\ i \in 1..Len(es)
    BY <1>1, <1>4
  <2>2. /\ s \in Seq(Word) /\ Len(s) = i - 1 /\ \A k \in 1..(i - 1) : s[k] = es[k].n
        /\ t \in Seq(Word) /\ Len(t) = i /\ \A k \in 1..i : t[k] = es[k].n
        /\ es[i].n \in Word
    BY <1>1, <1>2, <2>1
  <2>. HIDE DEF s, t
  <2>3. /\ longer \in Seq(Word) /\ Len(longer) = i
        /\ \A k \in 1..(i - 1) : longer[k] = s[k]
        /\ longer[i] = es[i].n
    BY <2>2, AppendProperties
  <2>. HIDE DEF longer
  <2>4. \A k \in 1..i : k \in 1..(i - 1) \/ k = i
    OBVIOUS
  <2>5. \A k \in 1..i : longer[k] = t[k]
    BY <2>2, <2>3, <2>4
  <2>6. longer = t
    BY <2>2, <2>3, <2>5, SeqEqual
  <2>. QED  BY <2>6 DEF s, t, longer
<1>. QED  BY <1>2, <1>3, <1>4

(* Part of a command as the first of es: what an acknowledged pack leaves  *)
(* of it still has to come.                                                *)
AtHead(es, left) == IF left = 0 THEN Idling ELSE Midway(es[1], left)

(* What a chunk is made of.                                                *)
LEMMA ChunkIs ==
  ASSUME NEW qu \in Queue, Left(qu.entries, 1, qu.last.remaining),
         NEW i \in 1..Len(qu.entries)
  PROVE  LET c  == qu.entries[i]
             cs == Chunks(qu)[i]
             n  == Len(cs)
         IN  /\ n \in 1..(c.size + 1)
             /\ \A j \in 1..n : cs[j] = ByteAt(c, c.size - (n - j))
             /\ i # 1 => n = c.size + 1
             /\ i = 1 => Midway(c, n) = AtHead(qu.entries, qu.last.remaining)
<1>. DEFINE c == qu.entries[i]
            cs == Chunks(qu)[i]
            n == Len(cs)
            rem == qu.last.remaining
<1>1. c \in Command /\ c.size \in Nat /\ c.size > 0 /\ rem \in Nat /\ i \in DOMAIN qu.entries
  BY QueueType, CommandType, CommandIs
<1>2. /\ Encoded(c) \in Seq(Byte) /\ Len(Encoded(c)) = c.size + 1
      /\ \A j \in 1..(c.size + 1) : Encoded(c)[j] = ByteAt(c, j - 1)
  BY <1>1, EncodedIs DEF Encoded, ByteAt
<1>3. CASE i = 1 /\ rem # 0
  <2>1. cs = Rest(c, rem)
    BY <1>1, <1>3 DEF Chunks
  <2>2. rem \in 1..c.size
    BY <1>1, <1>3 DEF Left
  <2>. DEFINE a == c.size + 2 - rem
              b == c.size + 1
              bs == Encoded(c)
  <2>. DEFINE size == c.size
  <2>20. size \in Nat /\ rem \in 1..size /\ a = size + 2 - rem /\ b = size + 1
    BY <1>1, <2>2
  <2>3. a \in Int /\ b \in Int /\ 1 <= a /\ a <= b /\ b - a + 1 = rem
    <3>. HIDE DEF a, b, size, rem
    <3>. QED  BY <2>20
  <2>4. cs = SubSeq(bs, a, b)
    BY <2>1 DEF Rest
  <2>5. \A j \in a..b : j \in 1..b
    BY <2>3
  <2>. HIDE DEF cs, bs
  <2>6. Len(cs) = rem /\ \A j \in 1..rem : cs[j] = bs[a + j - 1]
    <3>1. bs \in Seq(Byte) /\ Len(bs) = b
      BY <1>2 DEF bs
    <3>. HIDE DEF a, b
    <3>. QED  BY <2>3, <2>4, <2>5, <3>1, SubSeqProperties
  <2>7. ASSUME NEW j \in 1..rem
        PROVE  cs[j] = ByteAt(c, c.size - (rem - j))
    <3>. DEFINE p == a + j - 1
    <3>1. p \in 1..b /\ p - 1 = size - (rem - j)
      <4>. HIDE DEF a, b, size, rem
      <4>. QED  BY <2>20
    <3>. HIDE DEF p
    <3>2. bs[p] = ByteAt(c, p - 1)
      BY <1>2, <3>1 DEF bs
    <3>3. cs[j] = bs[p]
      BY <2>6 DEF p
    <3>4. ByteAt(c, p - 1) = ByteAt(c, size - (rem - j))
      BY <3>1
    <3>. QED  BY <3>2, <3>3, <3>4
  <2>8. Midway(c, rem) = AtHead(qu.entries, rem)
    BY <1>3 DEF AtHead
  <2>. HIDE DEF a, b
  <2>9. rem \in 1..(c.size + 1)
    BY <1>1, <2>2
  <2>. QED  BY <1>3, <2>6, <2>7, <2>8, <2>9 DEF cs
<1>4. CASE ~(i = 1 /\ rem # 0)
  <2>1. cs = Encoded(c)
    BY <1>1, <1>4 DEF Chunks
  <2>2. n = c.size + 1 /\ n \in 1..(c.size + 1)
    BY <1>1, <1>2, <2>1
  <2>3. ASSUME NEW j \in 1..n
        PROVE  cs[j] = ByteAt(c, c.size - (n - j))
    <3>1. j \in 1..(c.size + 1) /\ c.size - (n - j) = j - 1
      BY <1>1, <2>2
    <3>. QED  BY <1>2, <2>1, <3>1
  <2>4. Midway(c, c.size + 1) = Idling
    BY <1>1 DEF Midway
  <2>5. i = 1 => AtHead(qu.entries, rem) = Idling
    BY <1>4 DEF AtHead
  <2>. QED  BY <2>2, <2>3, <2>4, <2>5
<1>. QED  BY <1>3, <1>4

(* The bytes of the commands es, of the first of which `head' are to come, *)
(* end to end: those of es[i] after e[i - 1] and up to e[i].               *)
Within(e, i, j) == e[i - 1] < j /\ j <= e[i]
Layout(e, es, head, bytes) ==
    /\ e \in [0..Len(es) -> Nat]
    /\ e[0] = 0
    /\ \A i \in 1..Len(es) : e[i] - e[i - 1] = IF i = 1 THEN head ELSE es[i].size + 1
    /\ \A i \in 1..Len(es), j \in 1..Len(bytes) :
          Within(e, i, j) => bytes[j] = ByteAt(es[i], es[i].size - (e[i] - j))

LEMMA LayoutIs ==
  ASSUME NEW qu \in Queue, Left(qu.entries, 1, qu.last.remaining),
         qu.entries # <<>>, NEW pack \in Pack, Cuts(qu, pack),
         pack.cmds \in 1..Len(qu.entries)
  PROVE  \E e : /\ Layout(e, qu.entries, Len(Chunks(qu)[1]), pack.bytes)
                /\ Within(e, pack.cmds, Len(pack.bytes))
                /\ pack.remaining = e[pack.cmds] - Len(pack.bytes)
<1>. DEFINE es == qu.entries
            L == Len(es)
            cs == Chunks(qu)
            b == Len(pack.bytes)
<1>1. PICK f : /\ Joined(cs, f) /\ Chunked(cs, es)
               /\ b \in Nat /\ b <= Len(f[L])
               /\ \A j \in 1..b : pack.bytes[j] = f[L][j]
               /\ CutAt(f, es, b, pack.cmds)
               /\ pack.remaining = Len(f[pack.cmds]) - b
  BY DEF Cuts
<1>2. /\ es \in Seq(Command) /\ L \in Nat /\ \A i \in 1..L : es[i].size \in Nat
  BY QueueType, CommandType
<1>. HIDE DEF es, cs
<1>. DEFINE e == [i \in 0..L |-> Len(f[i])]
<1>3. /\ \A k \in 0..L : Len(f[k]) \in Nat
      /\ Len(f[0]) = 0
      /\ \A k \in 1..L : Glued(f[k - 1], cs[k], f[k])
  BY <1>1, <1>2, JoinedLengths
<1>4. Placed(f, cs, L)
  <2>1. L \in 0..L
    BY <1>2
  <2>. QED  BY <1>1, <1>2, <2>1, JoinedPlaces
<1>5. /\ e \in [0..L -> Nat] /\ \A i \in 0..L : e[i] = Len(f[i])
  BY <1>3
<1>6. e[0] = 0
  BY <1>2, <1>3
<1>7. ASSUME NEW i \in 1..L
      PROVE  /\ i \in 0..L /\ i - 1 \in 0..L /\ e[i - 1] \in Nat /\ e[i] \in Nat
             /\ Len(cs[i]) \in Nat /\ e[i] = e[i - 1] + Len(cs[i])
  <2>1. i \in 0..L /\ i - 1 \in 0..L
    BY <1>2
  <2>2. Len(f[i]) = Len(f[i - 1]) + Len(cs[i])
    BY <1>3 DEF Glued
  <2>3. Len(cs[i]) \in Nat
    BY <1>1 DEF Chunked
  <2>. HIDE DEF e
  <2>. QED  BY <1>5, <2>1, <2>2, <2>3
<1>. HIDE DEF e
<1>8. ASSUME NEW i \in 1..L
      PROVE  /\ Len(cs[i]) = IF i = 1 THEN Len(cs[1]) ELSE es[i].size + 1
             /\ \A j \in 1..Len(cs[i]) : cs[i][j] = ByteAt(es[i], es[i].size - (Len(cs[i]) - j))
  BY ChunkIs DEF es, cs
<1>9. ASSUME NEW i \in 1..L, NEW j \in 1..b, Within(e, i, j)
      PROVE  pack.bytes[j] = ByteAt(es[i], es[i].size - (e[i] - j))
  <2>. DEFINE n == Len(cs[i])
              p == j - e[i - 1]
              before == e[i - 1]
              now == e[i]
              size == es[i].size
  <2>1. /\ now \in Nat /\ before \in Nat /\ n \in Nat /\ now = before + n /\ size \in Nat
        /\ before < j /\ j <= now /\ j \in Nat
    <3>1. j \in Nat
      BY <1>1
    <3>2. size \in Nat
      BY <1>2
    <3>3. now \in Nat /\ before \in Nat /\ n \in Nat /\ now = before + n
      BY <1>7
    <3>4. before < j /\ j <= now
      BY <1>9 DEF Within
    <3>. HIDE DEF now, before, n, size
    <3>. QED  BY <3>1, <3>2, <3>3, <3>4
  <2>2. p \in 1..n /\ size - (n - p) = size - (now - j)
    <3>1. p = j - before
      OBVIOUS
    <3>. HIDE DEF n, p, before, now, size
    <3>. QED  BY <2>1, <3>1
  <2>3. j \in 1..Len(f[L])
    <3>. DEFINE all == Len(f[L])
    <3>1. all \in Nat /\ b <= all
      BY <1>1, <1>2, <1>3
    <3>2. b \in Nat
      BY <1>1
    <3>. HIDE DEF all, b
    <3>3. j \in 1..all
      BY <3>1, <3>2
    <3>. QED  BY <3>3 DEF all
  <2>4. Len(f[i - 1]) < j /\ j <= Len(f[i]) /\ Len(f[i - 1]) = e[i - 1]
    BY <1>5, <1>7, <1>9 DEF Within
  <2>5. f[L][j] = cs[i][j - Len(f[i - 1])]
    BY <1>4, <2>3, <2>4 DEF Placed
  <2>6. f[L][j] = cs[i][p]
    BY <2>4, <2>5
  <2>7. cs[i][p] = ByteAt(es[i], es[i].size - (n - p))
    <3>. HIDE DEF p
    <3>. QED  BY <1>8, <2>2
  <2>8. pack.bytes[j] = f[L][j]
    BY <1>1
  <2>. HIDE DEF n, p
  <2>. QED  BY <2>2, <2>6, <2>7, <2>8
<1>10. ASSUME NEW i \in 1..L
       PROVE  e[i] - e[i - 1] = IF i = 1 THEN Len(cs[1]) ELSE es[i].size + 1
  <2>. DEFINE n == Len(cs[i])
              before == e[i - 1]
              now == e[i]
  <2>1. now \in Nat /\ before \in Nat /\ n \in Nat /\ now = before + n
    BY <1>7
  <2>2. now - before = n
    <3>. HIDE DEF n, before, now
    <3>. QED  BY <2>1
  <2>. QED  BY <1>8, <2>2
<1>11. Layout(e, es, Len(cs[1]), pack.bytes)
  BY <1>5, <1>6, <1>9, <1>10 DEF Layout
<1>12. pack.cmds \in 0..L /\ pack.cmds - 1 \in 0..L
  BY <1>2 DEF es
<1>13. Within(e, pack.cmds, b) /\ pack.remaining = e[pack.cmds] - b
  BY <1>1, <1>5, <1>12 DEF Within, CutAt
<1>. QED  BY <1>11, <1>13 DEF es, cs

(* Where a receiver is after j of those bytes.                             *)
Rebuilt(e, es, i, j) ==
    At(es[i], e[i] - j, IF e[i] = j THEN Names(es, i) ELSE Names(es, i - 1))

LEMMA RunPlaces ==
  ASSUME NEW es \in Seq(Command), es # <<>>, NEW head \in 1..(es[1].size + 1),
         NEW bytes \in Seq(Byte), NEW e, Layout(e, es, head, bytes),
         NEW g, Runs(g, At(es[1], head, <<>>), bytes)
  PROVE  \A j \in 0..Len(bytes), i \in 1..Len(es) :
            Within(e, i, j) => g[j] = Rebuilt(e, es, i, j)
<1>. DEFINE L == Len(es)
            N == Len(bytes)
            P(j) == \A i \in 1..L : Within(e, i, j) => g[j] = Rebuilt(e, es, i, j)
            T == {j \in 0..N : P(j)}
<1>1. /\ L \in Nat /\ N \in Nat
      /\ \A i \in 1..L : es[i] \in Command /\ es[i].size \in Nat
      /\ 1 \in 1..L
  BY CommandType, LenProperties
<1>2. /\ e \in [0..L -> Nat] /\ e[0] = 0
      /\ \A i \in 1..L : e[i] - e[i - 1] = IF i = 1 THEN head ELSE es[i].size + 1
  BY DEF Layout
<1>. HIDE DEF L, N
<1>3. ASSUME NEW i \in 1..L
      PROVE  /\ i \in 0..L /\ i - 1 \in 0..L /\ e[i] \in Nat /\ e[i - 1] \in Nat
             /\ e[i] - e[i - 1] \in 1..(es[i].size + 1)
             /\ i # 1 => i - 1 \in 1..L /\ e[i - 1] - e[i - 2] > 0 /\ e[i - 2] \in Nat
                         /\ e[i] - e[i - 1] = es[i].size + 1
  <2>1. i \in 0..L /\ i - 1 \in 0..L /\ (i # 1 => i - 1 \in 1..L /\ i - 2 \in 0..L /\ i - 1 - 1 = i - 2)
    BY <1>1
  <2>2. e[i] \in Nat /\ e[i - 1] \in Nat /\ (i # 1 => e[i - 2] \in Nat)
    BY <1>2, <2>1
  <2>3. e[i] - e[i - 1] \in 1..(es[i].size + 1)
    <3>1. i = 1 => e[i] - e[i - 1] = head /\ head \in 1..(es[i].size + 1)
      BY <1>2
    <3>2. i # 1 => e[i] - e[i - 1] = es[i].size + 1
      BY <1>2
    <3>3. es[i].size \in Nat
      BY <1>1
    <3>4. es[i].size + 1 \in 1..(es[i].size + 1)
      BY <3>3
    <3>. QED  BY <3>1, <3>2, <3>4
  <2>4. ASSUME i # 1
        PROVE  e[i - 1] - e[i - 2] > 0
    <3>. DEFINE p == i - 1
    <3>1. p \in 1..L /\ p - 1 = i - 2
      BY <2>1, <2>4
    <3>2. e[p] - e[p - 1] = (IF p = 1 THEN head ELSE es[p].size + 1)
      <4>. HIDE DEF p
      <4>. QED  BY <1>2, <3>1
    <3>3. head > 0 /\ head \in Nat
      <4>1. es[1].size \in Nat
        BY <1>1
      <4>. QED  BY <4>1
    <3>4. es[p].size \in Nat
      <4>. HIDE DEF p
      <4>. QED  BY <1>1, <3>1
    <3>5. (IF p = 1 THEN head ELSE es[p].size + 1) > 0
      <4>. HIDE DEF p
      <4>. QED  BY <3>3, <3>4
    <3>. QED  BY <3>1, <3>2, <3>5
  <2>. QED  BY <1>2, <2>1, <2>2, <2>3, <2>4
<1>4. ASSUME NEW j \in 1..N, P(j - 1), NEW i \in 1..L, Within(e, i, j)
      PROVE  g[j] = Rebuilt(e, es, i, j)
  <2>. DEFINE now == e[i]
              before == e[i - 1]
              size == es[i].size
              c == es[i]
              out == Names(es, i - 1)
              left == now - j + 1
  <2>1. /\ now \in Nat /\ before \in Nat /\ size \in Nat /\ j \in Nat /\ j >= 1
        /\ before < j /\ j <= now /\ now - before <= size + 1
    <3>1. now \in Nat /\ before \in Nat /\ now - before \in 1..(size + 1)
      BY <1>3
    <3>2. size \in Nat
      BY <1>1
    <3>3. before < j /\ j <= now
      BY <1>4 DEF Within
    <3>. HIDE DEF now, before, size
    <3>. QED  BY <1>1, <3>1, <3>2, <3>3
  <2>2. left \in 1..(size + 1) /\ left - 1 = now - j /\ (left = 1 <=> now = j)
        /\ size + 1 - left = size - (now - j)
    <3>. HIDE DEF now, before, size
    <3>. QED  BY <2>1
  <2>3. c \in Command /\ i - 1 \in 0..L /\ out \in Seq(Word)
    BY <1>1, <1>3, NamesAre DEF L
  <2>4. g[j - 1] = At(c, left, out)
    <3>1. CASE before < j - 1
      <4>1. Within(e, i, j - 1)
        BY <2>1, <3>1 DEF Within
      <4>2. g[j - 1] = Rebuilt(e, es, i, j - 1)
        BY <1>4, <4>1
      <4>3. now # j - 1 /\ now - (j - 1) = left
        <5>. HIDE DEF now
        <5>. QED  BY <2>1
      <4>. QED  BY <4>2, <4>3 DEF Rebuilt
    <3>2. CASE before = j - 1 /\ i # 1
      <4>. DEFINE p == i - 1
      <4>1. /\ p \in 1..L /\ p - 1 = i - 2 /\ e[p] = before
            /\ before - e[p - 1] > 0 /\ e[p - 1] \in Nat /\ now - before = size + 1
        BY <1>3, <3>2
      <4>2. Within(e, p, j - 1)
        <5>. DEFINE low == e[p - 1]
        <5>1. low < before
          <6>1. before - low > 0 /\ low \in Nat /\ before \in Nat
            BY <2>1, <4>1
          <6>. HIDE DEF low, before
          <6>. QED  BY <6>1
        <5>2. low < j - 1 /\ e[p] <= j - 1 /\ j - 1 <= e[p]
          BY <2>1, <3>2, <4>1, <5>1
        <5>. QED  BY <5>2 DEF Within
      <4>3. g[j - 1] = Rebuilt(e, es, p, j - 1)
        <5>. HIDE DEF p
        <5>. QED  BY <1>4, <4>1, <4>2
      <4>4. e[p] = j - 1 /\ e[p] - (j - 1) = 0
        BY <2>1, <3>2, <4>1
      <4>5. g[j - 1] = At(es[p], 0, out)
        BY <4>3, <4>4 DEF Rebuilt
      <4>6. left = size + 1
        <5>. HIDE DEF now, before, size
        <5>. QED  BY <2>1, <3>2, <4>1
      <4>7. Midway(es[p], 0) = Idling /\ Midway(c, left) = Idling
        <5>1. 0 \notin 1..es[p].size
          OBVIOUS
        <5>2. left \notin 1..c.size
          <6>. HIDE DEF left
          <6>. QED  BY <2>1, <4>6
        <5>. QED  BY <5>1, <5>2 DEF Midway
      <4>. QED  BY <4>5, <4>7 DEF At
    <3>3. CASE before = j - 1 /\ i = 1
      <4>1. before = 0 /\ now = head
        BY <1>2, <2>1, <3>3
      <4>2. j - 1 = 0 /\ left = head
        BY <2>1, <3>3, <4>1
      <4>3. out = <<>>
        BY <2>3, <3>3, NamesAre DEF L
      <4>4. g[0] = At(es[1], head, <<>>)
        BY DEF Runs
      <4>. QED  BY <3>3, <4>2, <4>3, <4>4
    <3>4. before < j - 1 \/ before = j - 1
      <4>. HIDE DEF before
      <4>. QED  BY <2>1
    <3>. QED  BY <3>1, <3>2, <3>3, <3>4
  <2>5. bytes[j] = ByteAt(c, size + 1 - left)
    <3>1. bytes[j] = ByteAt(c, size - (now - j))
      BY <1>4 DEF Layout, L, N
    <3>2. size + 1 - left = size - (now - j)
      BY <2>2
    <3>. HIDE DEF left, now, size, c
    <3>. QED  BY <3>1, <3>2
  <2>6. g[j] = UnpackByte(g[j - 1], bytes[j])
    BY DEF Runs, N
  <2>. DEFINE new == IF left = 1 THEN Append(out, c.n) ELSE out
  <2>7. UnpackByte(At(c, left, out), ByteAt(c, size + 1 - left)) = At(c, left - 1, new)
    <3>1. size = c.size
      OBVIOUS
    <3>. HIDE DEF left, c, out, size
    <3>2. left \in 1..(c.size + 1)
      BY <2>2, <3>1
    <3>. QED  BY <2>3, <3>1, <3>2, ByteStep
  <2>8. new = IF now = j THEN Names(es, i) ELSE out
    <3>1. i \in 0..Len(es) /\ i > 0
      BY <1>3 DEF L
    <3>2. Append(out, c.n) = Names(es, i)
      BY <3>1, NamesAre
    <3>. HIDE DEF left, now, out, c
    <3>. QED  BY <2>2, <3>2
  <2>9. g[j] = At(c, now - j, new)
    <3>. HIDE DEF left, now, out, c, new
    <3>. QED  BY <2>2, <2>4, <2>5, <2>6, <2>7
  <2>. HIDE DEF new
  <2>. QED  BY <2>8, <2>9 DEF Rebuilt
<1>5. 0 \in T
  <2>1. \A i \in 1..L : ~Within(e, i, 0)
    BY <1>3 DEF Within
  <2>. QED  BY <1>1, <2>1
<1>6. ASSUME NEW j \in 1..N, j - 1 \in T
      PROVE  j \in T
  <2>1. P(j - 1) /\ j \in 0..N
    BY <1>1, <1>6
  <2>2. P(j)
    <3>. HIDE DEF P
    <3>1. SUFFICES ASSUME NEW i \in 1..L, Within(e, i, j)
                   PROVE  g[j] = Rebuilt(e, es, i, j)
      BY DEF P
    <3>. QED  BY <1>4, <2>1, <3>1
  <2>. QED  BY <2>1, <2>2
<1>7. \A j \in 0..N : j \in T
  <2>. HIDE DEF T
  <2>. QED  BY <1>1, <1>5, <1>6, CountUp
<1>. QED  BY <1>7 DEF L, N

(* What the receiver makes of a pack: the commands that end in it, and the *)
(* part it has of the next.                                                *)
Ends(pack) == IF pack.remaining = 0 THEN pack.cmds ELSE pack.cmds - 1
Remainder(es, k) == SubSeq(es, k + 1, Len(es))
Rebuilds(es, left, pack) ==
    Unpack(AtHead(es, left), pack.bytes) =
        Halted(AtHead(Remainder(es, Ends(pack)), pack.remaining), Names(es, Ends(pack)))

LEMMA AtHeadType ==
  ASSUME NEW es \in Seq(Command), NEW left \in Nat, Left(es, 1, left)
  PROVE  AtHead(es, left) \in Partial
<1>1. left # 0 => es[1] \in Command
  BY CommandType DEF Left
<1>2. left # 0 => Midway(es[1], left) \in Partial
  BY <1>1, MidwayIs
<1>3. Idling \in Partial
  BY DEF Idling, Partial
<1>. QED  BY <1>2, <1>3 DEF AtHead

LEMMA RemainderIs ==
  ASSUME NEW es \in Seq(Command), NEW k \in 0..Len(es)
  PROVE  /\ Remainder(es, k) \in Seq(Command) /\ Len(Remainder(es, k)) = Len(es) - k
         /\ \A i \in 1..(Len(es) - k) : Remainder(es, k)[i] = es[k + i]
<1>1. \A i \in 1..(Len(es) - k) : i + k = k + i
  BY LenProperties
<1>. QED  BY <1>1, SplitIs DEF Remainder

LEMMA RebuildsIs ==
  ASSUME NEW qu \in Queue, Left(qu.entries, 1, qu.last.remaining),
         qu.entries # <<>>, NEW pack \in Pack, Cuts(qu, pack),
         pack.cmds \in 1..Len(qu.entries),
         Left(qu.entries, pack.cmds, pack.remaining)
  PROVE  Rebuilds(qu.entries, qu.last.remaining, pack)
<1>. DEFINE es == qu.entries
            L == Len(es)
            bytes == pack.bytes
            b == Len(bytes)
            c == pack.cmds
            rem == pack.remaining
            head == Len(Chunks(qu)[1])
            from == AtHead(es, qu.last.remaining)
<1>1. /\ es \in Seq(Command) /\ L \in Nat /\ 1 \in 1..L /\ c \in 1..L /\ qu.last.remaining \in Nat
      /\ bytes \in Seq(Byte) /\ b \in Nat /\ rem \in Nat /\ b \in 0..b
  BY QueueType, CommandType DEF Pack
<1>2. PICK e : /\ Layout(e, es, head, bytes) /\ Within(e, c, b) /\ rem = e[c] - b
  BY LayoutIs
<1>3. head \in 1..(es[1].size + 1) /\ Midway(es[1], head) = from
  BY <1>1, ChunkIs
<1>4. from \in Partial
  BY <1>1, AtHeadType
<1>5. PICK g : Runs(g, Halted(from, <<>>), bytes) /\ Unpack(from, bytes) = g[b]
  BY <1>1, <1>4, UnpackRuns
<1>6. Runs(g, At(es[1], head, <<>>), bytes)
  BY <1>3, <1>5 DEF At
<1>. HIDE DEF head, from
<1>7. g[b] = Rebuilt(e, es, c, b)
  <2>1. \A j \in 0..b, i \in 1..L : Within(e, i, j) => g[j] = Rebuilt(e, es, i, j)
    <3>. HIDE DEF es, bytes
    <3>. QED  BY <1>1, <1>2, <1>3, <1>6, RunPlaces DEF es
  <2>. QED  BY <1>1, <1>2, <2>1
<1>8. e[c] \in Nat
  BY <1>1, <1>2 DEF Layout
<1>9. (e[c] = b <=> rem = 0)
  <2>. DEFINE now == e[c]
  <2>. HIDE DEF now, b, rem
  <2>. QED  BY <1>1, <1>2, <1>8 DEF now
<1>10. g[b] = Halted(Midway(es[c], rem), Names(es, Ends(pack)))
  BY <1>2, <1>7, <1>9 DEF Rebuilt, At, Ends
<1>11. Midway(es[c], rem) = AtHead(Remainder(es, Ends(pack)), rem)
  <2>1. CASE rem = 0
    <3>1. 0 \notin 1..es[c].size
      OBVIOUS
    <3>. QED  BY <2>1, <3>1 DEF Midway, AtHead
  <2>2. CASE rem # 0
    <3>1. c - 1 \in 0..L /\ c - 1 + 1 = c /\ 1 \in 1..(L - (c - 1))
      <4>. HIDE DEF c, L
      <4>. QED  BY <1>1
    <3>2. Remainder(es, c - 1)[1] = es[c]
      BY <1>1, <3>1, RemainderIs
    <3>3. Ends(pack) = c - 1
      BY <2>2 DEF Ends
    <3>. QED  BY <2>2, <3>2, <3>3 DEF AtHead
  <2>. QED  BY <2>1, <2>2
<1>. QED  BY <1>5, <1>10, <1>11 DEF Rebuilds, from

(***************************************************************************)
(* Numbers.  A queue that took s numbers has the number NumberOf(s).       *)
(***************************************************************************)

NumberOf(s) == Seqnum(SeqSize - 1, s)

LEMMA Modulo ==
  ASSUME NEW a \in Nat
  PROVE  \E c \in Nat, r \in 0..(SeqSize - 1) :
            a = c * SeqSize + r /\ r = a % SeqSize
<1>. DEFINE c == a \div SeqSize
<1>1. c \in Nat /\ a = c * SeqSize + (a % SeqSize) /\ a % SeqSize \in 0..(SeqSize - 1)
  BY SeqAssumption
<1>. QED  BY <1>1

LEMMA Multiples ==
  ASSUME NEW c \in Int, NEW d \in Int, c < d
  PROVE  c * SeqSize + SeqSize <= d * SeqSize
<1>1. d - c - 1 \in Nat
  OBVIOUS
<1>2. (d - c - 1) * SeqSize \in Nat
  BY <1>1, SeqAssumption
<1>3. (d - c - 1) * SeqSize = d * SeqSize - c * SeqSize - SeqSize
  BY SeqAssumption
<1>. QED  BY <1>2, <1>3, SeqAssumption

LEMMA OneRemainder ==
  ASSUME NEW c \in Int, NEW d \in Int,
         NEW r \in 0..(SeqSize - 1), NEW t \in 0..(SeqSize - 1),
         c * SeqSize + r = d * SeqSize + t
  PROVE  r = t
<1>1. c * SeqSize \in Int /\ d * SeqSize \in Int /\ SeqSize \in Nat
  BY SeqAssumption
<1>2. CASE c < d
  <2>1. c * SeqSize + SeqSize <= d * SeqSize
    BY <1>2, Multiples
  <2>. QED  BY <2>1, <1>1
<1>3. CASE d < c
  <2>1. d * SeqSize + SeqSize <= c * SeqSize
    BY <1>3, Multiples
  <2>. QED  BY <2>1, <1>1
<1>4. CASE c = d
  BY <1>1, <1>4
<1>. QED  BY <1>2, <1>3, <1>4

LEMMA NumberIs ==
  ASSUME NEW s \in Nat
  PROVE  /\ NumberOf(s) \in 0..(SeqSize - 1)
         /\ \E c \in Nat : SeqSize - 1 + s = c * SeqSize + NumberOf(s)
<1>1. SeqSize - 1 + s \in Nat
  BY SeqAssumption
<1>. QED  BY <1>1, Modulo DEF NumberOf, Seqnum

LEMMA NumberStep ==
  ASSUME NEW s \in Nat, NEW k \in Nat
  PROVE  Seqnum(NumberOf(s), k) = NumberOf(s + k)
<1>1. PICK c \in Nat : SeqSize - 1 + s = c * SeqSize + NumberOf(s)
  BY NumberIs
<1>2. NumberOf(s) + k \in Nat
  BY NumberIs, SeqAssumption
<1>3. PICK d \in Nat, r \in 0..(SeqSize - 1) :
         NumberOf(s) + k = d * SeqSize + r /\ r = Seqnum(NumberOf(s), k)
  BY <1>2, Modulo DEF Seqnum
<1>4. PICK e \in Nat : SeqSize - 1 + (s + k) = e * SeqSize + NumberOf(s + k)
  BY NumberIs
<1>5. (c + d) * SeqSize = c * SeqSize + d * SeqSize
  BY SeqAssumption
<1>6. /\ c * SeqSize \in Int /\ d * SeqSize \in Int /\ e * SeqSize \in Int
      /\ NumberOf(s) \in Int /\ NumberOf(s + k) \in 0..(SeqSize - 1)
      /\ SeqSize \in Int
  BY SeqAssumption, NumberIs
<1>7. (c + d) * SeqSize + r = e * SeqSize + NumberOf(s + k)
  BY <1>1, <1>3, <1>4, <1>5, <1>6
<1>8. c + d \in Int /\ e \in Int
  OBVIOUS
<1>9. r = NumberOf(s + k)
  BY <1>6, <1>7, <1>8, OneRemainder
<1>. QED  BY <1>3, <1>9

LEMMA NumberStart == NumberOf(0) = SeqSize - 1
<1>1. PICK c \in Nat : SeqSize - 1 + 0 = c * SeqSize + NumberOf(0)
  BY NumberIs
<1>2. 0 * SeqSize = 0 /\ SeqSize - 1 \in 0..(SeqSize - 1)
  BY SeqAssumption
<1>3. c * SeqSize + NumberOf(0) = 0 * SeqSize + (SeqSize - 1)
  BY <1>1, <1>2, SeqAssumption
<1>. QED  BY <1>2, <1>3, NumberIs, OneRemainder

(* The next number is another, and the receiver takes it for newer.        *)
LEMMA NumberNext ==
  ASSUME NEW s \in Nat
  PROVE  /\ Seqnum(NumberOf(s), 1) = NumberOf(s + 1)
         /\ NumberOf(s + 1) # NumberOf(s)
         /\ ShouldProcess(NumberOf(s), NumberOf(s + 1))
         /\ ~ShouldProcess(NumberOf(s), NumberOf(s))
<1>. DEFINE n == NumberOf(s)
            m == NumberOf(s + 1)
<1>1. n \in 0..(SeqSize - 1) /\ SeqSize \in Nat /\ Window \in Nat /\ SeqSize > Window + 1
  BY NumberIs, SeqAssumption
<1>2. m = Seqnum(n, 1)
  BY NumberStep
<1>. HIDE DEF n, m
<1>3. m = IF n = SeqSize - 1 THEN 0 ELSE n + 1
  <2>1. CASE n = SeqSize - 1
    <3>1. n + 1 = SeqSize /\ SeqSize % SeqSize = 0
      BY <1>1, <2>1
    <3>. QED  BY <1>2, <2>1, <3>1 DEF Seqnum
  <2>2. CASE n # SeqSize - 1
    <3>1. n + 1 \in 0..(SeqSize - 1)
      BY <1>1, <2>2
    <3>2. (n + 1) % SeqSize = n + 1
      BY <1>1, <3>1
    <3>. QED  BY <1>2, <2>2, <3>2 DEF Seqnum
  <2>. QED  BY <2>1, <2>2
<1>4. ShouldProcess(n, m) /\ ~ShouldProcess(n, n) /\ m # n
  BY <1>1, <1>3 DEF ShouldProcess
<1>. QED  BY <1>2, <1>4 DEF n, m

(***************************************************************************)
(* A pass over an acknowledged queue                                       *)
(***************************************************************************)

(* It leaves the pack there is as it was, or makes one of the entries.     *)
Alike(new, qu) ==
    /\ new.entries = qu.entries /\ new.last = qu.last
    /\ new.seq = qu.seq /\ new.serial = qu.serial
    /\ new.pack.bytes = qu.pack.bytes /\ new.pack.cmds = qu.pack.cmds
    /\ new.pack.remaining = qu.pack.remaining
Repacked(new, qu) ==
    /\ new.entries = qu.entries /\ new.last = qu.last
    /\ qu.pack.cmds = 0 /\ new.pack.cmds # 0
    /\ new.seq = Seqnum(qu.seq, 1) /\ new.serial = qu.serial + 1
    /\ Rebuilds(new.entries, new.last.remaining, new.pack)
Tells(new, qu, frames) ==
    /\ Alike(new, qu) \/ Repacked(new, qu)
    /\ frames = <<>> \/ (frames = <<Frame(new)>> /\ new.pack.cmds # 0)

LEMMA AlikeTrans ==
  ASSUME NEW a, NEW b, NEW c, Alike(b, a) \/ Repacked(b, a), Alike(c, b)
  PROVE  Alike(c, a) \/ Repacked(c, a)
<1>1. CASE Alike(b, a)
  BY <1>1 DEF Alike
<1>2. CASE Repacked(b, a)
  <2>1. Rebuilds(c.entries, c.last.remaining, c.pack)
    BY <1>2 DEF Alike, Repacked, Rebuilds, Ends
  <2>. QED  BY <1>2, <2>1 DEF Alike, Repacked
<1>. QED  BY <1>1, <1>2

LEMMA ExpireAlike ==
  ASSUME NEW qu \in Queue
  PROVE  Alike(Expire(qu), qu)
<1>1. Expire(qu).pack = [qu.pack EXCEPT !.waiting = FALSE, !.age = 0]
      /\ Expire(qu).seq = qu.seq /\ Expire(qu).serial = qu.serial
  BY DEF Expire, Queue, Pack
<1>2. qu.pack \in Pack
  BY QueueType
<1>3. Expire(qu).pack.bytes = qu.pack.bytes
  BY <1>1, <1>2 DEF Pack
<1>. QED  BY <1>1, <1>3, ExpireIs DEF Alike

LEMMA PackedTells ==
  ASSUME NEW q \in Queues, WithAck(q), NEW qu \in Queue, Covered(qu),
         Distinct(qu.entries), qu.entries # <<>>
  PROVE  /\ Alike(Packed(q, qu), qu) \/ Repacked(Packed(q, qu), qu)
         /\ Packed(q, qu) \in Queue /\ Packed(q, qu).pack.cmds # 0
<1>1. CASE qu.pack.cmds # 0
  BY <1>1 DEF Packed, Alike
<1>2. CASE qu.pack.cmds = 0
  <2>. DEFINE pack == PackWithAck(qu)
              s == Seqnum(qu.seq, 1)
              n == qu.serial + 1
              new == Packed(q, qu)
  <2>1. Left(qu.entries, 1, qu.last.remaining)
    BY DEF Covered
  <2>2. /\ pack \in Pack /\ pack.cmds \in 1..Len(qu.entries)
        /\ Left(qu.entries, pack.cmds, pack.remaining)
        /\ Cuts(qu, pack)
    BY <2>1, PackWithAckIs
  <2>. HIDE DEF pack
  <2>3. Rebuilds(qu.entries, qu.last.remaining, pack)
    BY <2>1, <2>2, RebuildsIs
  <2>4. s \in 0..(SeqSize - 1) /\ n \in Nat
    BY QueueType, SeqnumType
  <2>5. new = [qu EXCEPT !.seq = s, !.serial = n, !.pack = pack]
    BY <1>2 DEF Packed, pack
  <2>. HIDE DEF s, n, new
  <2>6. /\ new \in Queue /\ new.entries = qu.entries /\ new.last = qu.last
        /\ new.seq = s /\ new.serial = n /\ new.pack = pack
    BY <2>2, <2>4, <2>5 DEF Queue
  <2>7. pack.cmds # 0
    BY <2>2
  <2>8. Repacked(new, qu)
    BY <1>2, <2>3, <2>6, <2>7 DEF Repacked, s, n
  <2>. QED  BY <2>6, <2>7, <2>8 DEF new
<1>. QED  BY <1>1, <1>2

LEMMA SendPackTells ==
  ASSUME NEW q \in Queues, WithAck(q), NEW qu \in Queue, Covered(qu),
         Distinct(qu.entries), qu.entries # <<>>, NEW ok \in 0..MaxCmds
  PROVE  LET pass == SendPack(q, qu, ok)
         IN  Tells(pass.queue, qu, pass.frames) /\ pass.notes = {}
<1>. DEFINE pass == SendPack(q, qu, ok)
            packed == Packed(q, qu)
<1>1. /\ Alike(packed, qu) \/ Repacked(packed, qu)
      /\ packed \in Queue /\ packed.pack.cmds # 0
  BY PackedTells
<1>2. CASE ok = 0
  <2>1. pass = Pass(packed, <<>>, {}, Off)
    BY <1>2 DEF SendPack
  <2>2. pass.queue = packed /\ pass.frames = <<>> /\ pass.notes = {}
    BY <2>1 DEF Pass
  <2>. QED  BY <1>1, <2>2 DEF Tells
<1>3. CASE ok # 0
  <2>. DEFINE new == [packed EXCEPT !.txAge = 0, !.pack.waiting = TRUE, !.pack.age = 0]
  <2>1. pass = Pass(new, <<Frame(packed)>>, {}, Info[q].ackTimeout)
    BY <1>3 DEF SendPack
  <2>2. pass.queue = new /\ pass.frames = <<Frame(packed)>> /\ pass.notes = {}
    BY <2>1 DEF Pass
  <2>. HIDE DEF packed
  <2>3. Alike(new, packed)
    BY <1>1 DEF Queue, Pack, Alike
  <2>. HIDE DEF new
  <2>4. Frame(packed) = Frame(new) /\ new.pack.cmds # 0
    BY <1>1, <2>3 DEF Alike, Frame
  <2>5. Alike(new, qu) \/ Repacked(new, qu)
    BY <1>1, <2>3, AlikeTrans
  <2>. QED  BY <2>2, <2>4, <2>5 DEF Tells
<1>. QED  BY <1>2, <1>3

LEMMA CheckTxQueueTells ==
  ASSUME NEW q \in Queues, WithAck(q), NEW qu \in Queue, NEW isUp \in BOOLEAN,
         Sane(q, qu, isUp), Distinct(qu.entries), NEW ok \in 0..MaxCmds
  PROVE  LET pass == CheckTxQueue(q, qu, ok)
         IN  /\ Tells(pass.queue, qu, pass.frames) /\ pass.notes = {}
             /\ qu.entries = <<>> => pass.queue = qu /\ pass.frames = <<>>
<1>. DEFINE pass == CheckTxQueue(q, qu, ok)
            expired == Expire(qu)
<1>1. Alike(qu, qu)
  BY DEF Alike
<1>2. CASE qu.entries = <<>>
  <2>1. pass = Pass(qu, <<>>, {}, Off)
    BY <1>2 DEF CheckTxQueue
  <2>. QED  BY <1>1, <2>1 DEF Pass, Tells
<1>3. CASE qu.entries # <<>> /\ AckPending(q, qu)
  <2>1. pass = Pass(qu, <<>>, {}, Info[q].ackTimeout - qu.pack.age)
    BY <1>3 DEF CheckTxQueue
  <2>. QED  BY <1>1, <1>3, <2>1 DEF Pass, Tells
<1>4. Alike(expired, qu) /\ expired \in Queue
  BY ExpireAlike, ExpireIs
<1>5. CASE qu.entries # <<>> /\ ~AckPending(q, qu) /\ TooSoon(q, qu)
  <2>1. pass = Pass(expired, <<>>, {}, Info[q].maxRate - expired.txAge)
    BY <1>5 DEF CheckTxQueue, SendLater
  <2>2. pass.queue = expired /\ pass.frames = <<>> /\ pass.notes = {}
    BY <2>1 DEF Pass
  <2>. QED  BY <1>4, <1>5, <2>2 DEF Tells
<1>6. CASE qu.entries # <<>> /\ ~AckPending(q, qu) /\ ~TooSoon(q, qu)
  <2>1. pass = SendPack(q, expired, ok)
    BY <1>6 DEF CheckTxQueue
  <2>2. Covered(qu)
    BY <1>6 DEF Sane
  <2>. HIDE DEF pass, expired
  <2>3. /\ Covered(expired) /\ expired.entries # <<>> /\ Distinct(expired.entries)
    BY <1>4, <1>6, <2>2 DEF Alike, Covered
  <2>4. Tells(pass.queue, expired, pass.frames) /\ pass.notes = {}
    BY <1>4, <2>1, <2>3, SendPackTells
  <2>5. Alike(pass.queue, qu) \/ Repacked(pass.queue, qu)
    <3>1. Alike(pass.queue, expired) => Alike(pass.queue, qu)
      BY <1>4 DEF Alike
    <3>2. Repacked(pass.queue, expired) => Repacked(pass.queue, qu)
      BY <1>4 DEF Alike, Repacked
    <3>. QED  BY <2>4, <3>1, <3>2 DEF Tells
  <2>6. Tells(pass.queue, qu, pass.frames)
    BY <2>4, <2>5 DEF Tells
  <2>. QED  BY <1>6, <2>4, <2>6 DEF pass
<1>. QED  BY <1>2, <1>3, <1>5, <1>6

(***************************************************************************)
(* The two ends of a queue with acknowledgement                            *)
(***************************************************************************)

Alone == Len(Info) = 1 /\ WithAck(1)

(* k commands were accepted; those before the queue's have ended.  The     *)
(* serial number of the last acknowledged pack is Base(qu), that of the    *)
(* last pack received is r.                                                *)
Ended(qu, k) == k - Len(qu.entries)
Base(qu) == IF qu.pack.cmds # 0 THEN qu.serial - 1 ELSE qu.serial
Heard(qu, r) == qu.pack.cmds # 0 /\ r = qu.serial

(* Always: the receiver is at most one pack behind; the network keeps the  *)
(* order of the packs, none older than the last received, and of their     *)
(* acknowledgements; commands are delivered in order.                      *)
Numbered(qu, r) == r <= qu.serial /\ qu.serial <= r + 1 /\ qu.seq = NumberOf(qu.serial)
Steady(c) == \A i, j \in 1..Len(c) : i < j => c[i].serial <= c[j].serial
Travelling(c, qu, r) ==
    /\ Steady(c)
    /\ \A i \in 1..Len(c) : /\ r <= c[i].serial /\ c[i].serial <= qu.serial
                            /\ c[i].seq = NumberOf(c[i].serial)
Returning(a, r) ==
    /\ Steady(a)
    /\ \A i \in 1..Len(a) : a[i].serial <= r /\ a[i].seq = NumberOf(a[i].serial)
InOrder(s, k) == Len(s) <= k /\ \A i \in 1..Len(s) : s[i] = i
Common(qu, c, a, k, r, v, s) ==
    /\ v = NumberOf(r)
    /\ Numbered(qu, r) /\ Travelling(c, qu, r) /\ Returning(a, r) /\ InOrder(s, k)

(* Until the interface is stopped: the entries are the last commands that  *)
(* were accepted, what ended before them was acknowledged, and the pack    *)
(* takes the receiver from the head of the queue to the cut.               *)
InStep(qu, k, r, d) ==
    /\ \A i \in 1..Len(qu.entries) : qu.entries[i].n = Ended(qu, k) + i
    /\ IF qu.pack.cmds = 0 THEN qu.serial = r
       ELSE qu.serial > 0 /\ Rebuilds(qu.entries, qu.last.remaining, qu.pack)
    /\ qu.last.seq = NumberOf(Base(qu))
    /\ \A n \in 1..Ended(qu, k) : d[n] = <<"ACK_RECEIVED">>
Follows(qu, k, r, part, s) ==
    IF Heard(qu, r)
    THEN /\ Len(s) = Ended(qu, k) + Ends(qu.pack)
         /\ part = AtHead(Remainder(qu.entries, Ends(qu.pack)), qu.pack.remaining)
    ELSE Len(s) = Ended(qu, k) /\ part = AtHead(qu.entries, qu.last.remaining)
Carries(c, qu, r) ==
    \A i \in 1..Len(c) : c[i].serial = r + 1 => c[i].bytes = qu.pack.bytes
Recent(a, qu) == \A i \in 1..Len(a) : Base(qu) <= a[i].serial
Joint(qu, c, a, k, r, part, s, d) ==
    InStep(qu, k, r, d) /\ Follows(qu, k, r, part, s) /\ Carries(c, qu, r) /\ Recent(a, qu)

(* After that: a pack still in the network completes some of the commands  *)
(* that follow those delivered.                                            *)
Whole(part, bytes, m, k) ==
    LET out == Unpack(part, bytes).out
    IN  m + Len(out) <= k /\ \A i \in 1..Len(out) : out[i] = m + i
Late(c, r, part, m, k) ==
    \A i \in 1..Len(c) : c[i].serial = r + 1 => Whole(part, c[i].bytes, m, k)

ChanInv ==
    /\ IInv
    /\ Common(tx[1], data[1], acks[1], sent, rserial[1], recv[1], delivered[1])
    /\ IF up
       THEN Joint(tx[1], data[1], acks[1], sent, rserial[1], partial[1], delivered[1], done)
       ELSE Late(data[1], rserial[1], partial[1], Len(delivered[1]), sent)

LEMMA ChanInvNext ==
  ASSUME IInv',
         Common(tx'[1], data'[1], acks'[1], sent', rserial'[1], recv'[1], delivered'[1]),
         up' => Joint(tx'[1], data'[1], acks'[1], sent', rserial'[1], partial'[1],
                      delivered'[1], done'),
         ~up' => Late(data'[1], rserial'[1], partial'[1], Len(delivered'[1]), sent')
  PROVE  ChanInv'
<1>1. (Common(tx[1], data[1], acks[1], sent, rserial[1], recv[1], delivered[1]))'
  OBVIOUS
<1>2. (IF up
       THEN Joint(tx[1], data[1], acks[1], sent, rserial[1], partial[1], delivered[1], done)
       ELSE Late(data[1], rserial[1], partial[1], Len(delivered[1]), sent))'
  OBVIOUS
<1>. QED  BY <1>1, <1>2 DEF ChanInv

LEMMA ChanTypes ==
  ASSUME Alone, ChanInv
  PROVE  /\ Queues = {1} /\ 1 \in Queues /\ WithAck(1)
         /\ tx \in [Queues -> Queue] /\ tx[1] \in Queue /\ tx[1].serial \in Nat
         /\ up \in BOOLEAN /\ sent \in 0..MaxCmds /\ sent \in Nat /\ MaxCmds \in Nat
         /\ done \in DoneType /\ timer \in Nat \cup {Off}
         /\ data \in [Queues -> Seq(Datagram)] /\ data[1] \in Seq(Datagram)
         /\ acks \in [Queues -> Seq(Datagram)] /\ acks[1] \in Seq(Datagram)
         /\ rserial \in [Queues -> Nat] /\ rserial[1] \in Nat
         /\ partial \in [Queues -> Partial] /\ partial[1] \in Partial
         /\ delivered \in [Queues -> Seq(Word)] /\ delivered[1] \in Seq(Word)
         /\ recv \in [Queues -> 0..(SeqSize - 1)]
         /\ Sane(1, tx[1], up) /\ Distinct(tx[1].entries) /\ Listed(tx, sent)
<1>1. Queues = {1} /\ 1 \in Queues /\ WithAck(1)
  BY DEF Alone, Queues
<1>2. TypeOK /\ Sound(tx, done, sent, timer, up)
  BY DEF ChanInv, IInv
<1>3. tx[1] \in Queue /\ sent \in 0..MaxCmds
  BY <1>1, <1>2 DEF TypeOK
<1>4. sent \in Nat /\ MaxCmds \in Nat
  BY <1>3, BoundsAssumption
<1>5. tx[1].serial \in Nat
  BY <1>3, QueueType
<1>6. Sane(1, tx[1], up) /\ Distinct(tx[1].entries) /\ Listed(tx, sent)
  BY <1>1, <1>2 DEF Sound, Listed, Separate
<1>. QED  BY <1>1, <1>2, <1>3, <1>4, <1>5, <1>6 DEF TypeOK, DoneType, Word

(* What the sender was told so far.                                        *)
LEMMA ChanDone ==
  ASSUME Alone, ChanInv
  PROVE  /\ \A i \in 1..Len(tx[1].entries) : done[tx[1].entries[i].n] = <<>>
         /\ \A n \in Cmds : n > sent => done[n] = <<>>
         /\ Ended(tx[1], sent) \in Int
         /\ up => /\ Ended(tx[1], sent) \in Nat
                  /\ \A n \in Cmds : n <= Ended(tx[1], sent) => done[n] = <<"ACK_RECEIVED">>
<1>. DEFINE es == tx[1].entries
            L == Len(es)
            E == Ended(tx[1], sent)
<1>1. /\ es \in Seq(Command) /\ L \in Nat /\ DOMAIN es = 1..L /\ sent \in Nat
      /\ \A i \in 1..L : es[i].n \in Cmds
      /\ Queues = {1} /\ Sound(tx, done, sent, timer, up)
  BY ChanTypes, QueueType, CommandType DEF ChanInv, IInv
<1>2. Told(tx, done, sent)
  <2>1. Firm
    BY ChanTypes DEF Firm
  <2>. QED  BY <1>1, <2>1 DEF Sound
<1>3. \A i \in 1..L : es[i].n \in AllNames(tx)
  <2>1. \A i \in 1..L : es[i].n \in NamesOf(es)
    BY <1>1 DEF NamesOf
  <2>2. NamesOf(tx[1].entries) \subseteq AllNames(tx)
    BY <1>1 DEF AllNames
  <2>. QED  BY <2>1, <2>2
<1>4. \A i \in 1..L : done[es[i].n] = <<>>
  BY <1>1, <1>2, <1>3 DEF Told
<1>5. \A n \in Cmds : n > sent => done[n] = <<>>
  BY <1>2 DEF Told
<1>6. E \in Int /\ E = sent - L
  BY <1>1 DEF Ended
<1>7. ASSUME up
      PROVE  E \in Nat
  <2>1. CASE L = 0
    BY <1>1, <1>6, <2>1
  <2>2. CASE L # 0
    <3>1. 1 \in 1..L
      BY <1>1, <2>2
    <3>2. es[1].n \in 1..sent
      BY <1>1, <1>3, <3>1 DEF Sound, Listed
    <3>3. es[1].n = E + 1
      BY <1>7, <3>1 DEF ChanInv, Joint, InStep
    <3>. HIDE DEF E, L, es
    <3>. QED  BY <1>1, <1>6, <3>2, <3>3
  <2>. QED  BY <2>1, <2>2
<1>8. ASSUME up, NEW n \in Cmds, n <= E
      PROVE  done[n] = <<"ACK_RECEIVED">>
  <2>1. n \in 1..E
    BY <1>6, <1>8 DEF Cmds
  <2>. QED  BY <1>8, <2>1 DEF ChanInv, Joint, InStep
<1>. QED  BY <1>4, <1>5, <1>6, <1>7, <1>8

(* The datagrams of c, or those and f behind them.                         *)
Grown(p, c, f) ==
    \A i \in 1..Len(p) : \/ i \in 1..Len(c) /\ p[i] = c[i]
                         \/ i = Len(c) + 1 /\ p[i] = f

LEMMA PutIs ==
  ASSUME NEW c \in Seq(Datagram), NEW f \in Datagram, NEW frames,
         frames = <<>> \/ frames = <<f>>
  PROVE  Grown(Put(c, frames), c, f)
<1>. DEFINE L == Len(c)
            one == <<f>>
            none == <<>>
            p == Put(c, frames)
<1>1. L \in Nat /\ one \in Seq(Datagram) /\ Len(one) = 1 /\ one[1] = f
      /\ none \in Seq(Datagram) /\ Len(none) = 0
  OBVIOUS
<1>. HIDE DEF one, none
<1>2. Grown(c, c, f)
  BY DEF Grown
<1>3. Grown(c \o none, c, f)
  <2>1. Len(c \o none) = L + 0 /\ \A i \in 1..(L + 0) : (c \o none)[i] = IF i <= L THEN c[i] ELSE none[i - L]
    BY <1>1, ConcatProperties
  <2>2. L + 0 = L
    BY <1>1
  <2>3. \A i \in 1..L : i <= L
    BY <1>1
  <2>. QED  BY <2>1, <2>2, <2>3 DEF Grown
<1>4. Grown(c \o one, c, f)
  <2>. DEFINE z == c \o one
  <2>1. Len(z) = L + 1 /\ \A i \in 1..(L + 1) : z[i] = IF i <= L THEN c[i] ELSE one[i - L]
    BY <1>1, ConcatProperties
  <2>. HIDE DEF z, L
  <2>2. \A i \in 1..(L + 1) : (i \in 1..L /\ i <= L) \/ (i = L + 1 /\ ~(i <= L) /\ i - L = 1)
    BY <1>1
  <2>3. \A i \in 1..Len(z) : (i \in 1..L /\ z[i] = c[i]) \/ (i = L + 1 /\ z[i] = f)
    BY <1>1, <2>1, <2>2
  <2>. QED  BY <2>3 DEF Grown, z, L
<1>5. p = c \/ p = c \o frames
  BY DEF Put
<1>. HIDE DEF p
<1>6. frames = none \/ frames = one
  BY DEF none, one
<1>7. Grown(p, c, f)
  BY <1>2, <1>3, <1>4, <1>5, <1>6
<1>. QED  BY <1>7 DEF p

LEMMA GrownSteady ==
  ASSUME NEW p \in Seq(Datagram), NEW c \in Seq(Datagram), NEW f \in Datagram,
         Grown(p, c, f), Steady(c), \A i \in 1..Len(c) : c[i].serial <= f.serial
  PROVE  Steady(p)
<1>1. SUFFICES ASSUME NEW i \in 1..Len(p), NEW j \in 1..Len(p), i < j
               PROVE  p[i].serial <= p[j].serial
  BY DEF Steady
<1>. DEFINE L == Len(c)
<1>2. L \in Nat /\ Len(p) \in Nat /\ f.serial \in Nat
  BY LenProperties DEF Datagram
<1>3. /\ (i \in 1..L /\ p[i] = c[i]) \/ (i = L + 1 /\ p[i] = f)
      /\ (j \in 1..L /\ p[j] = c[j]) \/ (j = L + 1 /\ p[j] = f)
  BY DEF Grown
<1>4. CASE i \in 1..L /\ p[i] = c[i] /\ j \in 1..L /\ p[j] = c[j]
  BY <1>1, <1>4 DEF Steady
<1>5. CASE i \in 1..L /\ p[i] = c[i] /\ j = L + 1 /\ p[j] = f
  BY <1>5
<1>6. CASE i = L + 1
  <2>1. j = L + 1
    <3>. HIDE DEF L
    <3>. QED  BY <1>1, <1>2, <1>3, <1>6
  <2>2. FALSE
    BY <1>1, <1>2, <1>6, <2>1
  <2>. QED  BY <2>2
<1>. QED  BY <1>3, <1>4, <1>5, <1>6

(* What both kinds of pass leave of the queue.                             *)
LEMMA TellsKeeps ==
  ASSUME NEW qu \in Queue, NEW new \in Queue, NEW c \in Seq(Datagram), NEW k \in Nat,
         NEW r \in Nat, NEW part, NEW s, NEW d, NEW frames, Tells(new, qu, frames),
         Numbered(qu, r), Travelling(c, qu, r), InStep(qu, k, r, d),
         Follows(qu, k, r, part, s), Carries(c, qu, r)
  PROVE  /\ Numbered(new, r) /\ InStep(new, k, r, d) /\ Follows(new, k, r, part, s)
         /\ Base(new) = Base(qu) /\ Ended(new, k) = Ended(qu, k)
         /\ qu.serial <= new.serial /\ Carries(c, new, r)
<1>1. qu.serial \in Nat /\ new.serial \in Nat /\ qu.pack.cmds \in Nat /\ new.pack.cmds \in Nat
  BY QueueType
<1>2. CASE Alike(new, qu)
  <2>1. /\ new.entries = qu.entries /\ new.last = qu.last /\ new.seq = qu.seq
        /\ new.serial = qu.serial /\ new.pack.bytes = qu.pack.bytes
        /\ new.pack.cmds = qu.pack.cmds /\ new.pack.remaining = qu.pack.remaining
    BY <1>2 DEF Alike
  <2>2. /\ Base(new) = Base(qu) /\ Ended(new, k) = Ended(qu, k)
        /\ Heard(new, r) = Heard(qu, r) /\ Ends(new.pack) = Ends(qu.pack)
    BY <2>1 DEF Base, Ended, Heard, Ends
  <2>3. Rebuilds(new.entries, new.last.remaining, new.pack)
          = Rebuilds(qu.entries, qu.last.remaining, qu.pack)
    BY <2>1, <2>2 DEF Rebuilds
  <2>4. InStep(new, k, r, d)
    <3>1. /\ \A i \in 1..Len(qu.entries) : qu.entries[i].n = Ended(qu, k) + i
          /\ qu.pack.cmds = 0 => qu.serial = r
          /\ qu.pack.cmds # 0 => qu.serial > 0 /\ Rebuilds(qu.entries, qu.last.remaining, qu.pack)
          /\ qu.last.seq = NumberOf(Base(qu))
          /\ \A n \in 1..Ended(qu, k) : d[n] = <<"ACK_RECEIVED">>
      BY DEF InStep
    <3>2. /\ \A i \in 1..Len(new.entries) : new.entries[i].n = Ended(new, k) + i
          /\ new.last.seq = NumberOf(Base(new))
          /\ \A n \in 1..Ended(new, k) : d[n] = <<"ACK_RECEIVED">>
      BY <2>1, <2>2, <3>1
    <3>3. CASE qu.pack.cmds = 0
      <4>1. new.pack.cmds = 0 /\ new.serial = r
        BY <2>1, <3>1, <3>3
      <4>. QED  BY <3>2, <4>1 DEF InStep
    <3>4. CASE qu.pack.cmds # 0
      <4>1. new.pack.cmds # 0 /\ new.serial > 0
            /\ Rebuilds(new.entries, new.last.remaining, new.pack)
        BY <2>1, <2>3, <3>1, <3>4
      <4>. QED  BY <3>2, <4>1 DEF InStep
    <3>. QED  BY <3>3, <3>4
  <2>5. Follows(new, k, r, part, s)
    BY <2>1, <2>2 DEF Follows
  <2>6. Numbered(new, r) /\ Carries(c, new, r) /\ qu.serial <= new.serial
    BY <1>1, <2>1 DEF Numbered, Carries
  <2>. QED  BY <2>2, <2>4, <2>5, <2>6
<1>3. CASE Repacked(new, qu)
  <2>1. /\ new.entries = qu.entries /\ new.last = qu.last
        /\ qu.pack.cmds = 0 /\ new.pack.cmds # 0
        /\ new.seq = Seqnum(qu.seq, 1) /\ new.serial = qu.serial + 1
        /\ Rebuilds(new.entries, new.last.remaining, new.pack)
    BY <1>3 DEF Repacked
  <2>2. /\ qu.serial = r /\ qu.seq = NumberOf(r) /\ new.serial = r + 1
        /\ qu.last.seq = NumberOf(Base(qu))
        /\ \A i \in 1..Len(qu.entries) : qu.entries[i].n = Ended(qu, k) + i
        /\ \A n \in 1..Ended(qu, k) : d[n] = <<"ACK_RECEIVED">>
    BY <2>1 DEF InStep, Numbered
  <2>3. Ended(new, k) = Ended(qu, k)
    BY <2>1 DEF Ended
  <2>4. Base(new) = r /\ Base(qu) = r
    BY <1>1, <2>1, <2>2 DEF Base
  <2>5. Numbered(new, r)
    <3>1. new.seq = NumberOf(r + 1)
      BY <2>1, <2>2, NumberNext
    <3>. QED  BY <2>2, <3>1 DEF Numbered
  <2>6. InStep(new, k, r, d)
    <3>1. new.serial > 0
      BY <2>2
    <3>2. /\ \A i \in 1..Len(new.entries) : new.entries[i].n = Ended(new, k) + i
          /\ new.last.seq = NumberOf(Base(new))
          /\ \A n \in 1..Ended(new, k) : d[n] = <<"ACK_RECEIVED">>
      BY <2>1, <2>2, <2>3, <2>4
    <3>. QED  BY <2>1, <3>1, <3>2 DEF InStep
  <2>7. ~Heard(qu, r) /\ ~Heard(new, r)
    BY <2>1, <2>2 DEF Heard
  <2>8. Follows(new, k, r, part, s)
    BY <2>1, <2>3, <2>7 DEF Follows
  <2>9. Carries(c, new, r)
    <3>1. SUFFICES ASSUME NEW i \in 1..Len(c)
                   PROVE  c[i].serial # r + 1
      BY DEF Carries
    <3>2. c[i].serial <= r /\ c[i].serial \in Nat
      <4>1. c[i] \in Datagram
        OBVIOUS
      <4>. QED  BY <2>2, <4>1 DEF Travelling, Datagram
    <3>. QED  BY <3>2
  <2>. QED  BY <2>2, <2>3, <2>4, <2>5, <2>6, <2>8, <2>9
<1>. QED  BY <1>2, <1>3 DEF Tells

LEMMA PassKeeps ==
  ASSUME NEW qu \in Queue, NEW new \in Queue, NEW c \in Seq(Datagram), NEW a,
         NEW k \in Nat, NEW r \in Nat, NEW v, NEW part, NEW s, NEW d, NEW frames,
         Tells(new, qu, frames), Common(qu, c, a, k, r, v, s),
         Joint(qu, c, a, k, r, part, s, d)
  PROVE  /\ Common(new, Put(c, frames), a, k, r, v, s)
         /\ Joint(new, Put(c, frames), a, k, r, part, s, d)
<1>. DEFINE f == Frame(new)
            p == Put(c, frames)
<1>1. /\ f \in Datagram /\ f.serial = new.serial /\ f.seq = new.seq
      /\ f.bytes = new.pack.bytes /\ new.serial \in Nat /\ qu.serial \in Nat
  BY FrameType, QueueType DEF Frame
<1>. HIDE DEF f
<1>2. frames = <<>> \/ frames = <<f>>
  BY DEF Tells, f
<1>3. Grown(p, c, f) /\ p \in Seq(Datagram)
  <2>. DEFINE one == <<f>>
              none == <<>>
  <2>0. one \in Seq(Datagram) /\ none \in Seq(Datagram) /\ (frames = none \/ frames = one)
    BY <1>1, <1>2
  <2>1. frames \in Seq(Datagram)
    <3>. HIDE DEF one, none
    <3>. QED  BY <2>0
  <2>. QED  BY <1>1, <1>2, <2>1, PutIs, PutType
<1>. HIDE DEF p
<1>4. /\ Numbered(new, r) /\ InStep(new, k, r, d) /\ Follows(new, k, r, part, s)
      /\ Base(new) = Base(qu) /\ qu.serial <= new.serial /\ Carries(c, new, r)
  BY TellsKeeps DEF Common, Joint
<1>5. /\ Steady(c)
      /\ \A i \in 1..Len(c) : /\ c[i].serial \in Nat
                              /\ r <= c[i].serial /\ c[i].serial <= qu.serial
                              /\ c[i].seq = NumberOf(c[i].serial)
  <2>1. \A i \in 1..Len(c) : c[i] \in Datagram
    OBVIOUS
  <2>. QED  BY <2>1 DEF Common, Travelling, Datagram
<1>6. \A i \in 1..Len(c) : c[i].serial <= new.serial
  BY <1>1, <1>4, <1>5
<1>7. Travelling(p, new, r)
  <2>1. Steady(p)
    BY <1>1, <1>3, <1>5, <1>6, GrownSteady
  <2>2. ASSUME NEW i \in 1..Len(p)
        PROVE  /\ r <= p[i].serial /\ p[i].serial <= new.serial
               /\ p[i].seq = NumberOf(p[i].serial)
    <3>1. CASE p[i] = f
      BY <1>1, <1>4, <3>1 DEF Numbered
    <3>2. CASE i \in 1..Len(c) /\ p[i] = c[i]
      BY <1>5, <1>6, <3>2
    <3>. QED  BY <1>3, <3>1, <3>2 DEF Grown
  <2>. QED  BY <2>1, <2>2 DEF Travelling
<1>8. Carries(p, new, r)
  BY <1>1, <1>3, <1>4 DEF Grown, Carries
<1>9. Recent(a, new)
  BY <1>4 DEF Joint, Recent
<1>. QED  BY <1>4, <1>7, <1>8, <1>9 DEF Common, Joint, p

(* A check of the queue, as a handler leaves it.                           *)
LEMMA OnePass ==
  ASSUME Alone, NEW t \in [Queues -> Queue], NEW isUp \in BOOLEAN,
         Sane(1, t[1], isUp), Distinct(t[1].entries),
         NEW notes \in SUBSET NoteType, done \in DoneType,
         CheckTxQueues(t, notes)
  PROVE  /\ done' = Notify(done, notes)
         /\ \E frames : /\ Tells(tx'[1], t[1], frames) /\ data'[1] = Put(data[1], frames)
                        /\ t[1].entries = <<>> => tx'[1] = t[1] /\ frames = <<>>
<1>1. Queues = {1} /\ 1 \in Queues /\ WithAck(1) /\ t[1] \in Queue
  BY DEF Alone, Queues
<1>2. PICK pass \in Passes(t) :
        /\ tx' = [q \in Queues |-> pass[q].queue]
        /\ data' = [q \in Queues |-> Put(data[q], pass[q].frames)]
        /\ done' = Notify(Notify(done, notes), UNION {pass[q].notes : q \in Queues})
  BY DEF CheckTxQueues
<1>3. PICK ok \in Budget(t) : pass = [q \in Queues |-> CheckTxQueue(q, t[q], ok[q])]
  BY DEF Passes
<1>4. ok[1] \in 0..MaxCmds
  BY <1>1 DEF Budget
<1>5. pass[1] = CheckTxQueue(1, t[1], ok[1])
  BY <1>1, <1>3
<1>6. /\ Tells(pass[1].queue, t[1], pass[1].frames) /\ pass[1].notes = {}
      /\ t[1].entries = <<>> => pass[1].queue = t[1] /\ pass[1].frames = <<>>
  BY <1>1, <1>4, <1>5, CheckTxQueueTells
<1>7. UNION {pass[q].notes : q \in Queues} = {}
  BY <1>1, <1>6
<1>8. done' = Notify(done, notes)
  <2>1. Notify(done, notes) \in DoneType
    BY NotifyIs
  <2>. QED  BY <1>2, <1>7, <2>1, NotifyNone
<1>9. tx'[1] = pass[1].queue /\ data'[1] = Put(data[1], pass[1].frames)
  BY <1>1, <1>2
<1>. QED  BY <1>6, <1>8, <1>9

(* What the handlers of the sender share.                                  *)
LEMMA ChanCheck ==
  ASSUME Alone, ChanInv, IInv', NEW t \in [Queues -> Queue], up' = up,
         Sane(1, t[1], up), Distinct(t[1].entries),
         NEW notes \in SUBSET NoteType, CheckTxQueues(t, notes), UNCHANGED receiver,
         sent' \in Nat,
         Common(t[1], data[1], acks'[1], sent', rserial[1], recv[1], delivered[1]),
         up => Joint(t[1], data[1], acks'[1], sent', rserial[1], partial[1], delivered[1],
                     Notify(done, notes)),
         ~up => /\ t[1].entries = <<>>
                /\ Late(data[1], rserial[1], partial[1], Len(delivered[1]), sent')
  PROVE  ChanInv' /\ done' = Notify(done, notes)
<1>1. /\ up \in BOOLEAN /\ done \in DoneType /\ 1 \in Queues /\ t[1] \in Queue
      /\ data[1] \in Seq(Datagram) /\ rserial[1] \in Nat
  BY ChanTypes
<1>2. tx'[1] \in Queue
  BY <1>1 DEF IInv, TypeOK
<1>3. PICK frames : /\ Tells(tx'[1], t[1], frames) /\ data'[1] = Put(data[1], frames)
                    /\ t[1].entries = <<>> => tx'[1] = t[1] /\ frames = <<>>
  <2>. DEFINE isUp == up
  <2>1. isUp \in BOOLEAN /\ Sane(1, t[1], isUp)
    BY <1>1
  <2>. HIDE DEF isUp
  <2>. QED  BY <1>1, <2>1, OnePass
<1>4. done' = Notify(done, notes)
  <2>. DEFINE isUp == up
  <2>1. isUp \in BOOLEAN /\ Sane(1, t[1], isUp)
    BY <1>1
  <2>. HIDE DEF isUp
  <2>. QED  BY <1>1, <2>1, OnePass
<1>5. UNCHANGED <<recv, partial, delivered, rserial>>
  BY DEF receiver
<1>6. CASE up
  <2>1. /\ Common(tx'[1], Put(data[1], frames), acks'[1], sent', rserial[1], recv[1], delivered[1])
        /\ Joint(tx'[1], Put(data[1], frames), acks'[1], sent', rserial[1], partial[1],
                 delivered[1], Notify(done, notes))
    BY <1>1, <1>2, <1>3, <1>6, PassKeeps
  <2>. QED  BY <1>3, <1>4, <1>5, <1>6, <2>1, ChanInvNext
<1>7. CASE ~up
  <2>1. tx'[1] = t[1] /\ frames = <<>>
    BY <1>3, <1>7
  <2>2. data'[1] = data[1]
    <3>1. Put(data[1], <<>>) = data[1]
      BY <1>1 DEF Put
    <3>. QED  BY <1>3, <2>1, <3>1
  <2>. QED  BY <1>4, <1>5, <1>7, <2>1, <2>2, ChanInvNext
<1>. QED  BY <1>1, <1>6, <1>7

(***************************************************************************)
(* Every step of the interface is one of the channel, or none.             *)
(***************************************************************************)

ChanStep == [Channel!Next]_(Channel!chanVars)

LEMMA ChanStutter ==
  ASSUME up' = up, sent' = sent, delivered'[1] = delivered[1], done' = done
  PROVE  ChanStep
<1>1. UNCHANGED Channel!chanVars
  BY DEF Channel!chanVars
<1>. QED  BY <1>1 DEF ChanStep

LEMMA ChanInit ==
  ASSUME Alone, Init
  PROVE  ChanInv /\ Channel!Init
<1>. DEFINE qu == tx[1]
            none == <<>>
<1>1. IInv
  BY InitIInv
<1>2. 1 \in Queues /\ MaxCmds \in Nat
  BY BoundsAssumption DEF Alone, Queues
<1>3. /\ qu = NewQueue(1) /\ data[1] = none /\ acks[1] = none /\ rserial[1] = 0
      /\ recv[1] = SeqSize - 1 /\ partial[1] = Idling /\ delivered[1] = none
      /\ up /\ sent = 0 /\ done = [n \in Cmds |-> none]
  BY <1>2 DEF Init, Idling
<1>4. Len(none) = 0 /\ 1..Len(none) = {}
  OBVIOUS
<1>5. /\ qu.entries = none /\ qu.seq = SeqSize - 1 /\ qu.pack.cmds = 0 /\ qu.serial = 0
      /\ qu.last.seq = SeqSize - 1 /\ qu.last.remaining = 0
  BY <1>3 DEF NewQueue, NewPack
<1>. HIDE DEF qu, none
<1>6. /\ Base(qu) = 0 /\ Ended(qu, 0) = 0 /\ ~Heard(qu, 0)
  <2>1. Len(qu.entries) = 0 /\ 0 - 0 = 0
    BY <1>4, <1>5
  <2>2. Ended(qu, 0) = 0
    BY <2>1 DEF Ended
  <2>. QED  BY <1>5, <2>2 DEF Base, Heard
<1>7. Common(qu, none, none, 0, 0, SeqSize - 1, none)
  <2>1. Numbered(qu, 0)
    BY <1>5, NumberStart DEF Numbered
  <2>2. Travelling(none, qu, 0) /\ Returning(none, 0) /\ InOrder(none, 0)
    BY <1>4 DEF Travelling, Returning, InOrder, Steady
  <2>. QED  BY <2>1, <2>2, NumberStart DEF Common
<1>8. Joint(qu, none, none, 0, 0, Idling, none, done)
  <2>1. InStep(qu, 0, 0, done)
    BY <1>4, <1>5, <1>6, NumberStart DEF InStep
  <2>2. Follows(qu, 0, 0, Idling, none)
    BY <1>4, <1>5, <1>6 DEF Follows, AtHead
  <2>3. Carries(none, qu, 0) /\ Recent(none, qu)
    BY <1>4 DEF Carries, Recent
  <2>. QED  BY <2>1, <2>2, <2>3 DEF Joint
<1>9. ChanInv
  BY <1>1, <1>3, <1>7, <1>8 DEF ChanInv, qu
<1>10. Channel!Init
  BY <1>3, <1>4 DEF Channel!Init, Channel!Cmds, Cmds, none
<1>. QED  BY <1>9, <1>10

(* Datagrams of c, in their order.                                         *)
Fewer(b, c) ==
    /\ \A i \in 1..Len(b) : \E j \in 1..Len(c) : b[i] = c[j]
    /\ Steady(c) => Steady(b)

LEMMA TakenFewer ==
  ASSUME NEW c \in Seq(Datagram), c # <<>>, NEW copy \in BOOLEAN
  PROVE  /\ Fewer(Taken(c, copy), c) /\ Fewer(Tail(c), c) /\ Fewer(c, c)
         /\ 1 \in 1..Len(c) /\ Head(c) = c[1]
<1>. DEFINE b == Tail(c)
            L == Len(c)
<1>1. /\ L \in Nat /\ L >= 1 /\ Len(b) = L - 1 /\ \A i \in 1..(L - 1) : b[i] = c[i + 1]
      /\ Head(c) = c[1]
  BY HeadTailProperties, LenProperties, EmptySeq
<1>. HIDE DEF b, L
<1>2. \A i \in 1..(L - 1) : i + 1 \in 1..L
  BY <1>1
<1>3. \A i, j \in 1..(L - 1) : i < j => i + 1 < j + 1
  BY <1>1
<1>4. Fewer(b, c)
  <2>1. \A i \in 1..Len(b) : \E j \in 1..L : b[i] = c[j]
    BY <1>1, <1>2
  <2>2. ASSUME Steady(c), NEW i \in 1..Len(b), NEW j \in 1..Len(b), i < j
        PROVE  b[i].serial <= b[j].serial
    <3>1. i + 1 \in 1..L /\ j + 1 \in 1..L /\ i + 1 < j + 1
      BY <1>1, <1>2, <1>3, <2>2
    <3>2. c[i + 1].serial <= c[j + 1].serial
      BY <2>2, <3>1 DEF Steady, L
    <3>. QED  BY <1>1, <2>2, <3>2
  <2>. QED  BY <2>1, <2>2 DEF Fewer, Steady, L
<1>5. Fewer(c, c)
  BY DEF Fewer
<1>6. 1 \in 1..L
  BY <1>1
<1>. QED  BY <1>1, <1>4, <1>5, <1>6 DEF Taken, b, L

LEMMA FewerKeeps ==
  ASSUME NEW b, NEW c, Fewer(b, c), NEW qu, NEW r, NEW part, NEW m, NEW k
  PROVE  /\ Travelling(c, qu, r) => Travelling(b, qu, r)
         /\ Carries(c, qu, r) => Carries(b, qu, r)
         /\ Late(c, r, part, m, k) => Late(b, r, part, m, k)
         /\ Returning(c, r) => Returning(b, r)
         /\ Recent(c, qu) => Recent(b, qu)
<1>1. \A i \in 1..Len(b) : \E j \in 1..Len(c) : b[i] = c[j]
  BY DEF Fewer
<1>2. Steady(c) => Steady(b)
  BY DEF Fewer
<1>3. Travelling(c, qu, r) => Travelling(b, qu, r)
  BY <1>1, <1>2 DEF Travelling
<1>4. Carries(c, qu, r) => Carries(b, qu, r)
  BY <1>1 DEF Carries
<1>5. Late(c, r, part, m, k) => Late(b, r, part, m, k)
  BY <1>1 DEF Late
<1>6. Returning(c, r) => Returning(b, r)
  BY <1>1, <1>2 DEF Returning
<1>7. Recent(c, qu) => Recent(b, qu)
  BY <1>1 DEF Recent
<1>. QED  BY <1>3, <1>4, <1>5, <1>6, <1>7

(* The network, the timer and the clock.                                   *)
LEMMA LoseChan ==
  ASSUME Alone, ChanInv, NEW q \in Queues, LoseData(q) \/ LoseAck(q)
  PROVE  ChanInv' /\ ChanStep
<1>1. IInv'
  BY LoseIInv DEF ChanInv
<1>2. /\ q = 1 /\ data \in [Queues -> Seq(Datagram)] /\ acks \in [Queues -> Seq(Datagram)]
      /\ data[1] \in Seq(Datagram) /\ acks[1] \in Seq(Datagram)
  BY ChanTypes
<1>3. UNCHANGED <<tx, timer, up, sent, done, recv, partial, delivered, rserial>>
  BY DEF LoseData, LoseAck, receiver
<1>4. Fewer(data'[1], data[1]) /\ Fewer(acks'[1], acks[1])
  <2>1. Fewer(data[1], data[1]) /\ Fewer(acks[1], acks[1])
    BY DEF Fewer
  <2>2. CASE LoseData(q)
    <3>1. data[1] # <<>> /\ data'[1] = Tail(data[1]) /\ acks' = acks
      BY <1>2, <2>2 DEF LoseData
    <3>2. Fewer(Tail(data[1]), data[1])
      BY <1>2, <3>1, TakenFewer
    <3>. QED  BY <2>1, <3>1, <3>2
  <2>3. CASE LoseAck(q)
    <3>1. acks[1] # <<>> /\ acks'[1] = Tail(acks[1]) /\ data' = data
      BY <1>2, <2>3 DEF LoseAck
    <3>2. Fewer(Tail(acks[1]), acks[1])
      BY <1>2, <3>1, TakenFewer
    <3>. QED  BY <2>1, <3>1, <3>2
  <2>. QED  BY <2>2, <2>3
<1>5. /\ Travelling(data[1], tx[1], rserial[1]) => Travelling(data'[1], tx[1], rserial[1])
      /\ Carries(data[1], tx[1], rserial[1]) => Carries(data'[1], tx[1], rserial[1])
      /\ Late(data[1], rserial[1], partial[1], Len(delivered[1]), sent)
           => Late(data'[1], rserial[1], partial[1], Len(delivered[1]), sent)
      /\ Returning(acks[1], rserial[1]) => Returning(acks'[1], rserial[1])
      /\ Recent(acks[1], tx[1]) => Recent(acks'[1], tx[1])
  BY <1>4, FewerKeeps
<1>6. Common(tx[1], data'[1], acks'[1], sent, rserial[1], recv[1], delivered[1])
  BY <1>5 DEF ChanInv, Common
<1>7. up => Joint(tx[1], data'[1], acks'[1], sent, rserial[1], partial[1], delivered[1], done)
  BY <1>5 DEF ChanInv, Joint
<1>8. ~up => Late(data'[1], rserial[1], partial[1], Len(delivered[1]), sent)
  BY <1>5 DEF ChanInv
<1>. QED  BY <1>1, <1>3, <1>6, <1>7, <1>8, ChanInvNext, ChanStutter

LEMMA TickChan ==
  ASSUME Alone, ChanInv, Tick
  PROVE  ChanInv' /\ ChanStep
<1>. DEFINE qu == tx[1]
            new == Aged(1, qu)
<1>1. IInv'
  BY TickIInv DEF ChanInv
<1>2. 1 \in Queues /\ qu \in Queue /\ tx \in [Queues -> Queue] /\ up \in BOOLEAN
      /\ data[1] \in Seq(Datagram) /\ rserial[1] \in Nat /\ sent \in Nat
      /\ Sane(1, qu, up)
  BY ChanTypes
<1>3. UNCHANGED <<up, sent, done, data, acks, recv, partial, delivered, rserial>>
      /\ tx'[1] = new
  BY <1>2 DEF Tick, Aged, receiver
<1>4. new \in Queue
  BY <1>2, AgedIs
<1>5. Alike(new, qu)
  <2>1. new.entries = qu.entries /\ new.last = qu.last /\ new.seq = qu.seq
        /\ new.serial = qu.serial
    BY <1>2 DEF Aged, Queue
  <2>2. new.pack.cmds = qu.pack.cmds /\ new.pack.remaining = qu.pack.remaining
    BY <1>2, AgedIs
  <2>3. new.pack = [qu.pack EXCEPT !.age = IF qu.pack.waiting
                       THEN Older(qu.pack.age, Info[1].ackTimeout) ELSE qu.pack.age]
    BY <1>2 DEF Aged, Queue
  <2>4. qu.pack \in Pack
    BY <1>2, QueueType
  <2>5. new.pack.bytes = qu.pack.bytes
    BY <2>3, <2>4 DEF Pack
  <2>. QED  BY <2>1, <2>2, <2>5 DEF Alike
<1>6. Tells(new, qu, <<>>)
  BY <1>5 DEF Tells
<1>7. Put(data[1], <<>>) = data[1]
  BY <1>2 DEF Put
<1>. HIDE DEF new, qu
<1>8. Common(new, data[1], acks[1], sent, rserial[1], recv[1], delivered[1])
  <2>1. new.serial = qu.serial /\ new.seq = qu.seq
    BY <1>5 DEF Alike
  <2>. QED  BY <2>1 DEF ChanInv, Common, Numbered, Travelling, qu
<1>9. up => Joint(new, data[1], acks[1], sent, rserial[1], partial[1], delivered[1], done)
  <2>1. SUFFICES ASSUME up
                 PROVE  Joint(new, data[1], acks[1], sent, rserial[1], partial[1],
                              delivered[1], done)
    OBVIOUS
  <2>2. /\ Common(qu, data[1], acks[1], sent, rserial[1], recv[1], delivered[1])
        /\ Joint(qu, data[1], acks[1], sent, rserial[1], partial[1], delivered[1], done)
    BY <2>1 DEF ChanInv, qu
  <2>3. Joint(new, Put(data[1], <<>>), acks[1], sent, rserial[1], partial[1],
              delivered[1], done)
    BY <1>2, <1>4, <1>6, <2>2, PassKeeps
  <2>. QED  BY <1>7, <2>3
<1>. QED  BY <1>1, <1>3, <1>8, <1>9, ChanInvNext, ChanStutter DEF ChanInv

(* A check of the queue as it is.                                          *)
LEMMA QuietChan ==
  ASSUME Alone, ChanInv, IInv', CheckTxQueues(tx, {}), UNCHANGED <<up, sent, receiver>>,
         Fewer(acks'[1], acks[1])
  PROVE  ChanInv' /\ ChanStep
<1>1. /\ tx \in [Queues -> Queue] /\ done \in DoneType /\ Sane(1, tx[1], up)
      /\ Distinct(tx[1].entries) /\ {} \in SUBSET NoteType /\ sent \in Nat
  BY ChanTypes
<1>2. Notify(done, {}) = done
  BY <1>1, NotifyNone
<1>3. /\ Returning(acks[1], rserial[1]) => Returning(acks'[1], rserial[1])
      /\ Recent(acks[1], tx[1]) => Recent(acks'[1], tx[1])
  BY FewerKeeps
<1>4. Common(tx[1], data[1], acks'[1], sent', rserial[1], recv[1], delivered[1])
  BY <1>3 DEF ChanInv, Common
<1>5. up => Joint(tx[1], data[1], acks'[1], sent', rserial[1], partial[1], delivered[1],
                  Notify(done, {}))
  BY <1>2, <1>3 DEF ChanInv, Joint
<1>6. ~up => /\ tx[1].entries = <<>>
             /\ Late(data[1], rserial[1], partial[1], Len(delivered[1]), sent')
  BY <1>1 DEF ChanInv, Sane
<1>7. ChanInv' /\ done' = Notify(done, {})
  BY <1>1, <1>4, <1>5, <1>6, ChanCheck
<1>. QED  BY <1>2, <1>7, ChanStutter DEF receiver

LEMMA TimerCbChan ==
  ASSUME Alone, ChanInv, TimerCb
  PROVE  ChanInv' /\ ChanStep
<1>1. IInv'
  BY TimerCbIInv DEF ChanInv
<1>2. CheckTxQueues(tx, {}) /\ UNCHANGED <<up, sent, receiver>> /\ acks' = acks
  BY DEF TimerCb
<1>3. Fewer(acks'[1], acks[1])
  BY <1>2 DEF Fewer
<1>. QED  BY <1>1, <1>2, <1>3, QuietChan

(* How many commands the pack of a queue ends.                             *)
LEMMA EndsAre ==
  ASSUME NEW qu \in Queue, Covered(qu)
  PROVE  /\ Ends(qu.pack) \in 0..Len(qu.entries) /\ SentWhole(qu) = Ends(qu.pack)
         /\ qu.pack.remaining # 0 => /\ Ends(qu.pack) + 1 = qu.pack.cmds
                                     /\ qu.pack.cmds \in 1..Len(qu.entries)
         /\ qu.last.remaining # 0 => 1 \in 1..Len(qu.entries)
<1>. DEFINE L == Len(qu.entries)
            c == qu.pack.cmds
            left == qu.pack.remaining
            k == Ends(qu.pack)
<1>1. /\ L \in Nat /\ DOMAIN qu.entries = 1..L /\ c \in Nat /\ left \in Nat /\ c <= L
      /\ left # 0 => c \in 1..L
      /\ qu.last.remaining # 0 => 1 \in 1..L
  BY QueueType DEF Covered, Left
<1>2. k = IF left = 0 THEN c ELSE c - 1
  BY DEF Ends
<1>3. SentWhole(qu) = k
  BY DEF SentWhole, Ends
<1>. HIDE DEF L, c, left, k
<1>4. k \in 0..L /\ (left # 0 => k + 1 = c)
  BY <1>1, <1>2
<1>. QED  BY <1>1, <1>3, <1>4 DEF L, c, left, k

(* A command added behind the others changes nothing for the pack.         *)
LEMMA AppendRebuilds ==
  ASSUME NEW qu \in Queue, Covered(qu), NEW c \in Command
  PROVE  LET longer == Append(qu.entries, c)
             k == Ends(qu.pack)
         IN  /\ AtHead(longer, qu.last.remaining) = AtHead(qu.entries, qu.last.remaining)
             /\ AtHead(Remainder(longer, k), qu.pack.remaining) =
                   AtHead(Remainder(qu.entries, k), qu.pack.remaining)
             /\ Names(longer, k) = Names(qu.entries, k)
<1>. DEFINE es == qu.entries
            longer == Append(es, c)
            L == Len(es)
            k == Ends(qu.pack)
            left == qu.pack.remaining
            before == Remainder(es, k)
            after == Remainder(longer, k)
<1>1. /\ L \in Nat /\ es \in Seq(Command)
      /\ longer \in Seq(Command) /\ Len(longer) = L + 1
      /\ \A i \in 1..L : longer[i] = es[i]
  BY QueueType, AppendProperties
<1>2. /\ k \in 0..L /\ (left # 0 => k + 1 \in 1..L)
      /\ qu.last.remaining # 0 => 1 \in 1..L
  BY EndsAre
<1>. HIDE DEF longer, k, left, L
<1>3. AtHead(longer, qu.last.remaining) = AtHead(es, qu.last.remaining)
  BY <1>1, <1>2 DEF AtHead
<1>4. Names(longer, k) = Names(es, k)
  <2>1. \A i \in 1..k : longer[i] = es[i]
    BY <1>1, <1>2
  <2>. QED  BY <2>1 DEF Names
<1>5. ASSUME left # 0
      PROVE  after[1] = before[1]
  <2>1. k \in 0..(L + 1)
    BY <1>1, <1>2
  <2>2. \A i \in 1..(L - k) : before[i] = es[k + i]
    BY <1>1, <1>2, RemainderIs DEF L
  <2>3. \A i \in 1..(L + 1 - k) : after[i] = longer[k + i]
    <3>. DEFINE N == Len(longer)
    <3>1. k \in 0..N /\ N = L + 1 /\ L \in Nat /\ k \in Nat /\ N \in Nat
      BY <1>1, <1>2, <2>1
    <3>2. \A i \in 1..(N - k) : after[i] = longer[k + i]
      BY <1>1, <3>1, RemainderIs
    <3>. HIDE DEF after, N
    <3>. QED  BY <3>1, <3>2
  <2>4. 1 \in 1..(L - k) /\ 1 \in 1..(L + 1 - k)
    BY <1>1, <1>2, <1>5
  <2>5. before[1] = es[k + 1] /\ after[1] = longer[k + 1]
    BY <2>2, <2>3, <2>4
  <2>. QED  BY <1>1, <1>2, <1>5, <2>5
<1>6. AtHead(after, left) = AtHead(before, left)
  <2>. HIDE DEF after, before
  <2>. QED  BY <1>5 DEF AtHead
<1>. QED  BY <1>3, <1>4, <1>6 DEF longer, k, left

LEMMA AppendKeeps ==
  ASSUME NEW qu \in Queue, Covered(qu), NEW c \in Command, NEW new \in Queue,
         new.entries = Append(qu.entries, c), new.seq = qu.seq, new.pack = qu.pack,
         new.last = qu.last, new.serial = qu.serial,
         NEW k \in Nat, c.n = k + 1, NEW r, NEW part, NEW s, NEW d,
         NEW data1, NEW acks1, Joint(qu, data1, acks1, k, r, part, s, d)
  PROVE  Joint(new, data1, acks1, k + 1, r, part, s, d) /\ Ended(new, k + 1) = Ended(qu, k)
<1>. DEFINE es == qu.entries
            longer == Append(es, c)
            L == Len(es)
            n == Ends(qu.pack)
            E == Ended(qu, k)
<1>1. /\ L \in Nat /\ Len(longer) = L + 1 /\ longer[L + 1] = c
      /\ \A i \in 1..L : longer[i] = es[i]
  BY QueueType, AppendProperties
<1>2. E = k - L /\ E \in Int
  BY <1>1 DEF Ended
<1>3. /\ AtHead(longer, qu.last.remaining) = AtHead(es, qu.last.remaining)
      /\ AtHead(Remainder(longer, n), qu.pack.remaining) =
            AtHead(Remainder(es, n), qu.pack.remaining)
      /\ Names(longer, n) = Names(es, n)
  BY AppendRebuilds
<1>4. Ended(new, k + 1) = (k + 1) - Len(longer)
  BY DEF Ended
<1>5. new.entries = longer
  OBVIOUS
<1>6. /\ \A i \in 1..L : es[i].n = E + i
      /\ Rebuilds(es, qu.last.remaining, qu.pack) \/ qu.pack.cmds = 0
  BY DEF Joint, InStep
<1>. HIDE DEF longer, L, n, E
<1>7. Ended(new, k + 1) = E
  BY <1>1, <1>2, <1>4
<1>8. \A i \in 1..(L + 1) : longer[i].n = E + i
  <2>1. SUFFICES ASSUME NEW i \in 1..(L + 1)
                 PROVE  longer[i].n = E + i
    OBVIOUS
  <2>2. CASE i \in 1..L
    BY <1>1, <1>6, <2>2
  <2>3. CASE i = L + 1
    <3>1. longer[i].n = k + 1
      BY <1>1, <2>3
    <3>2. E + (L + 1) = k + 1
      BY <1>1, <1>2
    <3>. QED  BY <2>3, <3>1, <3>2
  <2>. QED  BY <1>1, <2>2, <2>3
<1>9. qu.pack.cmds # 0 => Rebuilds(longer, new.last.remaining, new.pack)
  BY <1>3, <1>6 DEF Rebuilds, n
<1>10. Base(new) = Base(qu) /\ (Heard(new, r) <=> Heard(qu, r))
  BY DEF Base, Heard
<1>11. InStep(new, k + 1, r, d)
  <2>1. \A i \in 1..Len(new.entries) : new.entries[i].n = Ended(new, k + 1) + i
    BY <1>1, <1>5, <1>7, <1>8
  <2>2. IF new.pack.cmds = 0 THEN new.serial = r
        ELSE new.serial > 0 /\ Rebuilds(new.entries, new.last.remaining, new.pack)
    BY <1>5, <1>9 DEF Joint, InStep
  <2>3. /\ new.last.seq = NumberOf(Base(new))
        /\ \A m \in 1..Ended(new, k + 1) : d[m] = <<"ACK_RECEIVED">>
    BY <1>7, <1>10 DEF Joint, InStep, E
  <2>. QED  BY <2>1, <2>2, <2>3 DEF InStep
<1>12. Follows(new, k + 1, r, part, s)
  <2>1. Follows(qu, k, r, part, s)
    BY DEF Joint
  <2>2. CASE Heard(qu, r)
    <3>1. Len(s) = E + n /\ part = AtHead(Remainder(es, n), qu.pack.remaining)
      BY <2>1, <2>2 DEF Follows, E, n
    <3>. QED  BY <1>3, <1>5, <1>7, <1>10, <2>2, <3>1 DEF Follows, n
  <2>3. CASE ~Heard(qu, r)
    <3>1. Len(s) = E /\ part = AtHead(es, qu.last.remaining)
      BY <2>1, <2>3 DEF Follows, E
    <3>. QED  BY <1>3, <1>5, <1>7, <1>10, <2>3, <3>1 DEF Follows
  <2>. QED  BY <2>2, <2>3
<1>13. Carries(data1, new, r) /\ Recent(acks1, new)
  BY <1>10 DEF Joint, Carries, Recent
<1>. QED  BY <1>7, <1>11, <1>12, <1>13 DEF Joint, E

LEMMA SendChan ==
  ASSUME Alone, ChanInv, NEW bt \in BufferTypes, NEW size \in Sizes, Send(bt, size)
  PROVE  ChanInv' /\ ChanStep
<1>. DEFINE n == sent + 1
            c == [n |-> n, size |-> size]
            qu == tx[1]
            new == [qu EXCEPT !.entries = Append(qu.entries, c)]
            t == [tx EXCEPT ![1] = new]
<1>1. IInv'
  BY SendIInv DEF ChanInv
<1>2. /\ Queues = {1} /\ 1 \in Queues /\ tx \in [Queues -> Queue] /\ qu \in Queue
      /\ sent \in Nat /\ sent \in 0..MaxCmds /\ done \in DoneType /\ Listed(tx, sent)
      /\ Sane(1, qu, up) /\ MaxCmds \in Nat
  BY ChanTypes
<1>3. /\ up /\ up' = up /\ sent < MaxCmds /\ sent' = n /\ acks' = acks /\ UNCHANGED receiver
      /\ CheckTxQueues(t, {}) /\ Fits(1, size)
  <2>1. PICK q \in Queues :
          /\ Fits(q, size)
          /\ CheckTxQueues([tx EXCEPT ![q].entries = Append(tx[q].entries, c)], {})
    BY DEF Send
  <2>2. q = 1
    BY <1>2
  <2>. QED  BY <2>1, <2>2 DEF Send
<1>4. c \in Command /\ c.n = n /\ c.size = size /\ n \in Nat
  <2>1. n \in Cmds
    BY <1>2, <1>3 DEF Cmds
  <2>. QED  BY <1>2, <2>1 DEF Command
<1>. HIDE DEF c
<1>5. qu.entries \in Seq(Command) /\ Append(qu.entries, c) \in Seq(Command)
  BY <1>2, <1>4, QueueType
<1>6. /\ new \in Queue /\ new.entries = Append(qu.entries, c) /\ new.seq = qu.seq
      /\ new.pack = qu.pack /\ new.last = qu.last /\ new.txAge = qu.txAge
      /\ new.serial = qu.serial
  BY <1>2, <1>5 DEF Queue
<1>7. t \in [Queues -> Queue] /\ t[1] = new /\ \A p \in Queues : p # 1 => t[p] = tx[p]
  BY <1>2, <1>6
<1>. HIDE DEF new, t
<1>8. Distinct(t[1].entries)
  <2>1. t[1].entries = Append(tx[1].entries, c) /\ c.n = sent + 1
    BY <1>4, <1>6, <1>7
  <2>2. Listed(t, sent + 1)
    BY <1>2, <1>4, <1>7, <2>1, AppendListed
  <2>. QED  BY <1>2, <2>2 DEF Listed, Separate
<1>9. Sane(1, t[1], up) /\ Covered(qu)
  <2>1. Sane(1, new, up)
    BY <1>2, <1>3, <1>4, <1>6, AppendSane
  <2>. QED  BY <1>2, <1>3, <1>7, <2>1 DEF Sane
<1>10. Notify(done, {}) = done /\ {} \in SUBSET NoteType
  BY <1>2, NotifyNone
<1>11. /\ Common(qu, data[1], acks[1], sent, rserial[1], recv[1], delivered[1])
       /\ Joint(qu, data[1], acks[1], sent, rserial[1], partial[1], delivered[1], done)
  BY <1>3 DEF ChanInv
<1>. HIDE DEF qu
<1>12. Common(new, data[1], acks[1], n, rserial[1], recv[1], delivered[1])
  <2>1. InOrder(delivered[1], n)
    <3>1. Len(delivered[1]) \in Nat
      BY ChanTypes
    <3>. QED  BY <1>2, <1>11, <3>1 DEF Common, InOrder
  <2>. QED  BY <1>6, <1>11, <2>1 DEF Common, Numbered, Travelling
<1>13. Joint(new, data[1], acks[1], n, rserial[1], partial[1], delivered[1], done)
  BY <1>2, <1>4, <1>6, <1>9, <1>11, AppendKeeps
<1>14. ChanInv' /\ done' = Notify(done, {})
  BY <1>1, <1>3, <1>4, <1>7, <1>8, <1>9, <1>10, <1>12, <1>13, ChanCheck
<1>15. Channel!Submit
  BY <1>3, <1>10, <1>14 DEF Channel!Submit, receiver
<1>. QED  BY <1>14, <1>15 DEF ChanStep, Channel!Next

(***************************************************************************)
(* The receiver                                                            *)
(***************************************************************************)

(* The pack of a queue that is in step completes the commands that follow  *)
(* those that ended.                                                       *)
LEMMA RebuildsWhole ==
  ASSUME NEW qu \in Queue, Covered(qu), NEW k \in Nat, NEW r, NEW d,
         InStep(qu, k, r, d), qu.pack.cmds # 0
  PROVE  /\ Whole(AtHead(qu.entries, qu.last.remaining), qu.pack.bytes, Ended(qu, k), k)
         /\ Ended(qu, k) + Ends(qu.pack) <= k /\ Ends(qu.pack) \in Nat /\ Ended(qu, k) \in Int
<1>. DEFINE es == qu.entries
            L == Len(es)
            n == Ends(qu.pack)
            E == Ended(qu, k)
            names == Names(es, n)
            left == AtHead(Remainder(es, n), qu.pack.remaining)
            st == Unpack(AtHead(es, qu.last.remaining), qu.pack.bytes)
<1>1. /\ es \in Seq(Command) /\ L \in Nat /\ n \in 0..L /\ n \in Nat
      /\ \A i \in 1..L : es[i].n = E + i
      /\ E = k - L
  <2>1. es \in Seq(Command) /\ L \in Nat
    BY QueueType
  <2>2. n \in 0..L
    BY EndsAre
  <2>3. n \in Nat
    <3>. HIDE DEF n, L
    <3>. QED  BY <2>1, <2>2
  <2>4. \A i \in 1..L : es[i].n = E + i
    BY DEF InStep
  <2>5. E = k - L
    BY DEF Ended
  <2>. QED  BY <2>1, <2>2, <2>3, <2>4, <2>5
<1>2. Len(names) = n /\ \A i \in 1..n : names[i] = es[i].n
  BY <1>1, NamesAre
<1>3. st = Halted(left, names)
  BY DEF InStep, Rebuilds
<1>4. st.out = names
  BY <1>3 DEF Halted
<1>. HIDE DEF L, n, E, names, st
<1>5. E + n <= k /\ E \in Int
  BY <1>1
<1>6. \A i \in 1..n : i \in 1..L
  BY <1>1
<1>7. \A i \in 1..n : names[i] = E + i
  BY <1>1, <1>2, <1>6
<1>8. E + Len(names) <= k /\ \A i \in 1..Len(names) : names[i] = E + i
  BY <1>2, <1>5, <1>7
<1>9. Whole(AtHead(es, qu.last.remaining), qu.pack.bytes, E, k)
  BY <1>4, <1>8 DEF Whole, st
<1>. QED  BY <1>1, <1>5, <1>9 DEF n, E

LEMMA InOrderMore ==
  ASSUME NEW s \in Seq(Word), NEW out \in Seq(Word), NEW k \in Nat, InOrder(s, k),
         Len(s) + Len(out) <= k, \A i \in 1..Len(out) : out[i] = Len(s) + i
  PROVE  InOrder(s \o out, k) /\ Len(s \o out) = Len(s) + Len(out)
<1>. DEFINE m == Len(s)
            n == Len(out)
            z == s \o out
<1>1. m \in Nat /\ n \in Nat
  BY LenProperties
<1>2. /\ Len(z) = m + n
      /\ \A i \in 1..(m + n) : z[i] = IF i <= m THEN s[i] ELSE out[i - m]
  BY ConcatProperties
<1>3. /\ \A i \in 1..m : s[i] = i
      /\ \A i \in 1..n : out[i] = m + i
      /\ m + n <= k
  BY DEF InOrder
<1>. HIDE DEF m, n, z
<1>4. ASSUME NEW i \in 1..(m + n)
      PROVE  z[i] = i
  <2>1. CASE i <= m
    <3>1. i \in 1..m
      BY <1>1, <2>1
    <3>. QED  BY <1>2, <1>3, <2>1, <3>1
  <2>2. CASE ~(i <= m)
    <3>1. i - m \in 1..n /\ m + (i - m) = i
      BY <1>1, <2>2
    <3>. QED  BY <1>2, <1>3, <2>2, <3>1
  <2>. QED  BY <2>1, <2>2
<1>5. InOrder(z, k)
  BY <1>2, <1>3, <1>4 DEF InOrder
<1>. QED  BY <1>2, <1>5 DEF m, n, z

LEMMA DeliverStep ==
  ASSUME Alone, ChanInv, UNCHANGED <<up, sent, done>>, NEW n \in Nat,
         Len(delivered'[1]) = Len(delivered[1]) + n, Len(delivered[1]) + n <= sent
  PROVE  ChanStep
<1>. DEFINE m == Len(delivered[1])
            new == Len(delivered'[1])
<1>1. m \in Nat /\ sent \in Nat /\ sent \in 0..MaxCmds /\ MaxCmds \in Nat
  BY ChanTypes
<1>2. new = m + n /\ m + n <= sent
  OBVIOUS
<1>3. CASE n = 0
  <2>1. Len(delivered'[1]) = Len(delivered[1])
    <3>1. new = m
      <4>. HIDE DEF new, m
      <4>. QED  BY <1>1, <1>2, <1>3
    <3>. QED  BY <3>1
  <2>2. UNCHANGED Channel!chanVars
    BY <2>1 DEF Channel!chanVars
  <2>. QED  BY <2>2 DEF ChanStep
<1>4. CASE n # 0
  <2>1. new \in Channel!Cmds /\ m < new /\ new <= sent
    <3>. HIDE DEF new, m
    <3>. QED  BY <1>1, <1>2, <1>4 DEF Channel!Cmds
  <2>2. Channel!Deliver
    BY <2>1 DEF Channel!Deliver
  <2>. QED  BY <2>2 DEF ChanStep, Channel!Next
<1>. QED  BY <1>3, <1>4

(* The oldest pack in the network is the last received or the next; the    *)
(* acknowledgement it gets goes behind the others.                         *)
LEMMA Arriving ==
  ASSUME Alone, ChanInv, NEW q \in Queues, NEW copy \in BOOLEAN, RecvData(q, copy)
  PROVE  LET f == Head(data[1])
             r == rserial[1]
         IN  /\ q = 1 /\ f \in Datagram /\ f = data[1][1] /\ 1 \in 1..Len(data[1])
             /\ f.serial \in Nat /\ f.seq = NumberOf(f.serial)
             /\ f.serial = r \/ f.serial = r + 1
             /\ f.serial <= tx[1].serial
             /\ \A i \in 1..Len(data[1]) : f.serial <= data[1][i].serial
             /\ Fewer(data'[1], data[1])
             /\ Returning(acks'[1], f.serial)
             /\ up => Recent(acks'[1], tx[1])
<1>. DEFINE f == Head(data[1])
            r == rserial[1]
            c == data[1]
            none == <<>>
            g == [f EXCEPT !.bytes = none]
            a == acks[1]
<1>1. /\ q = 1 /\ c \in Seq(Datagram) /\ a \in Seq(Datagram) /\ r \in Nat
      /\ tx[1] \in Queue /\ tx[1].serial \in Nat /\ WithAck(1) /\ 1 \in Queues
      /\ data \in [Queues -> Seq(Datagram)] /\ acks \in [Queues -> Seq(Datagram)]
  BY ChanTypes
<1>2. c # <<>> /\ data'[1] = Taken(c, copy) /\ acks'[1] = Put(a, <<g>>)
  BY <1>1 DEF RecvData
<1>3. f = c[1] /\ 1 \in 1..Len(c) /\ f \in Datagram /\ Fewer(data'[1], c)
  BY <1>1, <1>2, TakenFewer, TakenType
<1>4. f.serial \in Nat /\ f.seq \in 0..(SeqSize - 1)
  BY <1>3 DEF Datagram
<1>5. /\ Numbered(tx[1], r) /\ Travelling(c, tx[1], r) /\ Returning(a, r)
  BY DEF ChanInv, Common
<1>6. none \in Seq(Byte)
  OBVIOUS
<1>. HIDE DEF f, none, r, c, a
<1>7. g \in Datagram /\ g.serial = f.serial /\ g.seq = f.seq
  BY <1>3, <1>6 DEF Datagram
<1>. HIDE DEF g
<1>8. /\ r <= f.serial /\ f.serial <= tx[1].serial /\ f.seq = NumberOf(f.serial)
      /\ tx[1].serial <= r + 1
  BY <1>3, <1>5 DEF Travelling, Numbered
<1>9. f.serial = r \/ f.serial = r + 1
  BY <1>1, <1>4, <1>8
<1>10. \A i \in 1..Len(c) : f.serial <= c[i].serial
  <2>1. SUFFICES ASSUME NEW i \in 1..Len(c)
                 PROVE  f.serial <= c[i].serial
    OBVIOUS
  <2>2. i = 1 \/ 1 < i
    BY <1>1, LenProperties
  <2>. QED  BY <1>3, <1>4, <1>5, <2>2 DEF Travelling, Steady
<1>11. Put(a, <<g>>) \in Seq(Datagram) /\ Grown(Put(a, <<g>>), a, g)
  <2>1. <<g>> \in Seq(Datagram)
    BY <1>7
  <2>. QED  BY <1>1, <1>7, <2>1, PutIs, PutType
<1>. DEFINE p == Put(a, <<g>>)
<1>. HIDE DEF p
<1>12. p \in Seq(Datagram) /\ Grown(p, a, g) /\ acks'[1] = p
  BY <1>2, <1>11 DEF p
<1>13. \A i \in 1..Len(a) : a[i].serial \in Nat /\ a[i].serial <= r
                           /\ a[i].seq = NumberOf(a[i].serial)
  <2>1. \A i \in 1..Len(a) : a[i] \in Datagram
    BY <1>1
  <2>. QED  BY <1>5, <2>1 DEF Returning, Datagram
<1>14. \A i \in 1..Len(a) : a[i].serial <= f.serial
  BY <1>1, <1>4, <1>8, <1>13
<1>15. Returning(p, f.serial)
  <2>1. Steady(p)
    BY <1>1, <1>5, <1>7, <1>12, <1>14, GrownSteady DEF Returning
  <2>2. ASSUME NEW i \in 1..Len(p)
        PROVE  p[i].serial <= f.serial /\ p[i].seq = NumberOf(p[i].serial)
    <3>1. CASE p[i] = g
      BY <1>4, <1>7, <1>8, <3>1
    <3>2. CASE i \in 1..Len(a) /\ p[i] = a[i]
      BY <1>13, <1>14, <3>2
    <3>. QED  BY <1>12, <3>1, <3>2 DEF Grown
  <2>. QED  BY <2>1, <2>2 DEF Returning
<1>16. ASSUME up
       PROVE  Recent(p, tx[1])
  <2>1. Recent(a, tx[1]) /\ (tx[1].pack.cmds = 0 => tx[1].serial = r)
    BY <1>16 DEF ChanInv, Joint, InStep, a, r
  <2>2. Base(tx[1]) <= f.serial
    <3>1. CASE tx[1].pack.cmds = 0
      BY <1>8, <2>1, <3>1 DEF Base
    <3>2. CASE tx[1].pack.cmds # 0
      <4>1. tx[1].serial - 1 <= f.serial
        BY <1>1, <1>4, <1>8
      <4>. QED  BY <3>2, <4>1 DEF Base
    <3>. QED  BY <3>1, <3>2
  <2>3. ASSUME NEW i \in 1..Len(p)
        PROVE  Base(tx[1]) <= p[i].serial
    <3>1. CASE p[i] = g
      BY <1>7, <2>2, <3>1
    <3>2. CASE i \in 1..Len(a) /\ p[i] = a[i]
      BY <2>1, <3>2 DEF Recent
    <3>. QED  BY <1>12, <3>1, <3>2 DEF Grown
  <2>. QED  BY <2>3 DEF Recent
<1>. QED  BY <1>1, <1>3, <1>4, <1>8, <1>9, <1>10, <1>12, <1>15, <1>16 DEF f, r, c

(* The next pack, taken up, completes the commands it says.                *)
LEMMA Completes ==
  ASSUME Alone, ChanInv, NEW f \in Datagram, f.serial = rserial[1] + 1,
         f.serial <= tx[1].serial, NEW i \in 1..Len(data[1]), f = data[1][i]
  PROVE  /\ Whole(partial[1], f.bytes, Len(delivered[1]), sent)
         /\ up => /\ tx[1].pack.cmds # 0 /\ tx[1].serial = f.serial
                  /\ f.bytes = tx[1].pack.bytes
                  /\ ~Heard(tx[1], rserial[1])
                  /\ partial[1] = AtHead(tx[1].entries, tx[1].last.remaining)
                  /\ Len(delivered[1]) = Ended(tx[1], sent)
<1>. DEFINE qu == tx[1]
            r == rserial[1]
<1>1. /\ qu \in Queue /\ qu.serial \in Nat /\ r \in Nat /\ sent \in Nat /\ up \in BOOLEAN
      /\ Sane(1, qu, up) /\ data[1] \in Seq(Datagram)
  BY ChanTypes
<1>2. f.serial \in Nat
  BY DEF Datagram
<1>3. Numbered(qu, r)
  BY DEF ChanInv, Common
<1>4. CASE ~up
  BY <1>4 DEF ChanInv, Late
<1>5. CASE up
  <2>1. Joint(qu, data[1], acks[1], sent, r, partial[1], delivered[1], done)
    BY <1>5 DEF ChanInv
  <2>. HIDE DEF qu, r
  <2>2. qu.serial = r + 1 /\ f.serial = r + 1 /\ qu.serial # r
    BY <1>1, <1>2, <1>3 DEF Numbered, qu, r
  <2>3. qu.pack.cmds # 0
    BY <2>1, <2>2 DEF Joint, InStep
  <2>4. ~Heard(qu, r)
    BY <2>2 DEF Heard
  <2>5. partial[1] = AtHead(qu.entries, qu.last.remaining) /\ Len(delivered[1]) = Ended(qu, sent)
    BY <2>1, <2>4 DEF Joint, Follows
  <2>6. f.bytes = qu.pack.bytes
    BY <2>1, <2>2 DEF Joint, Carries
  <2>7. Covered(qu)
    BY <1>1, <1>5 DEF Sane
  <2>8. InStep(qu, sent, r, done)
    BY <2>1 DEF Joint
  <2>9. Whole(AtHead(qu.entries, qu.last.remaining), qu.pack.bytes, Ended(qu, sent), sent)
    BY <1>1, <2>3, <2>7, <2>8, RebuildsWhole
  <2>10. Whole(partial[1], f.bytes, Len(delivered[1]), sent)
    BY <2>5, <2>6, <2>9
  <2>. QED  BY <2>2, <2>3, <2>4, <2>5, <2>6, <2>10 DEF qu, r
<1>. QED  BY <1>1, <1>4, <1>5

(* A pack received again is not unpacked; the next one is.                 *)
LEMMA AgainChan ==
  ASSUME Alone, ChanInv, NEW q \in Queues, NEW copy \in BOOLEAN, RecvData(q, copy),
         Head(data[1]).serial = rserial[1]
  PROVE  ChanInv' /\ ChanStep
<1>. DEFINE f == Head(data[1])
            r == rserial[1]
<1>1. IInv'
  BY RecvDataIInv DEF ChanInv
<1>2. /\ q = 1 /\ f.serial \in Nat /\ f.seq = NumberOf(f.serial)
      /\ Fewer(data'[1], data[1])
      /\ Returning(acks'[1], f.serial)
      /\ up => Recent(acks'[1], tx[1])
  BY Arriving
<1>3. f.serial = r /\ r \in Nat /\ recv[1] = NumberOf(r)
  BY ChanTypes DEF ChanInv, Common
<1>4. ~ShouldProcess(recv[1], f.seq)
  BY <1>2, <1>3, NumberNext
<1>5. UNCHANGED <<tx, up, sent, done, recv, partial, delivered, rserial>>
  BY <1>2, <1>4 DEF RecvData, receiver
<1>. HIDE DEF f
<1>6. /\ Travelling(data[1], tx[1], r) => Travelling(data'[1], tx[1], r)
      /\ Carries(data[1], tx[1], r) => Carries(data'[1], tx[1], r)
      /\ Late(data[1], r, partial[1], Len(delivered[1]), sent)
           => Late(data'[1], r, partial[1], Len(delivered[1]), sent)
  BY <1>2, FewerKeeps
<1>7. Common(tx[1], data'[1], acks'[1], sent, r, recv[1], delivered[1])
  BY <1>2, <1>3, <1>6 DEF ChanInv, Common
<1>8. up => Joint(tx[1], data'[1], acks'[1], sent, r, partial[1], delivered[1], done)
  BY <1>2, <1>6 DEF ChanInv, Joint
<1>9. ~up => Late(data'[1], r, partial[1], Len(delivered[1]), sent)
  BY <1>6 DEF ChanInv
<1>. QED  BY <1>1, <1>5, <1>7, <1>8, <1>9, ChanInvNext, ChanStutter

LEMMA FirstChan ==
  ASSUME Alone, ChanInv, NEW q \in Queues, NEW copy \in BOOLEAN, RecvData(q, copy),
         Head(data[1]).serial = rserial[1] + 1
  PROVE  ChanInv' /\ ChanStep
<1>. DEFINE f == Head(data[1])
            qu == tx[1]
            r == rserial[1]
            next == rserial[1] + 1
            s == delivered[1]
            st == Unpack(partial[1], f.bytes)
<1>1. IInv'
  BY RecvDataIInv DEF ChanInv
<1>2. /\ q = 1 /\ f \in Datagram /\ f.serial \in Nat /\ f.seq = NumberOf(f.serial)
      /\ f = data[1][1] /\ 1 \in 1..Len(data[1]) /\ f.serial <= qu.serial
      /\ \A i \in 1..Len(data[1]) : f.serial <= data[1][i].serial
      /\ Fewer(data'[1], data[1])
      /\ Returning(acks'[1], f.serial)
      /\ up => Recent(acks'[1], qu)
  BY Arriving
<1>3. /\ r \in Nat /\ next \in Nat /\ sent \in Nat /\ s \in Seq(Word) /\ up \in BOOLEAN
      /\ partial[1] \in Partial /\ qu \in Queue /\ qu.serial \in Nat
      /\ WithAck(1) /\ 1 \in Queues /\ data[1] \in Seq(Datagram)
      /\ recv \in [Queues -> 0..(SeqSize - 1)] /\ rserial \in [Queues -> Nat]
      /\ partial \in [Queues -> Partial] /\ delivered \in [Queues -> Seq(Word)]
      /\ Sane(1, qu, up)
  BY ChanTypes
<1>4. f.serial = next /\ recv[1] = NumberOf(r)
  BY DEF ChanInv, Common
<1>5. ShouldProcess(recv[1], f.seq)
  BY <1>2, <1>3, <1>4, NumberNext
<1>6. /\ recv'[1] = f.seq /\ rserial'[1] = f.serial /\ partial'[1] = Kept(1, st)
      /\ delivered'[1] = s \o st.out
      /\ UNCHANGED <<tx, up, sent, done>>
  BY <1>2, <1>3, <1>5 DEF RecvData
<1>7. st \in Unpacking
  <2>1. f.bytes \in Seq(Byte)
    BY <1>2 DEF Datagram
  <2>. QED  BY <1>3, <2>1, UnpackType
<1>8. st.out \in Seq(Word)
  BY <1>7 DEF Unpacking, Word
<1>9. /\ Whole(partial[1], f.bytes, Len(s), sent)
      /\ up => /\ qu.pack.cmds # 0 /\ qu.serial = f.serial
               /\ f.bytes = qu.pack.bytes /\ ~Heard(qu, r)
               /\ partial[1] = AtHead(qu.entries, qu.last.remaining)
               /\ Len(s) = Ended(qu, sent)
  BY <1>2, <1>4, Completes
<1>10. Len(s) + Len(st.out) <= sent /\ \A i \in 1..Len(st.out) : st.out[i] = Len(s) + i
  BY <1>9 DEF Whole
<1>11. InOrder(s, sent) /\ Numbered(qu, r) /\ Travelling(data[1], qu, r)
  BY DEF ChanInv, Common
<1>. HIDE DEF f, s, st, qu
<1>12. InOrder(s \o st.out, sent) /\ Len(s \o st.out) = Len(s) + Len(st.out)
  BY <1>3, <1>8, <1>10, <1>11, InOrderMore
<1>13. ChanStep
  <2>1. Len(st.out) \in Nat
    BY <1>8, LenProperties
  <2>. QED  BY <1>6, <1>10, <1>12, <2>1, DeliverStep DEF s
<1>14. \A i \in 1..Len(data'[1]) : \E j \in 1..Len(data[1]) : data'[1][i] = data[1][j]
  BY <1>2 DEF Fewer
<1>15. \A i \in 1..Len(data[1]) : /\ data[1][i].serial \in Nat
                                  /\ next <= data[1][i].serial
                                  /\ data[1][i].serial # next + 1
                                  /\ data[1][i].serial <= qu.serial
                                  /\ data[1][i].seq = NumberOf(data[1][i].serial)
  <2>1. ASSUME NEW i \in 1..Len(data[1])
        PROVE  /\ data[1][i].serial \in Nat /\ next <= data[1][i].serial
               /\ data[1][i].serial <= qu.serial
               /\ data[1][i].seq = NumberOf(data[1][i].serial)
    <3>1. data[1][i] \in Datagram
      BY <1>3
    <3>. QED  BY <1>2, <1>4, <1>11, <3>1 DEF Datagram, Travelling
  <2>2. qu.serial <= next /\ next + 1 > next
    BY <1>3, <1>11 DEF Numbered
  <2>3. ASSUME NEW i \in 1..Len(data[1])
        PROVE  data[1][i].serial # next + 1
    <3>. HIDE DEF next
    <3>. QED  BY <1>3, <2>1, <2>2
  <2>. QED  BY <2>1, <2>3
<1>16. Common(qu, data'[1], acks'[1], sent, next, NumberOf(next), s \o st.out)
  <2>1. Numbered(qu, next)
    BY <1>2, <1>3, <1>4, <1>11 DEF Numbered
  <2>2. Travelling(data'[1], qu, next)
    <3>1. Steady(data'[1])
      BY <1>2, <1>11 DEF Fewer, Travelling
    <3>. QED  BY <1>14, <1>15, <3>1 DEF Travelling
  <2>. QED  BY <1>2, <1>4, <1>12, <2>1, <2>2 DEF Common
<1>17. ASSUME up
       PROVE  Joint(qu, data'[1], acks'[1], sent, next, partial'[1], s \o st.out, done)
  <2>. DEFINE es == qu.entries
              n == Ends(qu.pack)
              left == AtHead(Remainder(es, n), qu.pack.remaining)
              names == Names(es, n)
  <2>1. /\ Joint(qu, data[1], acks[1], sent, r, partial[1], s, done)
        /\ Covered(qu) /\ qu.pack.cmds # 0
    BY <1>3, <1>9, <1>17 DEF ChanInv, Sane, qu, s
  <2>2. InStep(qu, sent, r, done)
    BY <2>1 DEF Joint
  <2>3. InStep(qu, sent, next, done)
    BY <2>1, <2>2 DEF InStep
  <2>4. /\ n \in 0..Len(es) /\ es \in Seq(Command) /\ Len(names) = n
    <3>1. n \in 0..Len(es) /\ es \in Seq(Command)
      BY <1>3, <2>1, EndsAre, QueueType
    <3>. QED  BY <3>1, NamesAre
  <2>5. st = Halted(left, names)
    BY <1>9, <1>17, <2>1, <2>2 DEF InStep, Rebuilds, st
  <2>6. left \in Partial
    <3>1. Remainder(es, n) \in Seq(Command) /\ Left(Remainder(es, n), 1, qu.pack.remaining)
      <4>1. Covered(Acknowledged(qu)) /\ Acknowledged(qu).entries = Remainder(es, n)
            /\ Acknowledged(qu).last.remaining = qu.pack.remaining
        <5>1. SentWhole(qu) = n
          BY <1>3, <2>1, EndsAre
        <5>2. Acknowledged(qu).entries = Remainder(es, n)
          BY <1>3, <5>1 DEF Acknowledged, Remainder, Queue
        <5>3. Acknowledged(qu).last = [seq |-> qu.seq, remaining |-> qu.pack.remaining]
          BY <1>3 DEF Acknowledged, Queue
        <5>. QED  BY <1>3, <2>1, <5>2, <5>3, AcknowledgedIs
      <4>. QED  BY <2>4, <4>1, RemainderIs DEF Covered
    <3>2. qu.pack.remaining \in Nat
      BY <1>3, QueueType
    <3>. QED  BY <3>1, <3>2, AtHeadType
  <2>. HIDE DEF left, names
  <2>7. partial'[1] = left /\ st.out = names
    <3>1. st.need = left.need /\ st.got = left.got /\ ~st.lost /\ st.out = names
      BY <2>5 DEF Halted
    <3>2. Kept(1, st) = [need |-> left.need, got |-> left.got]
      BY <1>3, <3>1 DEF Kept
    <3>3. [need |-> left.need, got |-> left.got] = left
      BY <2>6 DEF Partial
    <3>. QED  BY <1>6, <3>1, <3>2, <3>3
  <2>8. Heard(qu, next)
    BY <1>4, <1>9, <1>17 DEF Heard
  <2>9. Follows(qu, sent, next, partial'[1], s \o st.out)
    <3>1. Len(s \o st.out) = Ended(qu, sent) + n
      BY <1>9, <1>12, <1>17, <2>4, <2>7
    <3>. QED  BY <2>7, <2>8, <3>1 DEF Follows, left
  <2>10. Carries(data'[1], qu, next)
    BY <1>14, <1>15 DEF Carries
  <2>. QED  BY <1>2, <1>17, <2>3, <2>9, <2>10 DEF Joint
<1>18. Late(data'[1], next, partial'[1], Len(s \o st.out), sent)
  BY <1>14, <1>15 DEF Late
<1>19. ChanInv'
  <2>1. rserial'[1] = next /\ recv'[1] = NumberOf(next) /\ delivered'[1] = s \o st.out
    BY <1>2, <1>4, <1>6
  <2>. HIDE DEF next
  <2>. QED  BY <1>1, <1>6, <1>16, <1>17, <1>18, <2>1, ChanInvNext DEF qu
<1>. QED  BY <1>13, <1>19

LEMMA RecvDataChan ==
  ASSUME Alone, ChanInv, NEW q \in Queues, NEW copy \in BOOLEAN, RecvData(q, copy)
  PROVE  ChanInv' /\ ChanStep
  BY Arriving, AgainChan, FirstChan

(***************************************************************************)
(* Acknowledgements                                                        *)
(***************************************************************************)

(* One taken for the pack's is that of the pack, which was received: the   *)
(* numbers in the network are that of the pack and the last acknowledged.  *)
LEMMA AckIsPacks ==
  ASSUME Alone, ChanInv, up, acks[1] # <<>>, Acknowledges(Head(acks[1]), tx[1])
  PROVE  /\ Heard(tx[1], rserial[1]) /\ tx[1].serial = rserial[1]
         /\ Head(acks[1]).serial = rserial[1]
         /\ \A i \in 1..Len(acks[1]) : rserial[1] <= acks[1][i].serial
<1>. DEFINE a == Head(acks[1])
            c == acks[1]
            qu == tx[1]
            r == rserial[1]
<1>1. /\ qu.serial \in Nat /\ r \in Nat /\ c \in Seq(Datagram)
  BY ChanTypes
<1>2. a = c[1] /\ 1 \in 1..Len(c) /\ Len(c) \in Nat
  BY <1>1, TakenFewer
<1>3. /\ Numbered(qu, r) /\ Returning(c, r) /\ Recent(c, qu) /\ InStep(qu, sent, r, done)
  BY DEF ChanInv, Common, Joint
<1>4. a.seq # qu.last.seq
  BY DEF Acknowledges
<1>. HIDE DEF a, c, qu, r
<1>5. a.serial \in Nat
  <2>1. a \in Datagram
    BY <1>1, <1>2
  <2>. QED  BY <2>1 DEF Datagram
<1>6. /\ Base(qu) <= a.serial /\ a.serial <= r /\ a.seq = NumberOf(a.serial)
  BY <1>2, <1>3 DEF Returning, Recent
<1>7. qu.last.seq = NumberOf(Base(qu)) /\ (qu.pack.cmds = 0 => qu.serial = r)
  BY <1>3 DEF InStep
<1>8. a.serial # Base(qu)
  BY <1>4, <1>6, <1>7
<1>9. qu.pack.cmds # 0
  <2>1. SUFFICES ASSUME qu.pack.cmds = 0
                 PROVE  FALSE
    OBVIOUS
  <2>2. Base(qu) = r
    BY <1>7, <2>1 DEF Base
  <2>. QED  BY <1>1, <1>5, <1>6, <1>8, <2>2
<1>10. Base(qu) = qu.serial - 1 /\ r <= qu.serial
  BY <1>3, <1>9 DEF Base, Numbered
<1>11. a.serial = r /\ qu.serial = r
  BY <1>1, <1>5, <1>6, <1>8, <1>10
<1>12. \A i \in 1..Len(c) : r <= c[i].serial
  <2>1. SUFFICES ASSUME NEW i \in 1..Len(c)
                 PROVE  r <= c[i].serial
    OBVIOUS
  <2>2. i = 1 \/ 1 < i
    BY <1>2
  <2>. QED  BY <1>1, <1>2, <1>3, <1>11, <2>2 DEF Returning, Steady
<1>. QED  BY <1>9, <1>11, <1>12 DEF Heard, a, c, qu, r

LEMMA NotifyAll ==
  ASSUME NEW cmds \in Seq(Command), NEW status \in FinalStatus, NEW d \in DoneType,
         NEW m \in Cmds
  PROVE  Notify(d, Notes(cmds, status))[m] =
            IF m \in NamesOf(cmds) THEN Append(d[m], status) ELSE d[m]
<1>. DEFINE notes == Notes(cmds, status)
            x == CHOOSE y \in notes : y.n = m
<1>1. NoteNames(notes) = NamesOf(cmds)
  BY NotesIs
<1>2. (\E y \in notes : y.n = m) <=> m \in NamesOf(cmds)
  BY <1>1 DEF NoteNames
<1>3. \A y \in notes : y.status = status
  BY DEF Notes, Note
<1>. HIDE DEF notes
<1>4. Notify(d, notes)[m] = IF \E y \in notes : y.n = m THEN Append(d[m], x.status) ELSE d[m]
  BY DEF Notify
<1>5. (\E y \in notes : y.n = m) => x.status = status
  BY <1>3
<1>. HIDE DEF x
<1>6. Notify(d, notes)[m] = IF m \in NamesOf(cmds) THEN Append(d[m], status) ELSE d[m]
  BY <1>2, <1>4, <1>5
<1>. QED  BY <1>6 DEF notes

(* Where the name of a command stands among the first i of the entries.    *)
LEMMA Standing ==
  ASSUME NEW es \in Seq(Command), NEW i \in 0..Len(es), NEW E \in Int,
         \A j \in 1..Len(es) : es[j].n = E + j, NEW m \in Cmds
  PROVE  /\ m \in NamesOf(SubSeq(es, 1, i)) <=> E < m /\ m <= E + i
         /\ E < m /\ m <= E + i => \E j \in 1..Len(es) : m = es[j].n
<1>. DEFINE head == SubSeq(es, 1, i)
            L == Len(es)
<1>1. /\ DOMAIN head = 1..i /\ \A j \in 1..i : head[j] = es[j]
      /\ L \in Nat /\ i \in 0..L /\ m \in Int
      /\ \A j \in 1..L : es[j].n = E + j
  BY SplitIs, CommandType DEF Cmds
<1>. HIDE DEF head, L
<1>2. \A j \in 1..i : j \in 1..L
  BY <1>1
<1>3. \A j \in 1..i : head[j].n = E + j /\ es[j].n = E + j
  BY <1>1, <1>2
<1>4. ASSUME m \in NamesOf(head)
      PROVE  E < m /\ m <= E + i
  <2>1. PICK j \in 1..i : m = head[j].n
    BY <1>1, <1>4 DEF NamesOf
  <2>2. m = E + j
    BY <1>3, <2>1
  <2>. QED  BY <1>1, <2>2
<1>5. ASSUME E < m, m <= E + i
      PROVE  m \in NamesOf(head) /\ \E j \in 1..L : m = es[j].n
  <2>1. m - E \in 1..i /\ E + (m - E) = m
    BY <1>1, <1>5
  <2>2. head[m - E].n = m /\ es[m - E].n = m /\ m - E \in 1..L
    BY <1>2, <1>3, <2>1
  <2>. QED  BY <1>1, <2>1, <2>2 DEF NamesOf
<1>. QED  BY <1>4, <1>5 DEF head, L

(* The queue once its pack was acknowledged.                               *)
LEMMA AckedKeeps ==
  ASSUME NEW qu \in Queue, Covered(qu), NEW c \in Seq(Datagram), NEW a, NEW b, NEW k \in Nat,
         NEW r \in Nat, NEW v, NEW part, NEW s, NEW d, NEW told,
         Common(qu, c, a, k, r, v, s), Joint(qu, c, a, k, r, part, s, d), Heard(qu, r),
         Returning(b, r), \A i \in 1..Len(b) : r <= b[i].serial,
         \A m \in 1..(Ended(qu, k) + Ends(qu.pack)) : told[m] = <<"ACK_RECEIVED">>
  PROVE  LET new == Acknowledged(qu)
         IN  /\ Common(new, c, b, k, r, v, s) /\ Joint(new, c, b, k, r, part, s, told)
             /\ Ended(new, k) = Ended(qu, k) + Ends(qu.pack)
<1>. DEFINE new == Acknowledged(qu)
            es == qu.entries
            L == Len(es)
            n == Ends(qu.pack)
            rest == Remainder(es, n)
            E == Ended(qu, k)
<1>1. /\ L \in Nat /\ n \in 0..L /\ SentWhole(qu) = n /\ es \in Seq(Command)
      /\ qu.serial \in Nat
  BY EndsAre, QueueType
<1>2. /\ Len(rest) = L - n /\ \A i \in 1..(L - n) : rest[i] = es[n + i]
  BY <1>1, RemainderIs
<1>3. /\ new.entries = rest /\ new.seq = qu.seq /\ new.serial = qu.serial
      /\ new.last = [seq |-> qu.seq, remaining |-> qu.pack.remaining]
  <2>1. new.entries = rest
    BY <1>1 DEF Acknowledged, Remainder, Queue
  <2>2. new.seq = qu.seq /\ new.serial = qu.serial
    BY DEF Acknowledged, Queue
  <2>3. new.last = [seq |-> qu.seq, remaining |-> qu.pack.remaining]
    BY DEF Acknowledged, Queue
  <2>. QED  BY <2>1, <2>2, <2>3
<1>4. new.pack.cmds = 0
  BY QueueType DEF Acknowledged, Queue, Pack
<1>5. E = k - L /\ Ended(new, k) = k - Len(rest)
  BY <1>3 DEF Ended
<1>6. qu.serial = r /\ qu.pack.cmds # 0
  BY DEF Heard
<1>7. /\ Numbered(qu, r) /\ Travelling(c, qu, r) /\ InStep(qu, k, r, d)
      /\ Follows(qu, k, r, part, s)
  BY DEF Common, Joint
<1>8. \A i \in 1..L : es[i].n = E + i
  BY <1>7 DEF InStep
<1>. HIDE DEF new, L, n, rest, E
<1>9. Ended(new, k) = E + n
  BY <1>1, <1>2, <1>5
<1>10. \A i \in 1..(L - n) : rest[i].n = (E + n) + i
  <2>1. \A i \in 1..(L - n) : n + i \in 1..L /\ E + (n + i) = (E + n) + i
    BY <1>1, <1>5
  <2>. QED  BY <1>2, <1>8, <2>1
<1>11. Base(new) = r
  BY <1>3, <1>4, <1>6 DEF Base
<1>12. Common(new, c, b, k, r, v, s)
  BY <1>3 DEF Common, Numbered, Travelling
<1>13. InStep(new, k, r, told)
  <2>1. \A i \in 1..Len(new.entries) : new.entries[i].n = Ended(new, k) + i
    BY <1>2, <1>3, <1>9, <1>10
  <2>2. new.last.seq = NumberOf(Base(new))
    BY <1>3, <1>6, <1>7, <1>11 DEF Numbered
  <2>3. \A m \in 1..Ended(new, k) : told[m] = <<"ACK_RECEIVED">>
    BY <1>9 DEF E, n
  <2>. QED  BY <1>3, <1>4, <1>6, <2>1, <2>2, <2>3 DEF InStep
<1>14. Follows(new, k, r, part, s)
  <2>1. Len(s) = E + n /\ part = AtHead(rest, qu.pack.remaining)
    BY <1>7 DEF Follows, E, n, rest
  <2>2. ~Heard(new, r) /\ new.last.remaining = qu.pack.remaining
    BY <1>3, <1>4 DEF Heard
  <2>. QED  BY <1>3, <1>9, <2>1, <2>2 DEF Follows
<1>15. Carries(c, new, r)
  <2>1. SUFFICES ASSUME NEW i \in 1..Len(c)
                 PROVE  c[i].serial # r + 1
    BY DEF Carries
  <2>2. c[i] \in Datagram
    OBVIOUS
  <2>3. c[i].serial \in Nat /\ c[i].serial <= r
    BY <1>6, <1>7, <2>2 DEF Travelling, Datagram
  <2>. QED  BY <2>3
<1>16. Recent(b, new)
  BY <1>11 DEF Recent
<1>. QED  BY <1>9, <1>12, <1>13, <1>14, <1>15, <1>16 DEF Joint, new, E, n

LEMMA AckedTold ==
  ASSUME Alone, ChanInv, up, Heard(tx[1], rserial[1])
  PROVE  LET qu    == tx[1]
             n     == Ends(qu.pack)
             E     == Ended(qu, sent)
             notes == Notes(SubSeq(qu.entries, 1, n), "ACK_RECEIVED")
             told  == Notify(done, notes)
         IN  /\ n \in 0..Len(qu.entries) /\ E \in Nat /\ E + n <= sent
             /\ Len(delivered[1]) = E + n
             /\ notes \in SUBSET NoteType
             /\ \A m \in Cmds : IF m <= E + n THEN told[m] = <<"ACK_RECEIVED">>
                                ELSE told[m] = done[m]
             /\ n = 0 => told = done
             /\ n # 0 => E + n \in Cmds /\ done[E + n] = <<>>
<1>. DEFINE qu == tx[1]
            es == qu.entries
            n == Ends(qu.pack)
            E == Ended(qu, sent)
            whole == SubSeq(es, 1, n)
            notes == Notes(whole, "ACK_RECEIVED")
            told == Notify(done, notes)
            L == Len(es)
<1>1. /\ qu \in Queue /\ sent \in Nat /\ sent \in 0..MaxCmds /\ MaxCmds \in Nat
      /\ done \in DoneType /\ Sane(1, qu, up) /\ Covered(qu)
  BY ChanTypes DEF Sane
<1>2. /\ es \in Seq(Command) /\ L \in Nat /\ n \in 0..L
  BY <1>1, EndsAre, QueueType
<1>3. /\ E \in Nat /\ \A m \in Cmds : m <= E => done[m] = <<"ACK_RECEIVED">>
      /\ \A i \in 1..L : done[es[i].n] = <<>>
  BY ChanDone
<1>4. /\ \A i \in 1..L : es[i].n = E + i
      /\ Len(delivered[1]) = E + n
  BY DEF ChanInv, Joint, InStep, Follows
<1>5. E = sent - L
  BY DEF Ended
<1>6. whole \in Seq(Command)
  BY <1>2, SplitIs
<1>7. notes \in SUBSET NoteType
  BY <1>6, NotesIs DEF FinalStatus
<1>. HIDE DEF qu, n, E, whole, L
<1>8. E + n <= sent
  BY <1>1, <1>2, <1>3, <1>5
<1>9. ASSUME NEW m \in Cmds
      PROVE  IF m <= E + n THEN told[m] = <<"ACK_RECEIVED">> ELSE told[m] = done[m]
  <2>1. told[m] = IF m \in NamesOf(whole) THEN Append(done[m], "ACK_RECEIVED") ELSE done[m]
    BY <1>1, <1>6, NotifyAll DEF FinalStatus
  <2>2. /\ m \in NamesOf(whole) <=> E < m /\ m <= E + n
        /\ E < m /\ m <= E + n => \E j \in 1..L : m = es[j].n
    <3>1. E \in Int
      BY <1>3
    <3>. QED  BY <1>2, <1>4, <3>1, Standing DEF whole, L
  <2>3. m \in Nat /\ n \in Nat
    BY <1>2 DEF Cmds
  <2>4. CASE m <= E
    <3>1. m <= E + n /\ ~(E < m)
      BY <1>3, <2>3, <2>4
    <3>. QED  BY <1>3, <2>1, <2>2, <2>4, <3>1
  <2>5. CASE E < m /\ m <= E + n
    <3>1. done[m] = <<>>
      BY <1>3, <2>2, <2>5
    <3>2. Append(<<>>, "ACK_RECEIVED") = <<"ACK_RECEIVED">>
      OBVIOUS
    <3>. HIDE DEF told
    <3>. QED  BY <2>1, <2>2, <2>5, <3>1, <3>2
  <2>6. CASE ~(m <= E + n)
    <3>. HIDE DEF told
    <3>. QED  BY <2>1, <2>2, <2>6
  <2>. QED  BY <1>3, <2>3, <2>4, <2>5, <2>6
<1>10. ASSUME n = 0
       PROVE  told = done
  <2>1. \A m \in Cmds : told[m] = done[m]
    <3>1. SUFFICES ASSUME NEW m \in Cmds
                   PROVE  told[m] = done[m]
      OBVIOUS
    <3>2. CASE m <= E
      <4>1. m <= E + n
        BY <1>3, <1>10, <3>2
      <4>. HIDE DEF told
      <4>. QED  BY <1>3, <1>9, <3>2, <4>1
    <3>3. CASE ~(m <= E)
      <4>1. ~(m <= E + n)
        BY <1>3, <1>10, <3>3
      <4>. HIDE DEF told
      <4>. QED  BY <1>9, <4>1
    <3>. QED  BY <3>2, <3>3
  <2>2. told \in DoneType
    BY <1>1, <1>7, NotifyIs
  <2>. HIDE DEF told
  <2>. QED  BY <1>1, <2>1, <2>2 DEF DoneType
<1>11. ASSUME n # 0
       PROVE  E + n \in Cmds /\ done[E + n] = <<>>
  <2>1. E + n \in 1..sent
    BY <1>1, <1>2, <1>3, <1>8, <1>11
  <2>2. E + n \in Cmds
    BY <1>1, <2>1 DEF Cmds
  <2>3. n \in 1..L
    BY <1>2, <1>11
  <2>4. done[es[n].n] = <<>> /\ es[n].n = E + n
    BY <1>3, <1>4, <2>3
  <2>. QED  BY <2>2, <2>4
<1>. HIDE DEF told, notes
<1>. QED  BY <1>2, <1>3, <1>4, <1>7, <1>8, <1>9, <1>10, <1>11
          DEF qu, n, E, whole, L, told, notes

(* What a verdict of the channel is.                                       *)
LEMMA Verdicts ==
  /\ (IF <<"ACK_RECEIVED">> = <<>> THEN "none" ELSE Head(<<"ACK_RECEIVED">>)) = "ACK_RECEIVED"
  /\ (IF <<"CANCELED">> = <<>> THEN "none" ELSE Head(<<"CANCELED">>)) = "CANCELED"
  OBVIOUS

LEMMA AckedStep ==
  ASSUME Alone, ChanInv, up, Heard(tx[1], rserial[1]),
         UNCHANGED <<up, sent, delivered>>,
         done' = Notify(done, Notes(SubSeq(tx[1].entries, 1, Ends(tx[1].pack)), "ACK_RECEIVED"))
  PROVE  ChanStep
<1>. DEFINE n == Ends(tx[1].pack)
            E == Ended(tx[1], sent)
            last == E + n
<1>1. /\ n \in 0..Len(tx[1].entries) /\ E \in Nat /\ Len(delivered[1]) = last
      /\ \A m \in Cmds : IF m <= last THEN done'[m] = <<"ACK_RECEIVED">>
                         ELSE done'[m] = done[m]
      /\ n = 0 => done' = done
      /\ n # 0 => last \in Cmds /\ done[last] = <<>>
  BY AckedTold
<1>. HIDE DEF n, last
<1>2. CASE n = 0
  BY <1>1, <1>2, ChanStutter
<1>3. CASE n # 0
  <2>1. last \in Channel!Cmds /\ last <= Len(delivered[1]) /\ done[last] = <<>>
    <3>1. last \in Int
      BY <1>1, <1>3 DEF Cmds
    <3>. QED  BY <1>1, <1>3, <3>1 DEF Channel!Cmds, Cmds
  <2>2. ASSUME NEW m \in Cmds
        PROVE  (IF done'[m] = <<>> THEN "none" ELSE Head(done'[m])) =
                  IF m <= last THEN "ACK_RECEIVED"
                  ELSE IF done[m] = <<>> THEN "none" ELSE Head(done[m])
    <3>1. CASE m <= last
      <4>1. done'[m] = <<"ACK_RECEIVED">>
        BY <1>1, <3>1
      <4>2. (IF done'[m] = <<>> THEN "none" ELSE Head(done'[m])) = "ACK_RECEIVED"
        BY <4>1, Verdicts
      <4>. QED  BY <3>1, <4>2
    <3>2. CASE ~(m <= last)
      <4>1. done'[m] = done[m]
        BY <1>1, <3>2
      <4>. QED  BY <3>2, <4>1
    <3>. QED  BY <3>1, <3>2
  <2>3. Channel!Cmds = Cmds
    BY DEF Channel!Cmds, Cmds
  <2>4. Channel!Acknowledge(last)
    BY <2>1, <2>2, <2>3 DEF Channel!Acknowledge
  <2>5. Channel!Next
    BY <2>1, <2>4 DEF Channel!Next, Channel!Acknowledge
  <2>. QED  BY <2>5 DEF ChanStep
<1>. QED  BY <1>2, <1>3

LEMMA RecvAckChan ==
  ASSUME Alone, ChanInv, NEW q \in Queues, NEW copy \in BOOLEAN, RecvAck(q, copy)
  PROVE  ChanInv' /\ ChanStep
<1>1. IInv'
  BY RecvAckIInv DEF ChanInv
<1>2. /\ q = 1 /\ 1 \in Queues /\ acks \in [Queues -> Seq(Datagram)]
      /\ acks[1] \in Seq(Datagram) /\ tx \in [Queues -> Queue] /\ tx[1] \in Queue
      /\ data[1] \in Seq(Datagram) /\ WithAck(1)
      /\ rserial[1] \in Nat /\ sent \in Nat /\ Sane(1, tx[1], up) /\ Distinct(tx[1].entries)
  BY ChanTypes
<1>3. acks[1] # <<>> /\ acks'[1] = Taken(acks[1], copy) /\ UNCHANGED <<up, sent, receiver>>
  BY <1>2 DEF RecvAck
<1>4. Fewer(acks'[1], acks[1])
  BY <1>2, <1>3, TakenFewer
<1>5. CASE ~up
  <2>1. tx' = tx /\ data' = data /\ done' = done
        /\ UNCHANGED <<recv, partial, delivered, rserial>>
    BY <1>3, <1>5 DEF RecvAck, receiver
  <2>2. Returning(acks[1], rserial[1]) => Returning(acks'[1], rserial[1])
    BY <1>4, FewerKeeps
  <2>3. Common(tx[1], data[1], acks'[1], sent, rserial[1], recv[1], delivered[1])
    BY <2>2 DEF ChanInv, Common
  <2>4. Late(data[1], rserial[1], partial[1], Len(delivered[1]), sent)
    BY <1>5 DEF ChanInv
  <2>. QED  BY <1>1, <1>3, <1>5, <2>1, <2>3, <2>4, ChanInvNext, ChanStutter
<1>6. CASE up /\ ~Acknowledges(Head(acks[1]), tx[1])
  <2>1. CheckTxQueues(tx, {})
    BY <1>2, <1>6 DEF RecvAck
  <2>. QED  BY <1>1, <1>3, <1>4, <2>1, QuietChan
<1>7. CASE up /\ Acknowledges(Head(acks[1]), tx[1])
  <2>. DEFINE qu == tx[1]
              new == Acknowledged(qu)
              t == [tx EXCEPT ![1] = new]
              n == Ends(qu.pack)
              E == Ended(qu, sent)
              notes == Notes(SubSeq(qu.entries, 1, n), "ACK_RECEIVED")
              told == Notify(done, notes)
  <2>1. Covered(qu) /\ SentWhole(qu) = n
    BY <1>2, <1>7, EndsAre DEF Sane
  <2>2. CheckTxQueues(t, notes)
    BY <1>2, <1>7, <2>1 DEF RecvAck
  <2>3. /\ new \in Queue /\ Covered(new)
        /\ new.pack.waiting = qu.pack.waiting /\ new.pack.age = qu.pack.age
        /\ new.txAge = qu.txAge /\ Distinct(new.entries)
    BY <1>2, <2>1, AcknowledgedIs DEF Accounts
  <2>4. t \in [Queues -> Queue] /\ t[1] = new
    BY <1>2, <2>3
  <2>5. /\ Heard(qu, rserial[1])
        /\ \A i \in 1..Len(acks[1]) : rserial[1] <= acks[1][i].serial
    BY <1>3, <1>7, AckIsPacks
  <2>6. /\ notes \in SUBSET NoteType /\ n \in 0..Len(qu.entries) /\ E \in Nat
        /\ E + n <= sent
        /\ \A m \in Cmds : m <= E + n => told[m] = <<"ACK_RECEIVED">>
    BY <1>7, <2>5, AckedTold
  <2>7. \A m \in 1..(E + n) : told[m] = <<"ACK_RECEIVED">>
    <3>1. sent \in 0..MaxCmds /\ MaxCmds \in Nat
      BY ChanTypes
    <3>. HIDE DEF n, E, told
    <3>2. \A m \in 1..(E + n) : m \in Cmds /\ m <= E + n
      BY <2>6, <3>1 DEF Cmds
    <3>. QED  BY <2>6, <3>2
  <2>8. Returning(acks'[1], rserial[1]) /\ \A i \in 1..Len(acks'[1]) : rserial[1] <= acks'[1][i].serial
    <3>1. Returning(acks[1], rserial[1])
      BY DEF ChanInv, Common
    <3>2. Returning(acks'[1], rserial[1])
      BY <1>4, <3>1, FewerKeeps
    <3>. QED  BY <1>4, <2>5, <3>2 DEF Fewer
  <2>9. /\ Common(qu, data[1], acks[1], sent, rserial[1], recv[1], delivered[1])
        /\ Joint(qu, data[1], acks[1], sent, rserial[1], partial[1], delivered[1], done)
    BY <1>7 DEF ChanInv
  <2>. HIDE DEF qu, told, n, E
  <2>10. /\ Common(new, data[1], acks'[1], sent, rserial[1], recv[1], delivered[1])
         /\ Joint(new, data[1], acks'[1], sent, rserial[1], partial[1], delivered[1], told)
    BY <1>2, <2>1, <2>5, <2>7, <2>8, <2>9, AckedKeeps DEF E, n, qu
  <2>. HIDE DEF new, t, notes
  <2>11. Sane(1, t[1], up) /\ Distinct(t[1].entries)
    BY <1>2, <1>7, <2>3, <2>4 DEF Sane, Uncut, qu
  <2>12. ChanInv' /\ done' = told
    <3>1. Common(t[1], data[1], acks'[1], sent', rserial[1], recv[1], delivered[1])
      BY <1>3, <2>4, <2>10
    <3>2. up => Joint(t[1], data[1], acks'[1], sent', rserial[1], partial[1], delivered[1],
                      Notify(done, notes))
      BY <1>3, <2>4, <2>10 DEF told
    <3>3. up' = up /\ sent' \in Nat /\ UNCHANGED receiver
      BY <1>2, <1>3
    <3>4. ~up => /\ t[1].entries = <<>>
                 /\ Late(data[1], rserial[1], partial[1], Len(delivered[1]), sent')
      BY <1>7
    <3>5. notes \in SUBSET NoteType
      BY <2>6
    <3>6. ChanInv' /\ done' = Notify(done, notes)
      BY <1>1, <2>2, <2>4, <2>11, <3>1, <3>2, <3>3, <3>4, <3>5, ChanCheck
    <3>. QED  BY <3>6 DEF told
  <2>13. done' = Notify(done, Notes(SubSeq(tx[1].entries, 1, Ends(tx[1].pack)), "ACK_RECEIVED"))
    BY <2>12 DEF told, notes, n, qu
  <2>14. ChanStep
    BY <1>3, <1>7, <2>5, <2>13, AckedStep DEF receiver, qu
  <2>. QED  BY <2>12, <2>14
<1>. QED  BY <1>5, <1>6, <1>7

(***************************************************************************)
(* The end                                                                 *)
(***************************************************************************)

LEMMA StopTold ==
  ASSUME Alone, ChanInv, up, NEW m \in Cmds
  PROVE  LET told == Notify(done, Notes(tx[1].entries, "CANCELED"))
         IN  IF m <= sent /\ done[m] = <<>> THEN told[m] = <<"CANCELED">>
             ELSE told[m] = done[m]
<1>. DEFINE es == tx[1].entries
            L == Len(es)
            E == Ended(tx[1], sent)
            told == Notify(done, Notes(es, "CANCELED"))
<1>1. /\ tx[1] \in Queue /\ sent \in Nat /\ done \in DoneType
  BY ChanTypes
<1>2. es \in Seq(Command) /\ L \in Nat /\ L \in 0..L
  BY <1>1, QueueType
<1>3. /\ E \in Nat /\ \A i \in Cmds : i <= E => done[i] = <<"ACK_RECEIVED">>
      /\ \A i \in 1..L : done[es[i].n] = <<>>
      /\ \A i \in Cmds : i > sent => done[i] = <<>>
  BY ChanDone
<1>4. \A i \in 1..L : es[i].n = E + i
  BY DEF ChanInv, Joint, InStep
<1>5. E = sent - L
  BY DEF Ended
<1>6. NamesOf(SubSeq(es, 1, L)) = NamesOf(es)
  <2>. DEFINE head == SubSeq(es, 1, L)
  <2>1. DOMAIN head = 1..L /\ (\A i \in 1..L : head[i] = es[i]) /\ DOMAIN es = 1..L
    BY <1>2, SplitIs, CommandType
  <2>. HIDE DEF head, L, es
  <2>2. NamesOf(head) = NamesOf(es)
    BY <2>1 DEF NamesOf
  <2>. QED  BY <2>2 DEF head
<1>7. told[m] = IF m \in NamesOf(es) THEN Append(done[m], "CANCELED") ELSE done[m]
  BY <1>1, <1>2, NotifyAll DEF FinalStatus
<1>8. /\ m \in NamesOf(es) <=> E < m /\ m <= E + L
      /\ E < m /\ m <= E + L => \E j \in 1..L : m = es[j].n
  <2>1. E \in Int
    BY <1>3
  <2>. QED  BY <1>2, <1>4, <1>6, <2>1, Standing
<1>. HIDE DEF told, E, L, es
<1>9. E + L = sent /\ m \in Nat
  BY <1>1, <1>2, <1>5 DEF Cmds
<1>10. CASE m <= E
  <2>1. ~(E < m) /\ done[m] = <<"ACK_RECEIVED">>
    BY <1>3, <1>9, <1>10
  <2>2. <<"ACK_RECEIVED">> # <<>>
    OBVIOUS
  <2>. QED  BY <1>7, <1>8, <2>1, <2>2 DEF told, es
<1>11. CASE E < m /\ m <= sent
  <2>1. done[m] = <<>> /\ m \in NamesOf(es)
    BY <1>3, <1>8, <1>9, <1>11
  <2>2. Append(<<>>, "CANCELED") = <<"CANCELED">>
    OBVIOUS
  <2>3. told[m] = <<"CANCELED">>
    BY <1>7, <2>1, <2>2
  <2>. QED  BY <1>11, <2>1, <2>3 DEF told, es
<1>12. CASE m > sent
  <2>1. ~(m <= sent) /\ m \notin NamesOf(es)
    BY <1>1, <1>8, <1>9, <1>12
  <2>2. told[m] = done[m]
    BY <1>7, <2>1
  <2>. QED  BY <2>1, <2>2 DEF told, es
<1>. QED  BY <1>1, <1>3, <1>9, <1>10, <1>11, <1>12

LEMMA StopChan ==
  ASSUME Alone, ChanInv, Stop
  PROVE  ChanInv' /\ ChanStep
<1>. DEFINE qu == tx[1]
            none == <<>>
            empty == [qu EXCEPT !.entries = none]
            notes == Notes(qu.entries, "CANCELED")
            told == Notify(done, notes)
<1>1. IInv'
  BY StopIInv DEF ChanInv
<1>2. /\ Queues = {1} /\ 1 \in Queues /\ qu \in Queue /\ data[1] \in Seq(Datagram)
  BY ChanTypes
<1>3. /\ up /\ ~up' /\ up' = FALSE /\ tx'[1] = empty /\ sent' = sent /\ data' = data
      /\ acks' = acks
      /\ UNCHANGED <<recv, partial, delivered, rserial>>
  <2>1. tx'[1] = empty
    BY <1>2 DEF Stop
  <2>. QED  BY <2>1 DEF Stop, receiver
<1>4. done' = told
  <2>1. done' = Notify(done, UNION {Notes(tx[q].entries, "CANCELED") : q \in Queues})
    BY DEF Stop
  <2>2. UNION {Notes(tx[q].entries, "CANCELED") : q \in Queues} = notes
    BY <1>2
  <2>. HIDE DEF notes
  <2>. QED  BY <2>1, <2>2
<1>5. empty.serial = qu.serial /\ empty.seq = qu.seq
  BY <1>2 DEF Queue
<1>. HIDE DEF empty
<1>6. Common(qu, data[1], acks[1], sent, rserial[1], recv[1], delivered[1])
  BY DEF ChanInv
<1>7. Common(empty, data[1], acks[1], sent, rserial[1], recv[1], delivered[1])
  BY <1>5, <1>6 DEF Common, Numbered, Travelling
<1>8. Late(data[1], rserial[1], partial[1], Len(delivered[1]), sent)
  <2>1. SUFFICES ASSUME NEW i \in 1..Len(data[1]), data[1][i].serial = rserial[1] + 1
                 PROVE  Whole(partial[1], data[1][i].bytes, Len(delivered[1]), sent)
    BY DEF Late
  <2>2. data[1][i] \in Datagram /\ data[1][i].serial <= qu.serial
    BY <1>2, <1>6 DEF Common, Travelling
  <2>. QED  BY <2>1, <2>2, Completes
<1>9. ChanInv'
  BY <1>1, <1>3, <1>7, <1>8, ChanInvNext
<1>10. ASSUME NEW m \in Cmds
       PROVE  (IF done'[m] = <<>> THEN "none" ELSE Head(done'[m])) =
                 IF m <= sent /\ (IF done[m] = <<>> THEN "none" ELSE Head(done[m])) = "none"
                 THEN "CANCELED" ELSE IF done[m] = <<>> THEN "none" ELSE Head(done[m])
  <2>1. IF m <= sent /\ done[m] = <<>> THEN done'[m] = <<"CANCELED">> ELSE done'[m] = done[m]
    BY <1>3, <1>4, StopTold
  <2>2. CASE m <= sent /\ done[m] = <<>>
    <3>1. (IF done'[m] = <<>> THEN "none" ELSE Head(done'[m])) = "CANCELED"
      BY <2>1, <2>2, Verdicts
    <3>. QED  BY <2>2, <3>1
  <2>3. CASE ~(m <= sent)
    <3>1. done'[m] = done[m]
      BY <2>1, <2>3
    <3>. QED  BY <2>3, <3>1
  <2>4. CASE m <= sent /\ done[m] # <<>>
    <3>1. done'[m] = done[m]
      BY <2>1, <2>4
    <3>2. done[m] \in Seq(FinalStatus)
      BY ChanTypes DEF DoneType
    <3>3. Head(done[m]) \in FinalStatus
      BY <2>4, <3>2
    <3>4. Head(done[m]) # "none"
      BY <3>3 DEF FinalStatus
    <3>. QED  BY <2>4, <3>1, <3>4
  <2>. QED  BY <2>2, <2>3, <2>4
<1>11. Channel!Cmds = Cmds
  BY DEF Channel!Cmds, Cmds
<1>12. Channel!Close
  BY <1>3, <1>10, <1>11 DEF Channel!Close
<1>. QED  BY <1>9, <1>12 DEF ChanStep, Channel!Next

LEMMA NextChan ==
  ASSUME Alone, ChanInv, [Next]_vars
  PROVE  ChanInv' /\ ChanStep
<1>1. ASSUME NEW bt \in BufferTypes, NEW size \in Sizes, Send(bt, size)
      PROVE  ChanInv' /\ ChanStep
  BY <1>1, SendChan
<1>2. CASE TimerCb
  BY <1>2, TimerCbChan
<1>3. ASSUME NEW q \in Queues, NEW copy \in BOOLEAN, RecvAck(q, copy)
      PROVE  ChanInv' /\ ChanStep
  BY <1>3, RecvAckChan
<1>4. ASSUME NEW q \in Queues, NEW copy \in BOOLEAN, RecvData(q, copy)
      PROVE  ChanInv' /\ ChanStep
  BY <1>4, RecvDataChan
<1>5. CASE Stop
  BY <1>5, StopChan
<1>6. ASSUME NEW q \in Queues, LoseData(q) \/ LoseAck(q)
      PROVE  ChanInv' /\ ChanStep
  BY <1>6, LoseChan
<1>7. CASE Tick
  BY <1>7, TickChan
<1>8. CASE UNCHANGED vars
  <2>1. IInv'
    BY NextIInv DEF ChanInv
  <2>2. UNCHANGED <<tx, up, sent, done, data, acks, recv, partial, delivered, rserial>>
    BY <1>8 DEF vars
  <2>. QED  BY <2>1, <2>2, ChanInvNext, ChanStutter DEF ChanInv
<1>. QED  BY <1>1, <1>2, <1>3, <1>4, <1>5, <1>6, <1>7, <1>8 DEF Next

(* arsdk_cmd_itf3.c, one queue with acknowledgement: its commands are      *)
(* given whole, in the order they were sent and once, however they were    *)
(* packed and cut, and whatever the network loses, doubles or delays; the  *)
(* sender is told ACK_RECEIVED of those that were delivered only, and      *)
(* CANCELED of the others when the interface stops.                        *)
THEOREM ChannelIsImplemented ==
  ASSUME Alone
  PROVE  Spec => ImplementsChannel
<1>1. Init => ChanInv /\ Channel!Init
  BY ChanInit
<1>2. ChanInv /\ [Next]_vars => ChanInv' /\ [Channel!Next]_(Channel!chanVars)
  BY NextChan DEF ChanStep
<1>. QED  BY <1>1, <1>2, PTL DEF Spec, ImplementsChannel, Channel!Spec
=============================================================================
