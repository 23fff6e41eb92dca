------------------------------ MODULE Ftp_proofs ------------------------------
(***************************************************************************)
(* Theorems about Ftp, for any number of requests and connections and any  *)
(* bound on the calls and the faults.                                      *)
(***************************************************************************)
EXTENDS FtpProps, TLAPS, SequenceTheorems, WellFoundedInduction

(***************************************************************************)
(* The invariant: who holds a connection                                   *)
(***************************************************************************)

(* A request that has begun and whose callback has not returned.           *)
Owning(q) == q.state \in Active \cup {"DONE"}

Open(s) == s \notin {"FREE", "DISCONNECTED"}

ListsInv ==
    /\ IsInjective(idle) /\ IsInjective(requests) /\ IsInjective(stack)
    /\ ToSet(idle) \cap busy = {}
    /\ \A c \in ToSet(idle) \cup busy : Open(elem[c])

(* An owner's connection is its own.  Once it has ended, the connection    *)
(* may break; it is not destroyed before the callback returns.             *)
OwnersInv ==
    \A r \in Reqs : Owning(req[r]) =>
      /\ req[r].conn \in Conns
      /\ \A k \in Reqs : Owning(req[k]) /\ req[k].conn = req[r].conn => k = r
      /\ \/ req[r].conn \in busy
         \/ req[r].state = "DONE" /\ elem[req[r].conn] = "DISCONNECTED"

ToldInv ==
    \A r \in Reqs :
      /\ Len(req[r].told) = IF req[r].state \in {"DONE", "FREED"} THEN 1 ELSE 0
      /\ req[r].opened => req[r].state \in Active
      /\ req[r].cur <= Len(Steps[req[r].kind])

CountedInv ==
    \A r \in Reqs :
      /\ Owning(req[r]) <=> r \in ToSet(requests)
      /\ req[r].state = "DONE" <=> r \in ToSet(stack)

(* arsdk_ftp_stop has still to visit whoever is active.                    *)
WalkInv ==
    walk.kind = "abort" =>
      \A r \in Reqs : req[r].state \in Active => r \in ToSet(walk.todo)

NetConn == [up : Seq(Commands), down : Seq([code : Codes, of : Reqs \cup {None}]),
            job : Reqs \cup {None}]
Stream == [port : BOOLEAN, est : BOOLEAN, sent : Nat, got : Nat, fin : SUBSET {"client", "server"}]

(* TypeOK in two parts.                                                    *)
LendType ==
    /\ req \in [Reqs -> Request]
    /\ requests \in Seq(Reqs) /\ stack \in Seq(Reqs)
    /\ elem \in [Conns -> ConnStates \cup {"FREE"}]
    /\ idle \in Seq(Conns) /\ busy \subseteq Conns
    /\ walk \in [kind : {"none", "cancel", "abort"}, todo : Seq(Reqs)]
WireType ==
    /\ net \in [Conns -> NetConn]
    /\ data \in [Reqs -> Stream]
    /\ done \subseteq Reqs /\ missed \subseteq Reqs /\ tainted \subseteq Conns
    /\ calls \in Nat /\ faults \in Nat

LendInv == LendType /\ ListsInv /\ OwnersInv /\ ToldInv /\ CountedInv /\ WalkInv

(***************************************************************************)
(* The invariant: what is on the way between a request and the server      *)
(***************************************************************************)

Moving == DataIn \cup DataOut
Answers == [code : Codes, of : Reqs \cup {None}]

Quiet(n) == n.up = <<>> /\ n.down = <<>> /\ n.job = None
Still(d) == d.sent = 0 /\ d.got = 0 /\ d.fin = {}

(* What may still speak of request r: its own connection, or one it left.  *)
Former(r, c) == req[r].state = "FREED" \/ (Owning(req[r]) /\ req[r].conn = c)

(* The command x, or the answer to it, or parts of the answer.             *)
Single(n, x, code) ==
    /\ n.job = None
    /\ \/ n.up = <<x>> /\ n.down = <<>>
       \/ n.up = <<>> /\ \E a \in Answers : n.down = <<a>> /\ a.code \in {code, Refusal}
       \/ n.up = <<>> /\ \A a \in ToSet(n.down) : a.code = Junk

(* The login of a connection in state s.                                   *)
LogsIn(s, n) ==
    /\ n.up # <<>> => s # "FTPCONNECTING"
    /\ \E name \in {"USER", "PASS"} : Single(n, [r |-> None, name |-> name], LoginCode[s])

(* The commands of a connection are those of its user, or of requests that *)
(* are over.                                                               *)
OfFormer(c) ==
    /\ net[c].job # None => Former(net[c].job, c)
    /\ \A x \in ToSet(net[c].up) : x.r # None => Former(x.r, c)

ConnFits(c) ==
    /\ elem[c] \in DOMAIN LoginCode => LogsIn(elem[c], net[c])
    /\ elem[c] \in {"FREE", "TCPCONNECTING", "DISCONNECTED"} => Quiet(net[c])
    /\ elem[c] = "CONNECTED" /\ c \notin tainted /\ Users(c) = {} => Quiet(net[c])
    /\ OfFormer(c)

(* Of a request r in the state q, with the stream d and the connection n,  *)
(* when the server has carried out the requests did.                       *)

(* The last command went through: the server did it, and all was moved.    *)
Through(r, q, d, did) ==
    /\ r \in did
    /\ LastCmd(q.kind) \in DataIn => d.sent = Total(q.kind)
    /\ LastCmd(q.kind) \in DataOut => d.got = d.sent /\ "client" \in d.fin

(* It waits for the answer to a command that moves no data.                *)
Awaits(r, q, d, n, did) ==
    /\ Cmd(q) \notin Moving /\ Still(d) /\ ~q.got226
    /\ Single(n, [r |-> r, name |-> Cmd(q)], Code[Cmd(q)])
    /\ Cmd(q) = LastCmd(q.kind) =>
         \A a \in ToSet(n.down) : a.code = Code[Cmd(q)] => r \in did

(* It has sent the command that moves data.                                *)
Asks(r, q, d, n) ==
    /\ Cmd(q) \in Moving /\ Still(d) /\ ~q.got226 /\ q.state = "WAIT_RESP"
    /\ n.up = <<[r |-> r, name |-> Cmd(q)]>> /\ n.down = <<>> /\ n.job = None

(* The server has read that command.                                       *)
Moves(r, q, d, n, did) ==
    /\ Cmd(q) \in Moving /\ n.up = <<>>
    /\ \A a \in ToSet(n.down) : a.code \in {150, 226, 426, Refusal, Junk}
    /\ q.got226 \/ (\E a \in ToSet(n.down) : a.code = 226)
         => n.job = None /\ Through(r, q, d, did)
    /\ "server" \in d.fin => n.job = None
    /\ "client" \in d.fin => ~q.opened /\ q.ctx = None
    /\ LastCmd(q.kind) \in DataIn /\ q.state = "STREAMING" /\ ~q.opened
         => d.got = d.sent /\ "server" \in d.fin

Carries(r, q, d, n, did) ==
    /\ \A a \in ToSet(n.down) : a.of = r
    /\ n.job \in {None, r}
    /\ Awaits(r, q, d, n, did) \/ Asks(r, q, d, n) \/ Moves(r, q, d, n, did)

(* An upload knows what was read of the file.                              *)
Sized(q, d) ==
    LastCmd(q.kind) \in DataOut => q.tsize = FileLen /\ q.size = Offset(q.kind) + d.sent

(* It waits for the login of its connection, which is in the state s.      *)
Waits(q, s) ==
    /\ q.state = "READY" <=> s # "CONNECTED"
    /\ q.state = "READY" <=> q.cur = 0
    /\ q.state = "READY" => ~q.opened /\ q.ctx = None
    /\ q.state = "STREAMING" => Cmd(q) \in Moving

Finished(r, q, d, did) ==
    /\ r \in did
    /\ LastCmd(q.kind) \in Moving => d.got = Total(q.kind)

(* An untainted connection carries what is about its user.                 *)
Fits(r, q, d, n, s, tnt, did) ==
    /\ q.state \in Active => Waits(q, s)
    /\ q.state \in {"NONE", "READY"} => Still(d) /\ ~q.got226
    /\ q.state \in {"WAIT_RESP", "STREAMING"} /\ q.conn \notin tnt => Carries(r, q, d, n, did)
    /\ q.state \in Active /\ q.conn \notin tnt => Sized(q, d)
    /\ q.state = "DONE" /\ q.told = <<"OK">> /\ q.conn \notin tnt => Finished(r, q, d, did)

ReqFits(r) ==
    Fits(r, req[r], data[r], net[req[r].conn], elem[req[r].conn], tainted, done)

WiresInv == (\A c \in Conns : ConnFits(c)) /\ (\A r \in Reqs : ReqFits(r))

IInv == LendInv /\ WireType /\ WiresInv

(***************************************************************************)
(* Sequences without repetition                                            *)
(***************************************************************************)

LEMMA LeastExists ==
  ASSUME NEW T, T \subseteq Nat, T # {}
  PROVE  \E x \in T : \A y \in T : x <= y
<1>1. IsWellFoundedOn(OpToRel(<, Nat), Nat)
  BY NatLessThanWellFounded
<1>2. \E x \in T : \A y \in T : ~(<<y, x>> \in OpToRel(<, Nat))
  BY <1>1, WFMin
<1>3. \A x, y \in Nat : <<y, x>> \in OpToRel(<, Nat) <=> y < x
  BY DEF OpToRel
<1>4. \E x \in T : \A y \in T : ~(y < x)
  BY <1>2, <1>3, Zenon
<1>. QED  BY <1>4

LEMMA MinIs ==
  ASSUME NEW T, T \subseteq Nat, T # {}
  PROVE  Min(T) \in T
  BY LeastExists DEF Min

LEMMA InSet ==
  ASSUME NEW S, NEW s \in Seq(S), NEW x
  PROVE  x \in ToSet(s) <=> \E i \in 1..Len(s) : s[i] = x
  BY DEF ToSet

LEMMA AppendIs ==
  ASSUME NEW S, NEW s \in Seq(S), NEW x \in S
  PROVE  /\ Append(s, x) \in Seq(S)
         /\ ToSet(Append(s, x)) = ToSet(s) \cup {x}
         /\ IsInjective(s) /\ x \notin ToSet(s) => IsInjective(Append(s, x))
<1>1. \A i \in 1..(Len(s) + 1) : Append(s, x)[i] = IF i <= Len(s) THEN s[i] ELSE x
  OBVIOUS
<1>2. DOMAIN Append(s, x) = 1..(Len(s) + 1) /\ DOMAIN s = 1..Len(s) /\ Len(s) \in Nat
  OBVIOUS
<1>3. ToSet(Append(s, x)) = ToSet(s) \cup {x}
  <2>1. ToSet(Append(s, x)) \subseteq ToSet(s) \cup {x}
    BY <1>1, <1>2 DEF ToSet
  <2>2. x = Append(s, x)[Len(s) + 1] /\ Len(s) + 1 \in DOMAIN Append(s, x)
    BY <1>1, <1>2
  <2>3. \A i \in DOMAIN s : s[i] = Append(s, x)[i] /\ i \in DOMAIN Append(s, x)
    BY <1>1, <1>2
  <2>4. ToSet(s) \cup {x} \subseteq ToSet(Append(s, x))
    BY <2>2, <2>3 DEF ToSet
  <2>. QED  BY <2>1, <2>4
<1>4. ASSUME IsInjective(s), x \notin ToSet(s) PROVE IsInjective(Append(s, x))
  BY <1>1, <1>2, <1>4 DEF IsInjective, ToSet
<1>. QED  BY <1>3, <1>4

LEMMA ConsIs ==
  ASSUME NEW S, NEW s \in Seq(S), NEW x \in S
  PROVE  /\ <<x>> \o s \in Seq(S)
         /\ ToSet(<<x>> \o s) = ToSet(s) \cup {x}
         /\ IsInjective(s) /\ x \notin ToSet(s) => IsInjective(<<x>> \o s)
<1>. DEFINE t == <<x>> \o s
            len == Len(s)
<1>1. /\ DOMAIN t = 1..(len + 1) /\ DOMAIN s = 1..len /\ len \in Nat
      /\ t \in Seq(S)
  OBVIOUS
<1>2. \A i \in 1..(len + 1) : t[i] = IF i = 1 THEN x ELSE s[i - 1]
  OBVIOUS
<1>. HIDE DEF t, len
<1>3. \A i \in 1..len : i + 1 \in 1..(len + 1) /\ i + 1 # 1 /\ (i + 1) - 1 = i
  BY <1>1
<1>4. \A i \in 1..len : t[i + 1] = s[i]
  BY <1>2, <1>3
<1>5. t[1] = x /\ 1 \in 1..(len + 1)
  BY <1>1, <1>2
<1>6. \A i \in 1..(len + 1) : i = 1 \/ (i - 1 \in 1..len /\ t[i] = s[i - 1])
  BY <1>1, <1>2
<1>7. ToSet(t) = ToSet(s) \cup {x}
  <2>1. ToSet(t) \subseteq ToSet(s) \cup {x}
    BY <1>1, <1>5, <1>6 DEF ToSet
  <2>2. ToSet(s) \cup {x} \subseteq ToSet(t)
    BY <1>1, <1>3, <1>4, <1>5 DEF ToSet
  <2>. QED  BY <2>1, <2>2
<1>8. ASSUME IsInjective(s), x \notin ToSet(s) PROVE IsInjective(t)
  <2>. SUFFICES ASSUME NEW i \in 1..(len + 1), NEW j \in 1..(len + 1), t[i] = t[j]
                PROVE  i = j
    BY <1>1 DEF IsInjective
  <2>1. \A k \in 1..len : s[k] # x
    BY <1>1, <1>8 DEF ToSet
  <2>2. CASE i = 1 \/ j = 1
    BY <1>5, <1>6, <2>1, <2>2
  <2>3. CASE i # 1 /\ j # 1
    <3>1. i - 1 \in 1..len /\ j - 1 \in 1..len /\ s[i - 1] = s[j - 1]
      BY <1>6, <2>3
    <3>2. i - 1 = j - 1
      BY <1>1, <1>8, <3>1 DEF IsInjective
    <3>. QED  BY <3>2
  <2>. QED  BY <2>2, <2>3
<1>. QED  BY <1>1, <1>7, <1>8 DEF t

LEMMA FrontIs ==
  ASSUME NEW S, NEW s \in Seq(S), s # <<>>, IsInjective(s)
  PROVE  /\ Front(s) \in Seq(S) /\ Last(s) \in S /\ Last(s) \in ToSet(s)
         /\ IsInjective(Front(s))
         /\ ToSet(Front(s)) = ToSet(s) \ {Last(s)}
<1>. DEFINE len == Len(s)
            t == Front(s)
            last == Last(s)
<1>1. len \in Nat \ {0} /\ DOMAIN s = 1..len /\ \A i \in 1..len : s[i] \in S
  OBVIOUS
<1>2. /\ t \in Seq(S) /\ DOMAIN t = 1..(len - 1)
      /\ \A i \in 1..(len - 1) : t[i] = s[i]
  BY <1>1 DEF Front
<1>3. last = s[len]
  BY DEF Last
<1>. HIDE DEF len, t, last
<1>4. \A i \in 1..len : i = len \/ i \in 1..(len - 1)
  BY <1>1
<1>5. len \in 1..len /\ \A i \in 1..(len - 1) : i \in 1..len /\ i # len
  BY <1>1
<1>6. last \in S /\ last \in ToSet(s)
  BY <1>1, <1>3, <1>5 DEF ToSet
<1>7. IsInjective(t)
  BY <1>1, <1>2, <1>5 DEF IsInjective
<1>8. \A i \in 1..(len - 1) : s[i] # last
  BY <1>1, <1>3, <1>5 DEF IsInjective
<1>9. ToSet(t) = ToSet(s) \ {last}
  <2>1. ToSet(t) \subseteq ToSet(s) \ {last}
    BY <1>1, <1>2, <1>5, <1>8 DEF ToSet
  <2>2. ToSet(s) \ {last} \subseteq ToSet(t)
    BY <1>1, <1>2, <1>3, <1>4 DEF ToSet
  <2>. QED  BY <2>1, <2>2
<1>. QED  BY <1>2, <1>6, <1>7, <1>9 DEF t, last

LEMMA TailIs ==
  ASSUME NEW S, NEW s \in Seq(S), s # <<>>
  PROVE  /\ Head(s) \in S /\ Tail(s) \in Seq(S)
         /\ Head(s) = s[1] /\ 1 \in DOMAIN s
         /\ ToSet(s) = ToSet(Tail(s)) \cup {Head(s)}
         /\ \A i \in DOMAIN Tail(s) : i + 1 \in DOMAIN s /\ Tail(s)[i] = s[i + 1]
<1>. DEFINE len == Len(s)
            t == Tail(s)
            h == Head(s)
<1>1. len \in Nat \ {0} /\ DOMAIN s = 1..len /\ h = s[1] /\ h \in S
  OBVIOUS
<1>2. /\ t \in Seq(S) /\ DOMAIN t = 1..(len - 1)
      /\ \A i \in 1..(len - 1) : t[i] = s[i + 1]
  OBVIOUS
<1>. HIDE DEF len, t, h
<1>3. \A i \in 1..len : i = 1 \/ (i - 1 \in 1..(len - 1) /\ (i - 1) + 1 = i)
  BY <1>1
<1>4. 1 \in 1..len /\ \A i \in 1..(len - 1) : i + 1 \in 1..len
  BY <1>1
<1>5. \A i \in 1..len : i = 1 \/ (i - 1 \in 1..(len - 1) /\ t[i - 1] = s[i])
  BY <1>2, <1>3
<1>6. ToSet(s) = ToSet(t) \cup {h}
  <2>1. \A i \in DOMAIN s : s[i] = h \/ \E k \in DOMAIN t : s[i] = t[k]
    BY <1>1, <1>2, <1>5
  <2>3. ToSet(s) \subseteq ToSet(t) \cup {h}
    BY <2>1 DEF ToSet
  <2>2. ToSet(t) \cup {h} \subseteq ToSet(s)
    BY <1>1, <1>2, <1>4 DEF ToSet
  <2>. QED  BY <2>2, <2>3
<1>. QED  BY <1>1, <1>2, <1>4, <1>6 DEF t, h

LEMMA WithoutIs ==
  ASSUME NEW S, NEW s \in Seq(S), NEW x, IsInjective(s)
  PROVE  /\ Without(s, x) \in Seq(S)
         /\ IsInjective(Without(s, x))
         /\ ToSet(Without(s, x)) = ToSet(s) \ {x}
<1>1. CASE x \notin ToSet(s)
  BY <1>1 DEF Without
<1>2. CASE x \in ToSet(s)
  <2>. DEFINE i == CHOOSE i \in DOMAIN s : s[i] = x
              t == Without(s, x)
              a == SubSeq(s, 1, i - 1)
              b == SubSeq(s, i + 1, Len(s))
              len == Len(s)
  <2>1. /\ len \in Nat /\ DOMAIN s = 1..len /\ i \in 1..len /\ s[i] = x
        /\ \A j \in 1..len : s[j] \in S
    BY <1>2 DEF ToSet
  <2>2. t = a \o b
    BY <1>2 DEF Without, RemoveAt
  <2>. HIDE DEF i, len
  <2>0. s \in Seq(S) /\ Len(s) = len
    BY DEF len
  <2>3. /\ a \in Seq(S) /\ Len(a) = i - 1
        /\ \A j \in 1..(i - 1) : a[j] = s[j]
    <3>1. 1 \in Int /\ i - 1 \in Int /\ 1 <= 1 /\ i - 1 <= len
      BY <2>1
    <3>. QED  BY <2>0, <2>1, <3>1
  <2>4. /\ b \in Seq(S) /\ Len(b) = len - i
        /\ \A j \in 1..(len - i) : b[j] = s[j + i]
    BY <2>0, <2>1
  <2>. HIDE DEF a, b, t
  <2>5. /\ t \in Seq(S) /\ Len(t) = len - 1 /\ DOMAIN t = 1..(len - 1)
        /\ \A j \in 1..(len - 1) : t[j] = IF j < i THEN s[j] ELSE s[j + 1]
    BY <2>1, <2>2, <2>3, <2>4
  <2>6. \A j \in 1..(len - 1) : s[j] = x => j = i
    BY <2>1 DEF IsInjective
  <2>7. \A j \in 1..len : s[j] = x <=> j = i
    BY <2>1 DEF IsInjective
  <2>8. IsInjective(t)
    <3>. SUFFICES ASSUME NEW j \in 1..(len - 1), NEW k \in 1..(len - 1), t[j] = t[k]
                  PROVE  j = k
      BY <2>5 DEF IsInjective
    <3>. DEFINE at(n) == IF n < i THEN n ELSE n + 1
    <3>1. /\ at(j) \in 1..len /\ at(k) \in 1..len
          /\ at(j) = at(k) => j = k
      BY <2>1
    <3>2. t[j] = s[at(j)] /\ t[k] = s[at(k)]
      BY <2>5
    <3>3. at(j) = at(k)
      BY <2>1, <3>1, <3>2 DEF IsInjective
    <3>. QED  BY <3>1, <3>3
  <2>9. \A j \in 1..(len - 1) : t[j] \in ToSet(s) /\ t[j] # x
    <3>. SUFFICES ASSUME NEW j \in 1..(len - 1) PROVE t[j] \in ToSet(s) /\ t[j] # x
      OBVIOUS
    <3>1. \E k \in 1..len : t[j] = s[k] /\ k # i
      BY <2>1, <2>5
    <3>. QED  BY <2>1, <2>7, <3>1 DEF ToSet
  <2>10. \A k \in 1..len : s[k] # x => \E j \in 1..(len - 1) : t[j] = s[k]
    <3>. SUFFICES ASSUME NEW k \in 1..len, k # i PROVE \E j \in 1..(len - 1) : t[j] = s[k]
      BY <2>7
    <3>1. CASE k < i
      <4>1. k \in 1..(len - 1) /\ t[k] = s[k]
        BY <2>1, <2>5, <3>1
      <4>. QED  BY <4>1
    <3>2. CASE k > i
      <4>1. k - 1 \in 1..(len - 1) /\ t[k - 1] = s[k]
        BY <2>1, <2>5, <3>2
      <4>. QED  BY <4>1
    <3>. QED  BY <2>1, <3>1, <3>2
  <2>11. ToSet(t) = ToSet(s) \ {x}
    <3>1. ToSet(t) \subseteq ToSet(s) \ {x}
      BY <2>5, <2>9 DEF ToSet
    <3>2. ToSet(s) \ {x} \subseteq ToSet(t)
      BY <2>1, <2>5, <2>10 DEF ToSet
    <3>. QED  BY <3>1, <3>2
  <2>. QED  BY <2>5, <2>8, <2>11 DEF t
<1>. QED  BY <1>1, <1>2

LEMMA Types == TypeOK <=> LendType /\ WireType
  BY DEF TypeOK, LendType, WireType, NetConn, Stream

(***************************************************************************)
(* The commands of a request                                               *)
(***************************************************************************)

LEMMA SeqIs ==
  ASSUME NEW S, NEW s \in Seq(S)
  PROVE  /\ Len(s) \in Nat /\ DOMAIN s = 1..Len(s)
         /\ \A i \in 1..Len(s) : s[i] \in S
  OBVIOUS

LEMMA MadeSeq ==
  ASSUME NEW S, NEW n \in Nat, NEW s, s = [i \in 1..n |-> s[i]],
         \A i \in 1..n : s[i] \in S
  PROVE  s \in Seq(S)
  BY SeqDef

LEMMA ConcatIs ==
  ASSUME NEW S, NEW s \in Seq(S), NEW t \in Seq(S)
  PROVE  /\ s \o t \in Seq(S) /\ Len(s \o t) = Len(s) + Len(t)
         /\ DOMAIN (s \o t) = 1..(Len(s) + Len(t))
         /\ \A i \in 1..Len(s) : (s \o t)[i] = s[i]
         /\ \A i \in 1..Len(t) : (s \o t)[Len(s) + i] = t[i]
  OBVIOUS

Early == {"EPSV", "TYPE", "SIZE", "REST", "CWD", "RNFR", "RNTO", "DELE", "USER", "PASS"}

(* A command that moves data is the last one.                              *)
Sound(s) ==
  /\ Len(s) \in 1..5 /\ DOMAIN s = 1..Len(s)
  /\ \A i \in 1..Len(s) : s[i] \in DOMAIN Code /\ (s[i] \in Moving => i = Len(s))

Named == Early \cup Moving

LEMMA CodeIs == DOMAIN Code = Named /\ Early \cap Moving = {}
  BY DEF Code, Named, Early, Moving, DataIn, DataOut

LEMMA SoundOne ==
  ASSUME NEW s \in Seq(Early), NEW x \in Named, Len(s) \in 0..4
  PROVE  Sound(s \o <<x>>)
<1>. DEFINE t == s \o <<x>>
            len == Len(s)
<1>1. /\ len \in 0..4 /\ Len(t) = len + 1 /\ DOMAIN t = 1..(len + 1)
      /\ \A i \in 1..len : t[i] = s[i] /\ s[i] \in Early
      /\ t[len + 1] = x
  <2>0. /\ len \in 0..4 /\ DOMAIN s = 1..len
        /\ \A i \in 1..len : s[i] \in Early
    BY SeqIs
  <2>1. s \in Seq(Named)
    BY <2>0, MadeSeq DEF Named
  <2>2. <<x>> \in Seq(Named) /\ Len(<<x>>) = 1 /\ <<x>>[1] = x /\ 1 \in 1..Len(<<x>>)
    OBVIOUS
  <2>3. /\ Len(t) = len + 1 /\ DOMAIN t = 1..(len + 1)
        /\ \A i \in 1..len : t[i] = s[i]
        /\ t[len + 1] = x
    <3>1. /\ s \o <<x>> \in Seq(Named) /\ Len(s \o <<x>>) = Len(s) + Len(<<x>>)
          /\ DOMAIN (s \o <<x>>) = 1..(Len(s) + Len(<<x>>))
          /\ \A i \in 1..Len(s) : (s \o <<x>>)[i] = s[i]
          /\ (s \o <<x>>)[Len(s) + 1] = <<x>>[1]
      BY <2>1, <2>2, ConcatIs
    <3>. QED  BY <2>2, <3>1
  <2>. QED  BY <2>0, <2>3
<1>. HIDE DEF t, len
<1>2. \A i \in 1..(len + 1) : i = len + 1 \/ i \in 1..len
  BY <1>1
<1>3. \A i \in 1..(len + 1) : t[i] \in DOMAIN Code /\ (t[i] \in Moving => i = len + 1)
  BY <1>1, <1>2, CodeIs DEF Named
<1>4. len + 1 \in 1..5
  BY <1>1
<1>5. Sound(t)
  BY <1>1, <1>3, <1>4 DEF Sound
<1>. QED  BY <1>5 DEF t

LEMMA SoundTwo ==
  ASSUME NEW S, NEW a \in Seq(S), NEW b \in Seq(S),
         Len(a) = 2, a[1] = "EPSV", a[2] = "TYPE",
         Len(b) = 2, b[1] = "REST", b[2] = "APPE"
  PROVE  Sound(a \o b)
<1>. DEFINE t == a \o b
            m == Len(a)
            n == Len(b)
<1>0. /\ Len(t) = m + n /\ DOMAIN t = 1..(m + n)
      /\ \A i \in 1..m : t[i] = a[i]
      /\ \A i \in 1..n : t[m + i] = b[i]
  BY ONLY a \in Seq(S), b \in Seq(S), ConcatIs
<1>. HIDE DEF t
<1>1. Len(t) = 4 /\ DOMAIN t = 1..4
  BY <1>0
<1>2. t[1] = "EPSV" /\ t[2] = "TYPE"
  BY <1>0
<1>3. t[3] = "REST" /\ t[4] = "APPE"
  BY <1>0
<1>4. Sound(t)
  BY <1>1, <1>2, <1>3, CodeIs DEF Sound, Named, Early, Moving, DataIn, DataOut
<1>. QED  BY <1>4 DEF t

LEMMA StepsSound ==
  ASSUME NEW kind \in DOMAIN Steps
  PROVE  Sound(Steps[kind])
<1>1. kind \in {"get", "resume", "put", "append", "size", "rename", "delete", "list"}
  BY DEF Steps
<1>2. Sound(GetSteps(FALSE))
  <2>1. /\ <<"EPSV", "TYPE", "SIZE">> \o <<>> \in Seq(Early)
        /\ Len(<<"EPSV", "TYPE", "SIZE">> \o <<>>) \in 0..4
    BY DEF Early
  <2>. QED  BY <2>1, SoundOne DEF GetSteps, Named, Moving, DataIn
<1>3. Sound(GetSteps(TRUE))
  <2>1. /\ <<"EPSV", "TYPE", "SIZE">> \o <<"REST">> \in Seq(Early)
        /\ Len(<<"EPSV", "TYPE", "SIZE">> \o <<"REST">>) \in 0..4
    BY DEF Early
  <2>. QED  BY <2>1, SoundOne DEF GetSteps, Named, Moving, DataIn
<1>4. Sound(PutSteps(FALSE))
  <2>1. <<"EPSV", "TYPE">> \in Seq(Early) /\ Len(<<"EPSV", "TYPE">>) \in 0..4
    BY DEF Early
  <2>. QED  BY <2>1, SoundOne DEF PutSteps, Named, Moving, DataOut
<1>5. Sound(PutSteps(TRUE))
  <2>1. <<"EPSV", "TYPE">> \in Seq(Named) /\ <<"REST", "APPE">> \in Seq(Named)
    BY DEF Named, Early, Moving, DataOut
  <2>. QED  BY <2>1, SoundTwo DEF PutSteps
<1>6. Sound(SizeSteps) /\ Sound(DeleteSteps)
  BY DEF Sound, SizeSteps, DeleteSteps, Code, Moving, DataIn, DataOut
<1>7. Sound(RenameSteps)
  BY DEF Sound, RenameSteps, Code, Moving, DataIn, DataOut
<1>8. Sound(ListSteps)
  BY DEF Sound, ListSteps, Code, Moving, DataIn, DataOut
<1>9. /\ Steps["get"] = GetSteps(FALSE) /\ Steps["resume"] = GetSteps(TRUE)
      /\ Steps["put"] = PutSteps(FALSE) /\ Steps["append"] = PutSteps(TRUE)
      /\ Steps["size"] = SizeSteps /\ Steps["rename"] = RenameSteps
      /\ Steps["delete"] = DeleteSteps /\ Steps["list"] = ListSteps
  BY DEF Steps
<1>. QED  BY <1>1, <1>2, <1>3, <1>4, <1>5, <1>6, <1>7, <1>8, <1>9

LEMMA StepIs ==
  ASSUME NEW kind \in DOMAIN Steps, NEW i \in 1..Len(Steps[kind])
  PROVE  /\ Len(Steps[kind]) \in 1..5
         /\ Steps[kind][i] \in DOMAIN Code
         /\ Steps[kind][i] \in Moving => i = Len(Steps[kind])
         /\ i = Len(Steps[kind]) <=> Steps[kind][i] = LastCmd(kind) /\ i = Len(Steps[kind])
  BY StepsSound DEF Sound, LastCmd, Last

(***************************************************************************)
(* What an event does to a request: it goes on, or ends                    *)
(***************************************************************************)

Ways == {"OK", "FAILED", "CANCELED", "ABORTED"}

(* p is q further on.                                                      *)
Kept(q, p) ==
    /\ p \in Request /\ p.state \in Active
    /\ p.conn = q.conn /\ p.told = q.told /\ p.kind = q.kind
    /\ p.cur <= Len(Steps[p.kind])

Goes(r) ==
    /\ req[r].state \in Active /\ stack' = stack
    /\ \E p \in Request : Kept(req[r], p) /\ req' = [req EXCEPT ![r] = p]

Ends(r) ==
    /\ req[r].state \in Active /\ stack' = Append(stack, r)
    /\ \E q \in Request, status \in Ways :
         Kept(req[r], q) /\ req' = [req EXCEPT ![r] = Stopped(q, status)]

Handled == \/ req' = req /\ stack' = stack
           \/ \E r \in Reqs : Goes(r) \/ Ends(r)

LEMMA StoppedIs ==
  ASSUME NEW q \in Request, NEW status \in Ways, q.told = <<>>
  PROVE  /\ Stopped(q, status) \in Request
         /\ Stopped(q, status).state = "DONE"
         /\ Stopped(q, status).told = <<FinalStatus(q, status)>>
         /\ Len(Stopped(q, status).told) = 1
         /\ ~Stopped(q, status).opened
         /\ Stopped(q, status).conn = q.conn
         /\ Stopped(q, status).kind = q.kind
         /\ Stopped(q, status).cur = q.cur
<1>. DEFINE s == FinalStatus(q, status)
<1>1. s \in Ways
  BY DEF FinalStatus, Ways
<1>. HIDE DEF s
<1>2. Append(q.told, s) = <<s>> /\ <<s>> \in Seq(Ways) /\ Len(<<s>>) = 1
  BY <1>1
<1>3. Stopped(q, status) = [q EXCEPT !.state = "DONE", !.ctx = None, !.opened = FALSE,
                                     !.told = <<s>>]
  BY <1>2 DEF Stopped, s
<1>. HIDE DEF Stopped
<1>4. <<s>> \in Seq({"OK", "FAILED", "CANCELED", "ABORTED"})
  BY <1>2 DEF Ways
<1>5. [q EXCEPT !.state = "DONE", !.ctx = None, !.opened = FALSE, !.told = <<s>>] \in Request
  BY <1>4 DEF Request
<1>. QED  BY <1>2, <1>3, <1>5 DEF Request, s

LEMMA ActiveIs ==
  ASSUME LendInv, NEW r \in Reqs, req[r].state \in Active
  PROVE  /\ req[r] \in Request /\ req[r].told = <<>> /\ req[r].state # "DONE"
         /\ Owning(req[r]) /\ req[r].conn \in Conns /\ req[r].conn \in busy
         /\ Open(elem[req[r].conn])
         /\ r \notin ToSet(stack) /\ r \in ToSet(requests)
         /\ req[r].kind \in DOMAIN Steps /\ req[r].cur \in 0..Len(Steps[req[r].kind])
         /\ \A k \in Reqs : Owning(req[k]) /\ req[k].conn = req[r].conn => k = r
<1>1. req[r] \in Request /\ req[r].kind \in DOMAIN Steps /\ req[r].cur \in Nat
  BY DEF LendInv, LendType, Request
<1>2. req[r].state # "DONE" /\ req[r].state # "FREED" /\ Owning(req[r])
  BY DEF Active, Owning
<1>3. Len(req[r].told) = 0 /\ req[r].told \in Seq(Ways)
  BY <1>1, <1>2 DEF LendInv, ToldInv, Request, Ways
<1>4. req[r].told = <<>>
  BY <1>3
<1>5. Len(Steps[req[r].kind]) \in Nat
  BY <1>1, StepsSound DEF Sound
<1>6. req[r].cur \in 0..Len(Steps[req[r].kind])
  BY <1>1, <1>5 DEF LendInv, ToldInv
<1>. QED  BY <1>1, <1>2, <1>4, <1>6 DEF LendInv, OwnersInv, CountedInv, ListsInv

(* The requests after an event.                                            *)
LEMMA HandledIs ==
  ASSUME LendInv, Handled
  PROVE  /\ req' \in [Reqs -> Request] /\ stack' \in Seq(Reqs) /\ IsInjective(stack')
         /\ \A k \in Reqs :
              /\ req'[k].conn = req[k].conn /\ req'[k].kind = req[k].kind
              /\ Owning(req[k]) <=> Owning(req'[k])
              /\ req'[k].state \in Active => req[k].state \in Active
              /\ req'[k].state = "DONE" => Owning(req[k])
              /\ req[k].state \notin Active => req'[k] = req[k]
              /\ Len(req'[k].told) = IF req'[k].state \in {"DONE", "FREED"} THEN 1 ELSE 0
              /\ req'[k].opened => req'[k].state \in Active
              /\ req'[k].cur <= Len(Steps[req'[k].kind])
              /\ req'[k].state = "DONE" <=> k \in ToSet(stack')
<1>1. /\ req \in [Reqs -> Request] /\ stack \in Seq(Reqs) /\ IsInjective(stack)
      /\ \A k \in Reqs :
           /\ Len(req[k].told) = IF req[k].state \in {"DONE", "FREED"} THEN 1 ELSE 0
           /\ req[k].opened => req[k].state \in Active
           /\ req[k].cur <= Len(Steps[req[k].kind])
           /\ req[k].state = "DONE" <=> k \in ToSet(stack)
  BY DEF LendInv, LendType, ListsInv, ToldInv, CountedInv
<1>2. CASE req' = req /\ stack' = stack
  BY <1>1, <1>2 DEF Owning
<1>3. ASSUME NEW r \in Reqs, Goes(r)
      PROVE  /\ req' \in [Reqs -> Request] /\ stack' = stack
             /\ \A k \in Reqs : k # r => req'[k] = req[k]
             /\ Kept(req[r], req'[r])
  BY <1>1, <1>3 DEF Goes
<1>4. ASSUME NEW r \in Reqs, Ends(r)
      PROVE  /\ req' \in [Reqs -> Request] /\ stack' = Append(stack, r)
             /\ \A k \in Reqs : k # r => req'[k] = req[k]
             /\ req'[r].state = "DONE" /\ Len(req'[r].told) = 1 /\ ~req'[r].opened
             /\ req'[r].conn = req[r].conn /\ req'[r].kind = req[r].kind
             /\ req'[r].cur <= Len(Steps[req'[r].kind])
  <2>1. PICK q \in Request, status \in Ways :
               Kept(req[r], q) /\ req' = [req EXCEPT ![r] = Stopped(q, status)]
    BY <1>4 DEF Ends
  <2>2. q.told = <<>>
    BY <1>4, <2>1, ActiveIs DEF Ends, Kept
  <2>3. req'[r] = Stopped(q, status)
    BY <1>1, <2>1
  <2>4. q.conn = req[r].conn /\ q.kind = req[r].kind /\ q.cur <= Len(Steps[q.kind])
    BY <2>1 DEF Kept
  <2>. QED  BY <1>1, <1>4, <2>1, <2>2, <2>3, <2>4, StoppedIs DEF Ends
<1>5. CASE \E r \in Reqs : Goes(r)
  <2>1. PICK r \in Reqs : Goes(r)
    BY <1>5
  <2>2. /\ req[r].state \in Active /\ req'[r].state \in Active
        /\ req'[r].conn = req[r].conn /\ req'[r].kind = req[r].kind
        /\ req'[r].told = req[r].told /\ req'[r].cur <= Len(Steps[req'[r].kind])
    BY <1>3, <2>1 DEF Goes, Kept
  <2>. QED  BY <1>1, <1>3, <2>1, <2>2 DEF Owning, Active
<1>6. CASE \E r \in Reqs : Ends(r)
  <2>1. PICK r \in Reqs : Ends(r)
    BY <1>6
  <2>2. req[r].state \in Active /\ r \notin ToSet(stack)
    BY <1>1, <2>1 DEF Ends, Active
  <2>3. /\ stack' \in Seq(Reqs) /\ IsInjective(stack')
        /\ ToSet(stack') = ToSet(stack) \cup {r}
    <3>1. stack' = Append(stack, r) /\ stack \in Seq(Reqs) /\ IsInjective(stack)
      BY <1>1, <1>4, <2>1
    <3>. QED  BY <2>2, <3>1, AppendIs
  <2>4. /\ req' \in [Reqs -> Request]
        /\ \A k \in Reqs : k # r => req'[k] = req[k]
        /\ req'[r].state = "DONE" /\ Len(req'[r].told) = 1 /\ ~req'[r].opened
        /\ req'[r].conn = req[r].conn /\ req'[r].kind = req[r].kind
        /\ req'[r].cur <= Len(Steps[req'[r].kind])
    BY <1>4, <2>1
  <2>5. Owning(req[r]) /\ Owning(req'[r]) /\ req'[r].state \notin Active
    BY <2>2, <2>4 DEF Owning, Active
  <2>6. \A k \in Reqs : req[k].state = "DONE" => Owning(req[k])
    BY DEF Owning
  <2>. QED  BY <1>1, <2>2, <2>3, <2>4, <2>5, <2>6
<1>. QED  BY <1>2, <1>5, <1>6 DEF Handled

(* No connection goes away, or is lent: LendInv is kept.                   *)
LEMMA HandledLends ==
  ASSUME LendInv, Handled, requests' = requests, idle' = idle, busy' = busy,
         elem' \in [Conns -> ConnStates \cup {"FREE"}],
         \A c \in Conns : Open(elem[c]) => Open(elem'[c]),
         \A c \in Conns : elem[c] = "DISCONNECTED" => elem'[c] = "DISCONNECTED",
         walk' \in [kind : {"none", "cancel", "abort"}, todo : Seq(Reqs)],
         walk'.kind = walk.kind,
         \A k \in Reqs : k \in ToSet(walk.todo) /\ req'[k].state \in Active
                            => k \in ToSet(walk'.todo)
  PROVE  LendInv'
<1>1. LendType'
  BY HandledIs DEF LendInv, LendType
<1>2. ListsInv'
  <2>1. ToSet(idle) \subseteq Conns /\ busy \subseteq Conns
    BY DEF LendInv, LendType, ToSet
  <2>. QED  BY <2>1, HandledIs DEF LendInv, ListsInv
<1>3. OwnersInv'
  <2>. SUFFICES ASSUME NEW r \in Reqs, Owning(req'[r])
                PROVE  /\ req'[r].conn \in Conns
                       /\ \A k \in Reqs : Owning(req'[k]) /\ req'[k].conn = req'[r].conn => k = r
                       /\ \/ req'[r].conn \in busy'
                          \/ req'[r].state = "DONE" /\ elem'[req'[r].conn] = "DISCONNECTED"
    BY DEF OwnersInv, Owning
  <2>1. Owning(req[r]) /\ req'[r].conn = req[r].conn
    BY HandledIs
  <2>2. /\ req[r].conn \in Conns
        /\ \A k \in Reqs : Owning(req[k]) /\ req[k].conn = req[r].conn => k = r
        /\ req[r].conn \in busy \/ (req[r].state = "DONE" /\ elem[req[r].conn] = "DISCONNECTED")
    BY <2>1 DEF LendInv, OwnersInv
  <2>3. req[r].state = "DONE" => req'[r] = req[r]
    BY HandledIs DEF Active
  <2>. QED  BY <2>1, <2>2, <2>3, HandledIs
<1>4. ToldInv'
  BY HandledIs DEF ToldInv
<1>5. CountedInv'
  BY HandledIs DEF LendInv, CountedInv
<1>6. WalkInv'
  BY HandledIs DEF LendInv, WalkInv
<1>. QED  BY <1>1, <1>2, <1>3, <1>4, <1>5, <1>6 DEF LendInv

LEMMA EndIs ==
  ASSUME NEW r \in Reqs, req[r].state \in Active, NEW q, Kept(req[r], q),
         NEW status \in Ways, End(r, q, status)
  PROVE  Ends(r)
  BY DEF End, Ends, Kept

LEMMA KeptSame ==
  ASSUME LendInv, NEW r \in Reqs, req[r].state \in Active
  PROVE  Kept(req[r], req[r])
  BY ActiveIs DEF Kept, LendInv, ToldInv

(* The connection breaks: it leaves its list, and its user ends.           *)
LEMMA DisconnectedLends ==
  ASSUME LendInv, NEW c \in Conns, Open(elem[c]), Disconnected(c),
         requests' = requests, walk' = walk
  PROVE  LendInv'
<1>1. Handled
  <2>1. CASE Users(c) = {}
    BY <2>1 DEF Disconnected, Handled
  <2>2. CASE Users(c) # {}
    <3>1. PICK r \in Users(c) : End(r, req[r], "ABORTED")
      BY <2>2 DEF Disconnected
    <3>2. r \in Reqs /\ req[r].state \in Active
      BY DEF Users
    <3>3. Ends(r)
      BY <3>1, <3>2, KeptSame, EndIs DEF Ways
    <3>. QED  BY <3>2, <3>3 DEF Handled
  <2>. QED  BY <2>1, <2>2
<1>2. \A r \in Reqs : req'[r].state \in Active => req'[r].conn # c
  <2>. SUFFICES ASSUME NEW r \in Reqs, req'[r].state \in Active, req'[r].conn = c PROVE FALSE
    OBVIOUS
  <2>1. req[r].state \in Active /\ req[r].conn = c /\ r \in Users(c)
    BY <1>1, HandledIs DEF Users
  <2>2. PICK k \in Users(c) : End(k, req[k], "ABORTED")
    BY <2>1 DEF Disconnected
  <2>3. k = r
    BY <2>1, ActiveIs DEF Users
  <2>4. stack' = Append(stack, r)
    BY <2>2, <2>3 DEF End
  <2>5. r \in ToSet(stack')
    BY <2>4, AppendIs DEF LendInv, LendType
  <2>. QED  BY <1>1, <2>5, HandledIs DEF Active
<1>3. /\ elem' = [elem EXCEPT ![c] = "DISCONNECTED"]
      /\ idle' = Without(idle, c) /\ busy' = busy \ {c}
      /\ elem \in [Conns -> ConnStates \cup {"FREE"}]
      /\ idle \in Seq(Conns) /\ IsInjective(idle) /\ busy \subseteq Conns
  BY DEF Disconnected, LendInv, LendType, ListsInv
<1>4. /\ idle' \in Seq(Conns) /\ IsInjective(idle') /\ ToSet(idle') = ToSet(idle) \ {c}
      /\ ToSet(idle) \subseteq Conns
  <2>1. ToSet(idle) \subseteq Conns
    BY <1>3 DEF ToSet
  <2>. QED  BY <1>3, <2>1, WithoutIs
<1>5. /\ elem' \in [Conns -> ConnStates \cup {"FREE"}]
      /\ elem'[c] = "DISCONNECTED" /\ \A k \in Conns : k # c => elem'[k] = elem[k]
  BY <1>3 DEF ConnStates
<1>6. LendType'
  BY <1>1, <1>3, <1>4, <1>5, HandledIs DEF LendInv, LendType
<1>7. ListsInv'
  BY <1>1, <1>3, <1>4, <1>5, HandledIs DEF LendInv, ListsInv
<1>8. OwnersInv'
  <2>. SUFFICES ASSUME NEW r \in Reqs, Owning(req'[r])
                PROVE  /\ req'[r].conn \in Conns
                       /\ \A k \in Reqs : Owning(req'[k]) /\ req'[k].conn = req'[r].conn => k = r
                       /\ \/ req'[r].conn \in busy'
                          \/ req'[r].state = "DONE" /\ elem'[req'[r].conn] = "DISCONNECTED"
    BY DEF OwnersInv, Owning
  <2>1. Owning(req[r]) /\ req'[r].conn = req[r].conn
    BY <1>1, HandledIs
  <2>2. /\ req[r].conn \in Conns
        /\ \A k \in Reqs : Owning(req[k]) /\ req[k].conn = req[r].conn => k = r
        /\ req[r].conn \in busy \/ (req[r].state = "DONE" /\ elem[req[r].conn] = "DISCONNECTED")
    BY <2>1 DEF LendInv, OwnersInv
  <2>3. req[r].state = "DONE" => req'[r] = req[r]
    BY <1>1, HandledIs DEF Active
  <2>4. req'[r].state \in Active \/ req'[r].state = "DONE"
    BY DEF Owning
  <2>. QED  BY <1>1, <1>2, <1>3, <1>5, <2>1, <2>2, <2>3, <2>4, HandledIs
<1>9. ToldInv'
  BY <1>1, HandledIs DEF ToldInv
<1>10. CountedInv'
  BY <1>1, HandledIs DEF LendInv, CountedInv
<1>11. WalkInv'
  BY <1>1, HandledIs DEF LendInv, WalkInv
<1>. QED  BY <1>6, <1>7, <1>8, <1>9, <1>10, <1>11 DEF LendInv

(* get_conn_elem: nobody has the connection, and it is not lost.           *)
LEMMA ConnForIs ==
  ASSUME LendInv, Reusable # {} \/ FreeConns # {}
  PROVE  /\ ConnFor \in Conns /\ ConnFor \notin busy
         /\ elem[ConnFor] # "DISCONNECTED"
         /\ \/ elem[ConnFor] = "FREE" /\ ConnFor \notin ToSet(idle)
            \/ elem[ConnFor] \notin {"FREE", "TCPCONNECTING"} /\ ConnFor \in ToSet(idle)
         /\ \A r \in Reqs : Owning(req[r]) => req[r].conn # ConnFor
<1>1. /\ idle \in Seq(Conns) /\ DOMAIN idle = 1..Len(idle) /\ Len(idle) \in Nat
      /\ \A i \in DOMAIN idle : idle[i] \in Conns /\ idle[i] \in ToSet(idle)
      /\ ToSet(idle) \cap busy = {}
      /\ \A c \in ToSet(idle) \cup busy : Open(elem[c])
  BY DEF LendInv, LendType, ListsInv, ToSet
<1>2. CASE Reusable # {}
  <2>1. Reusable \subseteq Nat
    BY <1>1 DEF Reusable
  <2>2. Min(Reusable) \in Reusable
    BY <1>2, <2>1, MinIs
  <2>3. ConnFor = idle[Min(Reusable)]
    BY <1>2 DEF ConnFor
  <2>4. /\ ConnFor \in Conns /\ ConnFor \in ToSet(idle)
        /\ elem[ConnFor] # "TCPCONNECTING"
    BY <1>1, <2>2, <2>3 DEF Reusable
  <2>5. Open(elem[ConnFor]) /\ ConnFor \notin busy
    BY <1>1, <2>4
  <2>. QED  BY <2>4, <2>5 DEF Open, LendInv, OwnersInv
<1>3. CASE Reusable = {}
  <2>1. FreeConns \subseteq Nat /\ FreeConns # {} /\ FreeConns \subseteq Conns
    BY <1>3 DEF FreeConns, Conns
  <2>2. Min(FreeConns) \in FreeConns
    BY <2>1, MinIs
  <2>3. ConnFor \in Conns /\ elem[ConnFor] = "FREE"
    BY <1>3, <2>1, <2>2 DEF ConnFor, FreeConns
  <2>4. ConnFor \notin ToSet(idle) /\ ConnFor \notin busy
    BY <1>1, <2>3 DEF Open
  <2>. QED  BY <2>3, <2>4 DEF LendInv, OwnersInv
<1>. QED  BY <1>2, <1>3

LEMMA NewReqIs ==
  /\ NewReq \in Request /\ NewReq.told = <<>> /\ ~NewReq.opened /\ NewReq.state = "NONE"
  /\ NewReq.cur = 0 /\ NewReq.kind = "get" /\ NewReq.ctx = None /\ ~NewReq.got226
  /\ ~NewReq.aborted
<1>1. "get" \in DOMAIN Steps /\ 0 \in 0..MaxConn
  BY FtpAssumption DEF Steps
<1>2. <<>> \in Seq({"OK", "FAILED", "CANCELED", "ABORTED"})
  OBVIOUS
<1>. QED  BY <1>1, <1>2 DEF NewReq, Request

LEMMA KindsIs ==
  ASSUME NEW r \in Reqs, NEW kind \in Kinds[r]
  PROVE  kind \in DOMAIN Steps
  BY FtpAssumption DEF Steps

(* A request as Start makes it.                                            *)
LEMMA StartIs ==
  ASSUME LendInv, NEW r \in Reqs, NEW kind, NEW size \in Nat, NEW tsize \in Nat,
         Start(r, kind, size, tsize)
  PROVE  /\ req' \in [Reqs -> Request] /\ \A k \in Reqs : k # r => req'[k] = req[k]
         /\ req[r].state = "NONE" /\ req'[r].state \in Active /\ Owning(req'[r])
         /\ req'[r].conn = ConnFor /\ req'[r].told = <<>> /\ ~req'[r].opened
         /\ req'[r].kind = kind /\ kind \in DOMAIN Steps
         /\ req'[r].size = size /\ req'[r].tsize = tsize /\ req'[r].ctx = None
         /\ ~req'[r].got226
         /\ IF elem[ConnFor] = "CONNECTED"
            THEN req'[r].state = "WAIT_RESP" /\ req'[r].cur = 1
            ELSE req'[r].state = "READY" /\ req'[r].cur = 0
         /\ req'[r].cur <= Len(Steps[kind])
         /\ ConnFor \in Conns /\ ConnFor \notin busy /\ elem[ConnFor] # "DISCONNECTED"
         /\ walk.kind # "abort"
<1>. DEFINE c == ConnFor
            q == [NewReq EXCEPT !.kind = kind, !.conn = c, !.size = size, !.tsize = tsize]
            p == IF elem[c] = "CONNECTED" THEN [q EXCEPT !.state = "WAIT_RESP", !.cur = 1]
                 ELSE [q EXCEPT !.state = "READY"]
<1>1. /\ req[r].state = "NONE" /\ kind \in Kinds[r] /\ walk.kind # "abort"
      /\ Reusable # {} \/ FreeConns # {}
      /\ req' = [req EXCEPT ![r] = p]
  BY DEF Start
<1>2. /\ c \in Conns /\ c \notin busy /\ elem[c] # "DISCONNECTED" /\ c \in 0..MaxConn
  BY <1>1, ConnForIs, FtpAssumption DEF Conns
<1>3. kind \in DOMAIN Steps /\ Len(Steps[kind]) \in 1..5
  BY <1>1, KindsIs, StepsSound DEF Sound
<1>. HIDE DEF c
<1>4. q \in Request /\ q.told = <<>> /\ ~q.opened /\ q.conn = c /\ q.kind = kind /\ q.cur = 0
      /\ q.size = size /\ q.tsize = tsize /\ q.ctx = None /\ ~q.got226
  BY <1>2, <1>3, NewReqIs DEF Request
<1>. HIDE DEF q
<1>5. /\ p \in Request /\ p.state \in Active /\ p.told = <<>> /\ ~p.opened /\ p.conn = c
      /\ p.kind = kind /\ p.cur \in {0, 1} /\ p.cur <= Len(Steps[kind])
      /\ p.size = size /\ p.tsize = tsize /\ p.ctx = None /\ ~p.got226
      /\ IF elem[c] = "CONNECTED" THEN p.state = "WAIT_RESP" /\ p.cur = 1
         ELSE p.state = "READY" /\ p.cur = 0
  <2>1. CASE elem[c] = "CONNECTED"
    <3>1. p = [q EXCEPT !.state = "WAIT_RESP", !.cur = 1]
      BY <2>1
    <3>2. p \in Request
      <4>1. q \in Request
        BY <1>4
      <4>2. 1 \in 0..5 /\ "WAIT_RESP" \in Active
        BY DEF Active
      <4>. HIDE DEF p
      <4>. QED  BY <3>1, <4>1, <4>2 DEF Request
    <3>3. /\ p.state = "WAIT_RESP" /\ p.told = <<>> /\ p.opened = q.opened /\ p.conn = c
          /\ p.kind = kind /\ p.cur = 1
          /\ p.size = size /\ p.tsize = tsize /\ p.ctx = None /\ p.got226 = q.got226
      BY <1>4, <3>1 DEF Request
    <3>. HIDE DEF p
    <3>4. p.state \in Active
      BY <3>3 DEF Active
    <3>5. p.cur <= Len(Steps[kind])
      <4>. DEFINE len == Len(Steps[kind])
                  cur == p.cur
      <4>1. cur = 1 /\ len \in 1..5
        BY <1>3, <3>3
      <4>. HIDE DEF len, cur
      <4>2. cur <= len
        BY <4>1
      <4>. QED  BY <4>2 DEF len, cur
    <3>. QED  BY <1>4, <2>1, <3>2, <3>3, <3>4, <3>5
  <2>2. CASE elem[c] # "CONNECTED"
    <3>1. p = [q EXCEPT !.state = "READY"]
      BY <2>2
    <3>. QED  BY <1>3, <1>4, <2>2, <3>1 DEF Request, Active
  <2>. QED  BY <2>1, <2>2
<1>. HIDE DEF p
<1>6. req \in [Reqs -> Request]
  BY DEF LendInv, LendType
<1>7. req' \in [Reqs -> Request] /\ req'[r] = p /\ \A k \in Reqs : k # r => req'[k] = req[k]
  BY <1>1, <1>5, <1>6
<1>. QED  BY <1>1, <1>2, <1>3, <1>5, <1>7 DEF c, Owning

LEMMA StartLends ==
  ASSUME LendInv, NEW r \in Reqs, NEW kind, NEW size \in Nat, NEW tsize \in Nat,
         Start(r, kind, size, tsize)
  PROVE  LendInv'
<1>. DEFINE c == ConnFor
<1>1. /\ idle' = Without(idle, c) /\ busy' = busy \cup {c}
      /\ elem' = IF elem[c] = "FREE" THEN [elem EXCEPT ![c] = "TCPCONNECTING"] ELSE elem
      /\ requests' = <<r>> \o requests /\ stack' = stack /\ walk' = walk
      /\ Reusable # {} \/ FreeConns # {}
  BY DEF Start, Taken
<1>2. /\ idle \in Seq(Conns) /\ IsInjective(idle) /\ requests \in Seq(Reqs)
      /\ IsInjective(requests) /\ elem \in [Conns -> ConnStates \cup {"FREE"}]
      /\ stack \in Seq(Reqs) /\ IsInjective(stack) /\ busy \subseteq Conns
      /\ ToSet(idle) \subseteq Conns
  BY DEF LendInv, LendType, ListsInv, ToSet
<1>3. /\ idle' \in Seq(Conns) /\ IsInjective(idle') /\ ToSet(idle') = ToSet(idle) \ {c}
  BY <1>1, <1>2, WithoutIs
<1>4. r \notin ToSet(requests) /\ r \notin ToSet(stack)
  BY StartIs DEF LendInv, CountedInv, Owning, Active
<1>5. /\ requests' \in Seq(Reqs) /\ IsInjective(requests')
      /\ ToSet(requests') = ToSet(requests) \cup {r}
  BY <1>1, <1>2, <1>4, ConsIs
<1>6. /\ c \in Conns /\ c \notin busy /\ elem[c] # "DISCONNECTED"
      /\ \A k \in Reqs : Owning(req[k]) => req[k].conn # c
  BY <1>1, ConnForIs
<1>7. /\ elem' \in [Conns -> ConnStates \cup {"FREE"}] /\ Open(elem'[c])
      /\ \A k \in Conns : k # c => elem'[k] = elem[k]
  BY <1>1, <1>2, <1>6 DEF ConnStates, Open
<1>8. /\ req' \in [Reqs -> Request] /\ \A k \in Reqs : k # r => req'[k] = req[k]
      /\ req[r].state = "NONE" /\ req'[r].state \in Active /\ Owning(req'[r])
      /\ req'[r].conn = c /\ req'[r].told = <<>> /\ ~req'[r].opened
      /\ req'[r].kind = kind /\ req'[r].cur <= Len(Steps[kind]) /\ walk.kind # "abort"
  BY StartIs
<1>. HIDE DEF c
<1>9. LendType'
  BY <1>1, <1>2, <1>3, <1>5, <1>6, <1>7, <1>8 DEF LendInv, LendType
<1>10. ListsInv'
  BY <1>1, <1>2, <1>3, <1>5, <1>6, <1>7 DEF LendInv, ListsInv
<1>11. OwnersInv'
  <2>1. /\ req'[r].conn \in Conns /\ req'[r].conn \in busy'
        /\ \A k \in Reqs : Owning(req'[k]) /\ req'[k].conn = c => k = r
    BY <1>1, <1>6, <1>8
  <2>2. \A k \in Reqs : k # r /\ Owning(req'[k]) =>
          /\ req'[k] = req[k] /\ req[k].conn # c /\ req[k].conn \in Conns
          /\ req[k].conn \in busy \/ (req[k].state = "DONE" /\ elem[req[k].conn] = "DISCONNECTED")
          /\ \A l \in Reqs : Owning(req[l]) /\ req[l].conn = req[k].conn => l = k
    BY <1>6, <1>8 DEF LendInv, OwnersInv
  <2>3. \A k \in Reqs : k # r /\ Owning(req'[k]) =>
          /\ req'[k].conn \in busy' \/ (req'[k].state = "DONE" /\ elem'[req'[k].conn] = "DISCONNECTED")
          /\ \A l \in Reqs : Owning(req'[l]) /\ req'[l].conn = req'[k].conn => l = k
    BY <1>1, <1>7, <1>8, <2>2
  <2>. QED  BY <1>8, <2>1, <2>2, <2>3 DEF OwnersInv, Owning
<1>12. ToldInv'
  <2>1. Len(req'[r].told) = 0 /\ req'[r].state \notin {"DONE", "FREED"}
    BY <1>8 DEF Active
  <2>. QED  BY <1>8, <2>1 DEF LendInv, ToldInv
<1>13. CountedInv'
  BY <1>1, <1>4, <1>5, <1>8 DEF LendInv, CountedInv, Active
<1>14. WalkInv'
  BY <1>1, <1>8 DEF WalkInv
<1>. QED  BY <1>9, <1>10, <1>11, <1>12, <1>13, <1>14 DEF LendInv

(* The request whose callback returns, and what it leaves.                 *)
LEMMA ReturnIs ==
  ASSUME LendInv, Return
  PROVE  \E r \in Reqs :
           /\ r = Last(stack) /\ req[r].state = "DONE"
           /\ req' \in [Reqs -> Request] /\ \A k \in Reqs : k # r => req'[k] = req[k]
           /\ req'[r].state = "FREED" /\ req'[r].told = req[r].told
           /\ ~req'[r].opened /\ req'[r].cur = 0 /\ req'[r].kind = req[r].kind
           /\ stack' \in Seq(Reqs) /\ IsInjective(stack') /\ ToSet(stack') = ToSet(stack) \ {r}
           /\ requests' = Without(requests, r) /\ idle' = GivenBack(req[r].conn)
           /\ busy' = busy \ {req[r].conn}
<1>1. stack # <<>> /\ stack \in Seq(Reqs) /\ IsInjective(stack) /\ req \in [Reqs -> Request]
  BY DEF Return, LendInv, LendType, ListsInv
<1>. DEFINE r == Last(stack)
            p == [NewReq EXCEPT !.state = "FREED", !.kind = req[r].kind, !.told = req[r].told]
<1>2. /\ r \in Reqs /\ r \in ToSet(stack) /\ Front(stack) \in Seq(Reqs)
      /\ IsInjective(Front(stack)) /\ ToSet(Front(stack)) = ToSet(stack) \ {r}
  BY <1>1, FrontIs
<1>3. /\ stack' = Front(stack) /\ requests' = Without(requests, r)
      /\ idle' = GivenBack(req[r].conn) /\ busy' = busy \ {req[r].conn}
      /\ req' = [req EXCEPT ![r] = p]
  BY DEF Return
<1>. HIDE DEF r
<1>4. req[r].state = "DONE"
  BY <1>2 DEF LendInv, CountedInv
<1>5. /\ p \in Request /\ p.state = "FREED" /\ p.told = req[r].told /\ ~p.opened /\ p.cur = 0
      /\ p.kind = req[r].kind
  BY <1>1, <1>2, NewReqIs DEF Request
<1>. HIDE DEF p
<1>6. /\ req' \in [Reqs -> Request] /\ \A k \in Reqs : k # r => req'[k] = req[k]
      /\ req'[r] = p
  BY <1>1, <1>2, <1>3, <1>5
<1>7. r = Last(stack)
  BY DEF r
<1>. QED  BY <1>2, <1>3, <1>4, <1>5, <1>6, <1>7

LEMMA ReturnLends ==
  ASSUME LendInv, Return
  PROVE  LendInv'
<1>1. PICK r \in Reqs :
           /\ r = Last(stack) /\ req[r].state = "DONE"
           /\ req' \in [Reqs -> Request] /\ \A k \in Reqs : k # r => req'[k] = req[k]
           /\ req'[r].state = "FREED" /\ req'[r].told = req[r].told
           /\ ~req'[r].opened /\ req'[r].cur = 0 /\ req'[r].kind = req[r].kind
           /\ stack' \in Seq(Reqs) /\ IsInjective(stack') /\ ToSet(stack') = ToSet(stack) \ {r}
           /\ requests' = Without(requests, r) /\ idle' = GivenBack(req[r].conn)
           /\ busy' = busy \ {req[r].conn}
  BY ReturnIs
<1>. DEFINE c == req[r].conn
<1>2. /\ idle \in Seq(Conns) /\ IsInjective(idle) /\ requests \in Seq(Reqs)
      /\ IsInjective(requests) /\ busy \subseteq Conns
      /\ ToSet(idle) \cap busy = {} /\ ToSet(idle) \subseteq Conns
      /\ Owning(req[r]) /\ c \in Conns
      /\ c \in busy \/ elem[c] = "DISCONNECTED"
      /\ \A k \in ToSet(idle) \cup busy : Open(elem[k])
  BY <1>1 DEF LendInv, LendType, ListsInv, OwnersInv, Owning, ToSet
<1>3. /\ requests' \in Seq(Reqs) /\ IsInjective(requests')
      /\ ToSet(requests') = ToSet(requests) \ {r}
  BY <1>1, <1>2, WithoutIs
<1>4. /\ idle' \in Seq(Conns) /\ IsInjective(idle')
      /\ ToSet(idle') = IF c \in busy THEN ToSet(idle) \cup {c} ELSE ToSet(idle)
  <2>1. CASE c \in busy
    <3>1. idle' = Append(idle, c) /\ c \notin ToSet(idle)
      BY <1>1, <1>2, <2>1 DEF GivenBack
    <3>. QED  BY <1>2, <2>1, <3>1, AppendIs
  <2>2. CASE c \notin busy
    BY <1>1, <1>2, <2>2 DEF GivenBack
  <2>. QED  BY <2>1, <2>2
<1>5. elem' = elem /\ walk' = walk
  BY DEF Return
<1>6. LendType'
  BY <1>1, <1>2, <1>3, <1>4, <1>5 DEF LendInv, LendType
<1>7. ListsInv'
  BY <1>1, <1>2, <1>3, <1>4, <1>5 DEF ListsInv
<1>8. OwnersInv'
  <2>1. ~Owning(req'[r])
    BY <1>1 DEF Owning, Active
  <2>2. \A k \in Reqs : k # r /\ Owning(req[k]) => req[k].conn # c
    BY <1>2 DEF LendInv, OwnersInv
  <2>. QED  BY <1>1, <1>5, <2>1, <2>2 DEF LendInv, OwnersInv
<1>9. ToldInv'
  <2>1. Len(req[r].told) = 1 /\ req'[r].kind \in DOMAIN Steps
    BY <1>1 DEF LendInv, ToldInv, LendType, Request
  <2>2. req'[r].cur <= Len(Steps[req'[r].kind])
    BY <1>1, <2>1, StepsSound DEF Sound
  <2>. QED  BY <1>1, <2>1, <2>2 DEF LendInv, ToldInv
<1>10. CountedInv'
  <2>1. ~Owning(req'[r]) /\ req'[r].state # "DONE"
    BY <1>1 DEF Owning, Active
  <2>. QED  BY <1>1, <1>3, <2>1 DEF LendInv, CountedInv
<1>11. WalkInv'
  BY <1>1, <1>5 DEF LendInv, WalkInv, Active
<1>. QED  BY <1>6, <1>7, <1>8, <1>9, <1>10, <1>11 DEF LendInv

(***************************************************************************)
(* The events                                                              *)
(***************************************************************************)

LEMMA KeptFields ==
  ASSUME NEW p, NEW q, Kept(p, q)
  PROVE  /\ \A x \in Active : Kept(p, [q EXCEPT !.state = x])
         /\ \A b \in BOOLEAN : /\ Kept(p, [q EXCEPT !.opened = b])
                               /\ Kept(p, [q EXCEPT !.got226 = b])
                               /\ Kept(p, [q EXCEPT !.aborted = b])
         /\ Kept(p, [q EXCEPT !.opened = FALSE, !.ctx = None])
         /\ \A x \in Reqs \cup {None} : Kept(p, [q EXCEPT !.ctx = x])
         /\ \A n \in Nat : Kept(p, [q EXCEPT !.size = n]) /\ Kept(p, [q EXCEPT !.tsize = n])
<1>1. /\ q \in Request /\ q.state \in Active
      /\ q.conn = p.conn /\ q.told = p.told /\ q.kind = p.kind
      /\ q.cur <= Len(Steps[q.kind])
  BY DEF Kept
<1>2. Active \subseteq Active \cup {"NONE", "DONE", "FREED"}
  OBVIOUS
<1>3. ASSUME NEW x \in Active PROVE Kept(p, [q EXCEPT !.state = x])
  BY <1>1, <1>2 DEF Kept, Request
<1>4. ASSUME NEW b \in BOOLEAN
      PROVE  /\ Kept(p, [q EXCEPT !.opened = b])
             /\ Kept(p, [q EXCEPT !.got226 = b])
             /\ Kept(p, [q EXCEPT !.aborted = b])
  BY <1>1 DEF Kept, Request
<1>5. ASSUME NEW x \in Reqs \cup {None} PROVE Kept(p, [q EXCEPT !.ctx = x])
  BY <1>1 DEF Kept, Request
<1>6. ASSUME NEW n \in Nat
      PROVE  Kept(p, [q EXCEPT !.size = n]) /\ Kept(p, [q EXCEPT !.tsize = n])
  BY <1>1 DEF Kept, Request
<1>7. Kept(p, [q EXCEPT !.opened = FALSE, !.ctx = None])
  BY <1>1 DEF Kept, Request
<1>. QED  BY <1>3, <1>4, <1>5, <1>6, <1>7

LEMMA GoesIs ==
  ASSUME NEW r \in Reqs, req[r].state \in Active, NEW p, Kept(req[r], p),
         req' = [req EXCEPT ![r] = p], stack' = stack
  PROVE  Goes(r)
  BY DEF Goes, Kept

LEMMA SendNextHandled ==
  ASSUME LendInv, NEW r \in Reqs, req[r].state \in Active, NEW q, Kept(req[r], q), NEW n,
         SendNext(r, q, n)
  PROVE  Goes(r) \/ Ends(r)
<1>1. CASE q.cur = Len(Steps[q.kind])
  BY <1>1, EndIs DEF SendNext, Ways
<1>2. CASE q.cur # Len(Steps[q.kind])
  <2>. DEFINE p == [q EXCEPT !.state = "WAIT_RESP", !.cur = q.cur + 1]
              len == Len(Steps[q.kind])
              cur == q.cur
  <2>1. q \in Request /\ q.kind \in DOMAIN Steps /\ q.cur \in 0..5 /\ q.cur <= Len(Steps[q.kind])
        /\ q.conn = req[r].conn /\ q.told = req[r].told /\ q.kind = req[r].kind
    BY DEF Kept, Request
  <2>2. cur \in 0..5 /\ cur <= len /\ cur # len /\ len \in 1..5
    BY <1>2, <2>1, StepsSound DEF Sound
  <2>. HIDE DEF cur, len
  <2>3. cur + 1 \in 0..5 /\ cur + 1 <= len
    BY <2>2
  <2>4. p = [q EXCEPT !.state = "WAIT_RESP", !.cur = cur + 1]
    BY DEF cur
  <2>. HIDE DEF p
  <2>5. p \in Request /\ p.state = "WAIT_RESP" /\ p.conn = q.conn /\ p.told = q.told
        /\ p.kind = q.kind /\ p.cur = cur + 1
    BY <2>1, <2>3, <2>4 DEF Request, Active
  <2>6. Kept(req[r], p)
    BY <2>1, <2>3, <2>5 DEF Kept, len, Active
  <2>7. req' = [req EXCEPT ![r] = p] /\ stack' = stack
    BY <1>2 DEF SendNext, p
  <2>. QED  BY <2>6, <2>7, GoesIs
<1>. QED  BY <1>1, <1>2

LEMMA DataReadHandled ==
  ASSUME LendInv, NEW r \in Reqs, req[r].state \in Active, NEW q, Kept(req[r], q),
         NEW readable \in BOOLEAN, DataRead(r, q, readable)
  PROVE  Goes(r) \/ Ends(r)
<1>1. CASE readable /\ data[r].sent < Total(q.kind)
  <2>1. q.size \in Nat /\ q.size + 1 \in Nat
    BY DEF Kept, Request
  <2>2. req' = [req EXCEPT ![r] = [q EXCEPT !.size = q.size + 1]] /\ stack' = stack
    BY <1>1 DEF DataRead
  <2>. QED  BY <2>1, <2>2, KeptFields, GoesIs
<1>2. CASE ~(readable /\ data[r].sent < Total(q.kind)) /\ ServerDone(q)
  BY <1>2, EndIs DEF DataRead, Ways
<1>3. CASE ~(readable /\ data[r].sent < Total(q.kind)) /\ ~ServerDone(q)
  <2>1. req' = [req EXCEPT ![r] = [q EXCEPT !.opened = FALSE, !.ctx = None]] /\ stack' = stack
    BY <1>3 DEF DataRead
  <2>. QED  BY <2>1, KeptFields, GoesIs
<1>. QED  BY <1>1, <1>2, <1>3

LEMMA RecvRespHandled ==
  ASSUME LendInv, NEW r \in Reqs, req[r].state \in Active,
         NEW p, p.of \in Reqs \cup {None}, NEW n, RecvResp(r, p, n)
  PROVE  Handled
<1>. DEFINE q == req[r]
<1>1. Kept(req[r], q)
  BY KeptSame
<1>2. "READY" \in Active /\ "STREAMING" \in Active /\ "WAIT_RESP" \in Active /\ FileLen \in Nat
  BY FtpAssumption DEF Active
<1>3. CASE EndOfTransfer(r, n)
  <2>1. Kept(req[r], [req[r] EXCEPT !.got226 = TRUE])
    BY <1>1, KeptFields
  <2>2. CASE ClosedFirst(req[r])
    BY <1>3, <2>1, <2>2, EndIs DEF EndOfTransfer, Handled, Ways
  <2>3. CASE ~ClosedFirst(req[r])
    <3>1. req' = [req EXCEPT ![r] = [req[r] EXCEPT !.got226 = TRUE]] /\ stack' = stack
      BY <1>3, <2>3 DEF EndOfTransfer, LendInv, LendType
    <3>. QED  BY <2>1, <3>1, GoesIs DEF Handled
  <2>. QED  BY <2>2, <2>3
<1>4. CASE Ignored(n) \/ NoStream(r, n)
  BY <1>4 DEF Ignored, NoStream, Handled
<1>5. CASE Unexpected(r, n)
  BY <1>1, <1>5, EndIs DEF Unexpected, Handled, Ways
<1>6. CASE SendNext(r, [Managed(q, p) EXCEPT !.state = "READY"], n)
  <2>1. Kept(req[r], Managed(q, p))
    <3>1. CASE p.code = 229
      <4>1. Managed(q, p) = [q EXCEPT !.ctx = p.of]
        BY <3>1 DEF Managed
      <4>2. \A x \in Reqs \cup {None} : Kept(req[r], [q EXCEPT !.ctx = x])
        BY <1>1, KeptFields
      <4>. QED  BY <4>1, <4>2
    <3>2. CASE p.code = 213
      <4>1. Managed(q, p) = [q EXCEPT !.tsize = FileLen]
        BY <3>2 DEF Managed
      <4>2. \A x \in Nat : Kept(req[r], [q EXCEPT !.tsize = x])
        BY <1>1, KeptFields
      <4>. QED  BY <1>2, <4>1, <4>2
    <3>3. CASE p.code # 229 /\ p.code # 213
      BY <1>1, <3>3 DEF Managed
    <3>. QED  BY <3>1, <3>2, <3>3
  <2>2. Kept(req[r], [Managed(q, p) EXCEPT !.state = "READY"])
    BY <1>2, <2>1, KeptFields
  <2>. QED  BY <1>6, <2>2, SendNextHandled DEF Handled
<1>7. CASE StreamIn(r, n)
  <2>1. req' = [req EXCEPT ![r] = [req[r] EXCEPT !.state = "STREAMING"]] /\ stack' = stack
    BY <1>7 DEF StreamIn, LendInv, LendType
  <2>2. Kept(req[r], [req[r] EXCEPT !.state = "STREAMING"])
    BY <1>1, <1>2, KeptFields
  <2>. QED  BY <2>1, <2>2, GoesIs DEF Handled
<1>8. CASE StreamOut(r, n)
  <2>1. Kept(req[r], [req[r] EXCEPT !.state = "STREAMING"])
    BY <1>1, <1>2, KeptFields
  <2>. QED  BY <1>8, <2>1, DataReadHandled DEF StreamOut, Handled
<1>. QED  BY <1>3, <1>4, <1>5, <1>6, <1>7, <1>8 DEF RecvResp

(* Everything HandledLends asks for besides Handled.                       *)
LinesKept ==
    /\ requests' = requests /\ idle' = idle /\ busy' = busy /\ walk' = walk
    /\ elem' \in [Conns -> ConnStates \cup {"FREE"}]
    /\ \A c \in Conns : Open(elem[c]) => Open(elem'[c])
    /\ \A c \in Conns : elem[c] = "DISCONNECTED" => elem'[c] = "DISCONNECTED"

LEMMA KeptLends ==
  ASSUME LendInv, Handled, LinesKept
  PROVE  LendInv'
<1>1. walk \in [kind : {"none", "cancel", "abort"}, todo : Seq(Reqs)]
  BY DEF LendInv, LendType
<1>. QED  BY <1>1, HandledLends DEF LinesKept

LEMMA SameLines ==
  ASSUME LendInv, UNCHANGED <<requests, elem, idle, busy, walk>>
  PROVE  LinesKept
  BY DEF LinesKept, LendInv, LendType, Open

LEMMA DataLends ==
  ASSUME LendInv, NEW r \in Reqs,
         DataStart(r) \/ DataRecv(r) \/ DataStop(r) \/ DataSent(r)
  PROVE  LendInv'
<1>1. LinesKept
  <2>1. UNCHANGED <<requests, elem, idle, busy, walk>>
    BY DEF DataStart, DataRecv, DataStop, DataSent
  <2>. QED  BY <2>1, SameLines
<1>2. req[r].state \in Active
  BY DEF DataStart, DataRecv, DataStop, DataSent, LendInv, ToldInv, Active
<1>3. Kept(req[r], req[r]) /\ req \in [Reqs -> Request] /\ req[r].size + 1 \in Nat
  BY <1>2, KeptSame DEF LendInv, LendType, Request
<1>4. CASE DataStart(r)
  <2>1. req' = [req EXCEPT ![r] = [req[r] EXCEPT !.opened = TRUE]] /\ stack' = stack
    BY <1>3, <1>4 DEF DataStart
  <2>2. Handled
    BY <1>2, <1>3, <2>1, KeptFields, GoesIs DEF Handled
  <2>. QED  BY <1>1, <2>2, KeptLends
<1>5. CASE DataRecv(r)
  <2>. DEFINE q == [req[r] EXCEPT !.size = req[r].size + 1]
  <2>1. Kept(req[r], q)
    BY <1>3, KeptFields
  <2>2. \/ req' = [req EXCEPT ![r] = q] /\ stack' = stack
        \/ req' = [req EXCEPT ![r] = Stopped(q, "FAILED")] /\ stack' = Append(stack, r)
    BY <1>5 DEF DataRecv
  <2>. HIDE DEF q
  <2>3. CASE req' = [req EXCEPT ![r] = q] /\ stack' = stack
    BY <1>1, <1>2, <2>1, <2>3, GoesIs, KeptLends DEF Handled
  <2>4. CASE req' = [req EXCEPT ![r] = Stopped(q, "FAILED")] /\ stack' = Append(stack, r)
    <3>1. q \in Request /\ "FAILED" \in Ways
      BY <2>1 DEF Kept, Ways
    <3>2. Ends(r)
      BY <1>2, <2>1, <2>4, <3>1 DEF Ends
    <3>. QED  BY <1>1, <3>2, KeptLends DEF Handled
  <2>. QED  BY <2>2, <2>3, <2>4
<1>6. CASE DataStop(r)
  <2>. DEFINE q == [req[r] EXCEPT !.opened = FALSE, !.ctx = None]
  <2>1. Kept(req[r], q)
    BY <1>3, KeptFields
  <2>2. End(r, q, "OK") \/ (req' = [req EXCEPT ![r] = q] /\ stack' = stack)
    BY <1>6 DEF DataStop
  <2>. HIDE DEF q
  <2>3. Ends(r) \/ Goes(r)
    BY <1>2, <2>1, <2>2, EndIs, GoesIs DEF Ways
  <2>. QED  BY <1>1, <2>3, KeptLends DEF Handled
<1>7. CASE DataSent(r)
  <2>1. PICK readable \in BOOLEAN : DataRead(r, req[r], readable)
    BY <1>7 DEF DataSent
  <2>. QED  BY <1>1, <1>2, <1>3, <2>1, DataReadHandled, KeptLends DEF Handled
<1>. QED  BY <1>4, <1>5, <1>6, <1>7

LEMMA ReceiveLends ==
  ASSUME LendInv, WireType, NEW c \in Conns, Receive(c)
  PROVE  LendInv'
<1>. DEFINE p == Head(net[c].down)
            n == [net EXCEPT ![c].down = Tail(net[c].down)]
<1>1. /\ Open(elem[c]) /\ elem[c] # "TCPCONNECTING" /\ requests' = requests /\ walk' = walk
      /\ \/ Login(c, p, n)
         \/ /\ elem[c] = "CONNECTED"
            /\ IF Users(c) = {} THEN Ignored(n) ELSE \E r \in Users(c) : RecvResp(r, p, n)
            /\ UNCHANGED <<elem, idle, busy>>
  BY DEF Receive, Open
<1>2. p.of \in Reqs \cup {None}
  <2>1. /\ net[c].down \in Seq([code : Codes, of : Reqs \cup {None}]) /\ net[c].down # <<>>
    BY DEF WireType, NetConn, Receive
  <2>2. p \in [code : Codes, of : Reqs \cup {None}]
    BY <2>1, TailIs
  <2>. QED  BY <2>2
<1>. HIDE DEF p, n
<1>3. CASE Login(c, p, n)
  <2>1. CASE Disconnected(c)
    BY <1>1, <2>1, DisconnectedLends
  <2>2. elem \in [Conns -> ConnStates \cup {"FREE"}]
    BY DEF LendInv, LendType
  <2>3. ASSUME NEW s \in ConnStates \ {"DISCONNECTED"}, elem' = [elem EXCEPT ![c] = s],
               UNCHANGED <<idle, busy>>
        PROVE  LinesKept
    BY <1>1, <2>2, <2>3 DEF LinesKept, Open, ConnStates
  <2>4. CASE /\ elem[c] \in DOMAIN LoginNext /\ elem' = [elem EXCEPT ![c] = LoginNext[elem[c]]]
             /\ UNCHANGED <<req, stack, idle, busy>>
    <3>1. LoginNext[elem[c]] \in ConnStates \ {"DISCONNECTED"}
      BY <2>4 DEF LoginNext, ConnStates
    <3>. QED  BY <2>3, <2>4, <3>1, KeptLends DEF Handled
  <2>5. CASE Connected(c, n)
    <3>1. LinesKept
      BY <2>3, <2>5 DEF Connected, ConnStates
    <3>2. Handled
      <4>1. CASE \E r \in Users(c) : req[r].state = "READY"
        <5>1. PICK r \in Users(c) : SendNext(r, req[r], n)
          BY <2>5, <4>1 DEF Connected
        <5>2. r \in Reqs /\ req[r].state \in Active
          BY DEF Users
        <5>. QED  BY <5>1, <5>2, KeptSame, SendNextHandled DEF Handled
      <4>2. CASE ~ \E r \in Users(c) : req[r].state = "READY"
        BY <2>5, <4>2 DEF Connected, Handled
      <4>. QED  BY <4>1, <4>2
    <3>. QED  BY <3>1, <3>2, KeptLends
  <2>. QED  BY <1>3, <2>1, <2>4, <2>5 DEF Login
<1>4. CASE /\ IF Users(c) = {} THEN Ignored(n) ELSE \E r \in Users(c) : RecvResp(r, p, n)
           /\ UNCHANGED <<elem, idle, busy>>
  <2>1. LinesKept
    BY <1>1, <1>4, SameLines
  <2>2. Handled
    BY <1>2, <1>4, RecvRespHandled DEF Ignored, Handled, Users
  <2>. QED  BY <2>1, <2>2, KeptLends
<1>. QED  BY <1>1, <1>3, <1>4

LEMMA CancelNowHandled ==
  ASSUME LendInv, NEW r \in Reqs, req[r].state \in Active, NEW q, Kept(req[r], q), CancelNow(r, q)
  PROVE  Ends(r)
  BY EndIs DEF CancelNow, Ways

LEMMA CancelLends ==
  ASSUME LendInv, NEW r \in Reqs, Cancel(r)
  PROVE  LendInv'
<1>1. req[r].state \in Active /\ CancelNow(r, req[r])
      /\ UNCHANGED <<requests, elem, idle, busy, walk>>
  BY DEF Cancel, CanStop
<1>2. Ends(r)
  BY <1>1, KeptSame, CancelNowHandled
<1>. QED  BY <1>1, <1>2, SameLines, KeptLends DEF Handled

LEMMA WalkStepLends ==
  ASSUME LendInv, WalkStep
  PROVE  LendInv'
<1>. DEFINE r == Head(walk.todo)
<1>1. /\ walk.todo # <<>> /\ walk.todo \in Seq(Reqs)
      /\ walk \in [kind : {"none", "cancel", "abort"}, todo : Seq(Reqs)]
      /\ walk' = [walk EXCEPT !.todo = Tail(walk.todo)]
      /\ UNCHANGED <<requests, elem, idle, busy>>
      /\ \/ CanStop(r) /\ CancelNow(r, [req[r] EXCEPT !.aborted = (walk.kind = "abort")])
         \/ ~CanStop(r) /\ req' = req /\ stack' = stack
  BY DEF WalkStep, LendInv, LendType
<1>2. r \in Reqs /\ Tail(walk.todo) \in Seq(Reqs)
      /\ ToSet(walk.todo) = ToSet(Tail(walk.todo)) \cup {r}
  BY <1>1, TailIs
<1>. HIDE DEF r
<1>3. /\ walk' \in [kind : {"none", "cancel", "abort"}, todo : Seq(Reqs)]
      /\ walk'.kind = walk.kind /\ walk'.todo = Tail(walk.todo)
  BY <1>1, <1>2
<1>4. Handled /\ req'[r].state \notin Active
  <2>1. CASE CanStop(r) /\ CancelNow(r, [req[r] EXCEPT !.aborted = (walk.kind = "abort")])
    <3>1. req[r].state \in Active
      BY <2>1 DEF CanStop
    <3>2. (walk.kind = "abort") \in BOOLEAN
      OBVIOUS
    <3>3. Kept(req[r], [req[r] EXCEPT !.aborted = (walk.kind = "abort")])
      <4>1. \A b \in BOOLEAN : Kept(req[r], [req[r] EXCEPT !.aborted = b])
        BY <1>2, <3>1, KeptSame, KeptFields
      <4>. QED  BY <3>2, <4>1
    <3>4. Ends(r)
      BY <1>2, <2>1, <3>1, <3>3, CancelNowHandled
    <3>5. Handled
      BY <1>2, <3>4 DEF Handled
    <3>6. stack' = Append(stack, r) /\ stack \in Seq(Reqs)
      BY <3>4 DEF Ends, LendInv, LendType
    <3>7. r \in ToSet(stack')
      BY <1>2, <3>6, AppendIs
    <3>8. req'[r].state = "DONE"
      BY <1>2, <3>5, <3>7, HandledIs
    <3>. QED  BY <3>5, <3>8 DEF Active
  <2>2. CASE ~CanStop(r) /\ req' = req /\ stack' = stack
    BY <2>2 DEF CanStop, Handled
  <2>. QED  BY <1>1, <2>1, <2>2
<1>5. /\ elem' \in [Conns -> ConnStates \cup {"FREE"}]
      /\ \A c \in Conns : elem'[c] = elem[c]
  BY <1>1 DEF LendInv, LendType
<1>6. \A k \in Reqs : k \in ToSet(walk.todo) /\ req'[k].state \in Active => k \in ToSet(walk'.todo)
  BY <1>2, <1>3, <1>4
<1>. QED  BY <1>1, <1>3, <1>4, <1>5, <1>6, HandledLends

LEMMA WalkLends ==
  ASSUME LendInv, NEW kind \in {"cancel", "abort"}, Walk(kind)
  PROVE  LendInv'
<1>1. /\ walk' = [kind |-> kind, todo |-> requests]
      /\ UNCHANGED <<req, requests, elem, idle, busy, stack>>
  BY DEF Walk
<1>2. LendType' /\ ListsInv' /\ OwnersInv' /\ ToldInv' /\ CountedInv'
  BY <1>1 DEF LendInv, LendType, ListsInv, OwnersInv, ToldInv, CountedInv
<1>3. WalkInv'
  <2>1. walk'.todo = requests
    BY <1>1
  <2>. QED  BY <1>1, <2>1 DEF LendInv, CountedInv, WalkInv, Owning
<1>. QED  BY <1>2, <1>3 DEF LendInv

(* After arsdk_ftp_stop has visited all, no request holds a connection.    *)
LEMMA NobodyLeft ==
  ASSUME LendInv, stack = <<>>, walk.kind = "abort", walk.todo = <<>>
  PROVE  \A r \in Reqs : ~Owning(req[r])
<1>1. ToSet(<<>>) = {}
  BY DEF ToSet
<1>. QED  BY <1>1 DEF LendInv, CountedInv, WalkInv, Owning

LEMMA WalkEndLends ==
  ASSUME LendInv, WalkEnd
  PROVE  LendInv'
<1>1. /\ stack = <<>> /\ walk.todo = <<>> /\ walk' = [kind |-> "none", todo |-> <<>>]
      /\ UNCHANGED <<req, requests, stack>> /\ walk'.kind = "none"
      /\ walk.kind \in {"cancel", "abort"}
  BY DEF WalkEnd, LendInv, LendType
<1>2. CASE walk.kind = "cancel"
  <2>1. UNCHANGED <<elem, idle, busy>>
    BY <1>2 DEF WalkEnd
  <2>. QED  BY <1>1, <2>1
            DEF LendInv, LendType, ListsInv, OwnersInv, ToldInv, CountedInv, WalkInv
<1>3. CASE walk.kind = "abort"
  <2>. DEFINE kept == {c \in Conns : c \notin busy /\ c \notin ToSet(idle)}
  <2>1. /\ elem' = [c \in Conns |-> IF c \in kept THEN elem[c] ELSE "FREE"]
        /\ idle' = <<>> /\ busy' = {}
    BY <1>3 DEF WalkEnd
  <2>. HIDE DEF kept
  <2>2. \A r \in Reqs : ~Owning(req[r])
    BY <1>1, <1>3, NobodyLeft
  <2>3. ToSet(idle') = {} /\ IsInjective(idle') /\ idle' \in Seq(Conns)
    BY <2>1 DEF ToSet, IsInjective
  <2>4. LendType'
    BY <1>1, <2>1, <2>3 DEF LendInv, LendType
  <2>5. ListsInv'
    BY <1>1, <2>1, <2>3 DEF LendInv, ListsInv
  <2>6. OwnersInv'
    BY <1>1, <2>2 DEF OwnersInv, Owning
  <2>. QED  BY <1>1, <2>4, <2>5, <2>6 DEF LendInv, ToldInv, CountedInv, WalkInv
<1>. QED  BY <1>1, <1>2, <1>3

LEMMA DestroyElemLends ==
  ASSUME LendInv, NEW c \in Conns, DestroyElem(c)
  PROVE  LendInv'
<1>1. /\ stack = <<>> /\ elem[c] = "DISCONNECTED" /\ elem' = [elem EXCEPT ![c] = "FREE"]
      /\ UNCHANGED <<req, requests, idle, busy, stack, walk>>
      /\ elem \in [Conns -> ConnStates \cup {"FREE"}]
  BY DEF DestroyElem, Looping, LendInv, LendType
<1>2. /\ elem' \in [Conns -> ConnStates \cup {"FREE"}]
      /\ \A k \in Conns : k # c => elem'[k] = elem[k]
      /\ c \notin busy /\ c \notin ToSet(idle)
      /\ ToSet(idle) \subseteq Conns
  BY <1>1 DEF LendInv, LendType, ListsInv, Open, ToSet
<1>3. \A r \in Reqs : req[r].state # "DONE"
  <2>1. ToSet(stack) = {}
    BY <1>1 DEF ToSet
  <2>. QED  BY <2>1 DEF LendInv, CountedInv
<1>4. LendType' /\ ToldInv' /\ CountedInv' /\ WalkInv'
  BY <1>1, <1>2 DEF LendInv, LendType, ToldInv, CountedInv, WalkInv
<1>5. ListsInv'
  BY <1>1, <1>2 DEF LendInv, ListsInv, LendType
<1>6. OwnersInv'
  BY <1>1, <1>2, <1>3 DEF LendInv, OwnersInv
<1>. QED  BY <1>4, <1>5, <1>6 DEF LendInv

LEMMA LendUnchanged ==
  ASSUME LendInv, UNCHANGED <<req, requests, elem, idle, busy, stack, walk>>
  PROVE  LendInv'
  BY DEF LendInv, LendType, ListsInv, OwnersInv, ToldInv, CountedInv, WalkInv

LEMMA TcpLends ==
  ASSUME LendInv, NEW c \in Conns, TcpConnected(c) \/ TcpDisconnected(c)
  PROVE  LendInv'
<1>1. CASE TcpConnected(c)
  <2>1. /\ elem[c] = "TCPCONNECTING" /\ elem' = [elem EXCEPT ![c] = "FTPCONNECTING"]
        /\ UNCHANGED <<req, requests, idle, busy, stack, walk>>
        /\ elem \in [Conns -> ConnStates \cup {"FREE"}]
    BY <1>1 DEF TcpConnected, LendInv, LendType
  <2>2. LinesKept
    BY <2>1 DEF LinesKept, Open, ConnStates
  <2>. QED  BY <2>1, <2>2, KeptLends DEF Handled
<1>2. CASE TcpDisconnected(c)
  BY <1>2, DisconnectedLends DEF TcpDisconnected, Open
<1>. QED  BY <1>1, <1>2

LEMMA InitLends == Init => LendInv
<1>. SUFFICES ASSUME Init PROVE LendInv
  OBVIOUS
<1>1. /\ req \in [Reqs -> Request] /\ \A r \in Reqs : req[r] = NewReq
      /\ requests = <<>> /\ idle = <<>> /\ busy = {} /\ stack = <<>>
      /\ elem = [c \in Conns |-> "FREE"] /\ walk = [kind |-> "none", todo |-> <<>>]
  BY NewReqIs DEF Init
<1>2. ToSet(<<>>) = {} /\ IsInjective(<<>>)
  BY DEF ToSet, IsInjective
<1>3. \A S : <<>> \in Seq(S)
  OBVIOUS
<1>4. LendType
  BY <1>1, <1>3 DEF LendType
<1>5. ListsInv
  BY <1>1, <1>2 DEF ListsInv
<1>6. \A r \in Reqs : ~Owning(req[r]) /\ req[r].state \notin {"DONE", "FREED"}
  BY <1>1, NewReqIs DEF Owning, Active
<1>7. \A r \in Reqs : Len(req[r].told) = 0 /\ ~req[r].opened /\ req[r].cur <= Len(Steps[req[r].kind])
  <2>1. Len(Steps["get"]) \in 1..5
    BY StepsSound DEF Sound, Steps
  <2>2. NewReq.cur <= Len(Steps[NewReq.kind])
    BY <2>1, NewReqIs
  <2>. QED  BY <1>1, <2>2, NewReqIs
<1>8. ToldInv
  BY <1>6, <1>7 DEF ToldInv
<1>9. OwnersInv /\ CountedInv /\ WalkInv
  BY <1>1, <1>2, <1>6 DEF OwnersInv, CountedInv, WalkInv
<1>. QED  BY <1>4, <1>5, <1>8, <1>9 DEF LendInv

(***************************************************************************)
(* The types of what is on the way                                         *)
(***************************************************************************)

Net == [Conns -> NetConn]

LEMMA NetIs ==
  ASSUME NEW n \in Net, NEW c \in Conns
  PROVE  /\ n[c] \in NetConn /\ n[c].up \in Seq(Commands) /\ n[c].down \in Seq(Answers)
         /\ n[c].job \in Reqs \cup {None}
         /\ \A up \in Seq(Commands) : [n EXCEPT ![c].up = up] \in Net
         /\ \A down \in Seq(Answers) : [n EXCEPT ![c].down = down] \in Net
         /\ \A up \in Seq(Commands), down \in Seq(Answers) :
              [n EXCEPT ![c].up = up, ![c].down = down] \in Net
         /\ \A up \in Seq(Commands), down \in Seq(Answers), job \in Reqs \cup {None} :
              [n EXCEPT ![c].up = up, ![c].job = job, ![c].down = down] \in Net
         /\ \A down \in Seq(Answers), job \in Reqs \cup {None} :
              [n EXCEPT ![c].job = job, ![c].down = down] \in Net
  BY DEF Net, NetConn, Answers

LEMMA NewNetIs == NewNet \in NetConn
  BY DEF NewNet, NetConn

(* What the end of a request, and the rest of a handler, leave typed.      *)
Typed == /\ data' \in [Reqs -> Stream] /\ tainted' \subseteq Conns

LEMMA EndTyped ==
  ASSUME LendInv, WireType, NEW r \in Reqs, req[r].state \in Active, NEW q, Kept(req[r], q),
         NEW status, End(r, q, status), tainted' = tainted \/ Taint(q.conn)
  PROVE  Typed
<1>1. data' \in [Reqs -> Stream]
  BY DEF End, WireType, Stream
<1>2. q.conn \in Conns
  BY ActiveIs DEF Kept
<1>. QED  BY <1>1, <1>2 DEF Typed, Taint, WireType

LEMMA SendNextTyped ==
  ASSUME LendInv, WireType, NEW r \in Reqs, req[r].state \in Active, NEW q, Kept(req[r], q),
         NEW n \in Net, SendNext(r, q, n)
  PROVE  net' \in Net /\ Typed
<1>1. CASE q.cur = Len(Steps[q.kind])
  BY <1>1, EndTyped DEF SendNext
<1>2. CASE q.cur # Len(Steps[q.kind])
  <2>. DEFINE len == Len(Steps[q.kind])
              cur == q.cur
              x == [r |-> r, name |-> Steps[q.kind][q.cur + 1]]
  <2>1. /\ q \in Request /\ q.kind \in DOMAIN Steps /\ q.conn \in Conns
    BY ActiveIs DEF Kept, Request
  <2>2. cur \in 0..5 /\ cur <= len /\ cur # len /\ len \in 1..5
    BY <1>2, <2>1, StepsSound DEF Kept, Request, Sound
  <2>. HIDE DEF cur, len
  <2>3. cur + 1 \in 1..len
    BY <2>2
  <2>4. Steps[q.kind][q.cur + 1] \in DOMAIN Code
    BY <2>1, <2>3, StepsSound DEF Sound, cur, len
  <2>5. x \in Commands
    BY <2>4 DEF Commands
  <2>6. /\ net' = [n EXCEPT ![q.conn].up = Append(n[q.conn].up, x)]
        /\ UNCHANGED <<data, tainted>>
    BY <1>2 DEF SendNext
  <2>. HIDE DEF x
  <2>7. n[q.conn].up \in Seq(Commands)
    BY <2>1, NetIs
  <2>8. Append(n[q.conn].up, x) \in Seq(Commands)
    BY <2>5, <2>7, AppendIs
  <2>9. net' \in Net
    BY <2>1, <2>6, <2>8, NetIs
  <2>. QED  BY <2>6, <2>9 DEF Typed, WireType
<1>. QED  BY <1>1, <1>2

LEMMA DataReadTyped ==
  ASSUME LendInv, WireType, NEW r \in Reqs, req[r].state \in Active, NEW q, Kept(req[r], q),
         NEW readable \in BOOLEAN, DataRead(r, q, readable)
  PROVE  Typed
<1>1. CASE readable /\ data[r].sent < Total(q.kind)
  <2>1. data' = [data EXCEPT ![r].sent = @ + 1] /\ tainted' = tainted
    BY <1>1 DEF DataRead
  <2>. QED  BY <2>1 DEF WireType, Stream, Typed
<1>2. CASE ~(readable /\ data[r].sent < Total(q.kind)) /\ ServerDone(q)
  BY <1>2, EndTyped DEF DataRead
<1>3. CASE ~(readable /\ data[r].sent < Total(q.kind)) /\ ~ServerDone(q)
  <2>1. data' = [data EXCEPT ![r].fin = @ \cup {"client"}] /\ tainted' = tainted
    BY <1>3 DEF DataRead
  <2>. QED  BY <2>1 DEF WireType, Stream, Typed
<1>. QED  BY <1>1, <1>2, <1>3

LEMMA SameTyped ==
  ASSUME WireType, UNCHANGED <<data, tainted>>
  PROVE  Typed
  BY DEF WireType, Typed

LEMMA FaultType ==
  ASSUME WireType, UNCHANGED faults \/ Fault
  PROVE  faults' \in Nat
  BY DEF WireType, Fault

LEMMA ReceivedKept ==
  ASSUME LendInv, NEW r \in Reqs, req[r].state \in Active, NEW p, p.of \in Reqs \cup {None}
  PROVE  /\ Kept(req[r], [req[r] EXCEPT !.got226 = TRUE])
         /\ Kept(req[r], [req[r] EXCEPT !.state = "STREAMING"])
         /\ Kept(req[r], [Managed(req[r], p) EXCEPT !.state = "READY"])
<1>. DEFINE q == req[r]
<1>1. Kept(req[r], q)
  BY KeptSame
<1>2. "READY" \in Active /\ "STREAMING" \in Active /\ FileLen \in Nat
  BY FtpAssumption DEF Active
<1>3. Kept(req[r], Managed(q, p))
  <2>1. CASE p.code = 229
    <3>1. Managed(q, p) = [q EXCEPT !.ctx = p.of]
      BY <2>1 DEF Managed
    <3>2. \A x \in Reqs \cup {None} : Kept(req[r], [q EXCEPT !.ctx = x])
      BY <1>1, KeptFields
    <3>. QED  BY <3>1, <3>2
  <2>2. CASE p.code = 213
    <3>1. Managed(q, p) = [q EXCEPT !.tsize = FileLen]
      BY <2>2 DEF Managed
    <3>2. \A x \in Nat : Kept(req[r], [q EXCEPT !.tsize = x])
      BY <1>1, KeptFields
    <3>. QED  BY <1>2, <3>1, <3>2
  <2>3. CASE p.code # 229 /\ p.code # 213
    BY <1>1, <2>3 DEF Managed
  <2>. QED  BY <2>1, <2>2, <2>3
<1>4. Kept(req[r], [Managed(q, p) EXCEPT !.state = "READY"])
  BY <1>2, <1>3, KeptFields
<1>. QED  BY <1>1, <1>2, <1>4, KeptFields

LEMMA RecvRespTyped ==
  ASSUME LendInv, WireType, NEW r \in Reqs, req[r].state \in Active,
         NEW p, p.of \in Reqs \cup {None}, NEW n \in Net, RecvResp(r, p, n)
  PROVE  net' \in Net /\ Typed /\ missed' \subseteq Reqs /\ faults' \in Nat
<1>. DEFINE q == req[r]
<1>1. /\ Kept(req[r], req[r])
      /\ Kept(req[r], [req[r] EXCEPT !.got226 = TRUE])
      /\ Kept(req[r], [req[r] EXCEPT !.state = "STREAMING"])
      /\ Kept(req[r], [Managed(req[r], p) EXCEPT !.state = "READY"])
  BY KeptSame, ReceivedKept
<1>2. missed \subseteq Reqs /\ (UNCHANGED faults => faults' \in Nat) /\ (Fault => faults' \in Nat)
  BY FaultType DEF WireType
<1>3. [req[r] EXCEPT !.got226 = TRUE].conn = req[r].conn
  BY <1>1 DEF Kept
<1>4. CASE EndOfTransfer(r, n)
  <2>1. CASE ClosedFirst(req[r])
    <3>1. End(r, [req[r] EXCEPT !.got226 = TRUE], "OK") /\ Taint([req[r] EXCEPT !.got226 = TRUE].conn)
      BY <1>3, <1>4, <2>1 DEF EndOfTransfer
    <3>2. Typed
      BY <1>1, <3>1, EndTyped
    <3>. QED  BY <1>2, <1>4, <3>2 DEF EndOfTransfer
  <2>2. CASE ~ClosedFirst(req[r])
    BY <1>2, <1>4, <2>2, SameTyped DEF EndOfTransfer
  <2>. QED  BY <2>1, <2>2
<1>5. CASE Ignored(n) \/ NoStream(r, n) \/ StreamIn(r, n)
  BY <1>2, <1>5, SameTyped DEF Ignored, NoStream, StreamIn
<1>6. CASE Unexpected(r, n)
  BY <1>1, <1>2, <1>6, EndTyped DEF Unexpected
<1>7. CASE SendNext(r, [Managed(q, p) EXCEPT !.state = "READY"], n) /\ UNCHANGED <<missed, faults>>
  BY <1>1, <1>2, <1>7, SendNextTyped
<1>8. CASE StreamOut(r, n)
  <2>1. PICK readable \in BOOLEAN :
           /\ IF readable THEN UNCHANGED faults ELSE Fault
           /\ DataRead(r, [req[r] EXCEPT !.state = "STREAMING"], readable)
    BY <1>8 DEF StreamOut
  <2>2. Typed
    BY <1>1, <2>1, DataReadTyped
  <2>. QED  BY <1>2, <1>8, <2>1, <2>2 DEF StreamOut
<1>. QED  BY <1>4, <1>5, <1>6, <1>7, <1>8 DEF RecvResp

LEMMA DisconnectedTyped ==
  ASSUME LendInv, WireType, NEW c \in Conns, Disconnected(c)
  PROVE  net' \in Net /\ Typed
<1>1. net' \in Net
  BY NewNetIs DEF Disconnected, WireType, Net
<1>2. CASE Users(c) = {}
  BY <1>1, <1>2, SameTyped DEF Disconnected
<1>3. CASE Users(c) # {}
  <2>1. PICK r \in Users(c) : End(r, req[r], "ABORTED") /\ tainted' = tainted
    BY <1>3 DEF Disconnected
  <2>2. r \in Reqs /\ req[r].state \in Active
    BY DEF Users
  <2>. QED  BY <1>1, <2>1, <2>2, KeptSame, EndTyped
<1>. QED  BY <1>2, <1>3

LEMMA LoginTyped ==
  ASSUME LendInv, WireType, NEW c \in Conns, NEW p, NEW n \in Net, Login(c, p, n)
  PROVE  net' \in Net /\ Typed
<1>1. CASE Disconnected(c)
  BY <1>1, DisconnectedTyped
<1>2. CASE /\ elem[c] \in DOMAIN LoginNext
           /\ net' = [n EXCEPT ![c].up = Append(@, [r |-> None, name |-> LoginCmd[elem[c]]])]
           /\ UNCHANGED <<data, tainted>>
  <2>. DEFINE x == [r |-> None, name |-> LoginCmd[elem[c]]]
  <2>1. LoginCmd[elem[c]] \in DOMAIN Code
    BY <1>2, CodeIs DEF LoginNext, LoginCmd, Named, Early
  <2>2. x \in Commands
    BY <2>1 DEF Commands
  <2>3. net' = [n EXCEPT ![c].up = Append(n[c].up, x)]
    BY <1>2
  <2>. HIDE DEF x
  <2>4. n[c].up \in Seq(Commands)
    BY NetIs
  <2>5. Append(n[c].up, x) \in Seq(Commands)
    BY <2>2, <2>4, AppendIs
  <2>6. net' \in Net
    BY <2>3, <2>5, NetIs
  <2>. QED  BY <1>2, <2>6, SameTyped
<1>3. CASE Connected(c, n)
  <2>1. CASE \E r \in Users(c) : req[r].state = "READY"
    <3>1. PICK r \in Users(c) : SendNext(r, req[r], n)
      BY <1>3, <2>1 DEF Connected
    <3>2. r \in Reqs /\ req[r].state \in Active
      BY DEF Users
    <3>. QED  BY <3>1, <3>2, KeptSame, SendNextTyped
  <2>2. CASE ~ \E r \in Users(c) : req[r].state = "READY"
    BY <1>3, <2>2, SameTyped DEF Connected
  <2>. QED  BY <2>1, <2>2
<1>. QED  BY <1>1, <1>2, <1>3 DEF Login

LEMMA ReceiveTyped ==
  ASSUME LendInv, WireType, NEW c \in Conns, Receive(c)
  PROVE  WireType'
<1>. DEFINE p == Head(net[c].down)
            n == [net EXCEPT ![c].down = Tail(net[c].down)]
<1>1. /\ done' = done /\ calls' = calls /\ net[c].down # <<>>
      /\ \/ Login(c, p, n) /\ UNCHANGED <<missed, faults>>
         \/ /\ elem[c] = "CONNECTED"
            /\ IF Users(c) = {} THEN Ignored(n) ELSE \E r \in Users(c) : RecvResp(r, p, n)
  BY DEF Receive
<1>2. net \in Net
  BY DEF WireType, Net
<1>3. net[c].down \in Seq(Answers)
  BY <1>2, NetIs
<1>4. p \in Answers /\ Tail(net[c].down) \in Seq(Answers)
  BY <1>1, <1>3, TailIs
<1>5. n \in Net
  BY <1>2, <1>4, NetIs
<1>6. p.of \in Reqs \cup {None}
  BY <1>4 DEF Answers
<1>. HIDE DEF p, n
<1>7. net' \in Net /\ Typed /\ missed' \subseteq Reqs /\ faults' \in Nat
  <2>1. CASE Login(c, p, n) /\ UNCHANGED <<missed, faults>>
    BY <1>5, <2>1, LoginTyped DEF WireType
  <2>2. CASE Users(c) = {} /\ Ignored(n)
    BY <1>5, <2>2, SameTyped DEF Ignored, WireType
  <2>3. CASE \E r \in Users(c) : RecvResp(r, p, n)
    <3>1. PICK r \in Users(c) : RecvResp(r, p, n)
      BY <2>3
    <3>2. r \in Reqs /\ req[r].state \in Active
      BY DEF Users
    <3>. QED  BY <1>5, <1>6, <3>1, <3>2, RecvRespTyped
  <2>. QED  BY <1>1, <2>1, <2>2, <2>3
<1>. QED  BY <1>1, <1>7 DEF WireType, Typed, Net

LEMMA DataTyped ==
  ASSUME LendInv, WireType, NEW r \in Reqs,
         DataStart(r) \/ DataRecv(r) \/ DataStop(r) \/ DataSent(r)
  PROVE  WireType'
<1>1. req[r].state \in Active
  BY DEF DataStart, DataRecv, DataStop, DataSent, LendInv, ToldInv, Active
<1>2. Kept(req[r], req[r]) /\ req[r].size + 1 \in Nat
  BY <1>1, KeptSame DEF Kept, Request
<1>3. net' = net /\ done' = done /\ missed' = missed /\ calls' = calls
  BY DEF DataStart, DataRecv, DataStop, DataSent
<1>4. /\ net \in [Conns -> NetConn] /\ done \subseteq Reqs /\ missed \subseteq Reqs
      /\ calls \in Nat /\ faults \in Nat /\ data \in [Reqs -> Stream]
  BY DEF WireType
<1>5. CASE DataStart(r)
  BY <1>5 DEF DataStart, WireType
<1>6. CASE DataRecv(r)
  <2>. DEFINE q == [req[r] EXCEPT !.size = req[r].size + 1]
              d == [data EXCEPT ![r].got = @ + 1]
  <2>1. Kept(req[r], q)
    BY <1>2, KeptFields
  <2>2. q.conn \in Conns
    BY <1>1, <2>1, ActiveIs DEF Kept
  <2>3. d \in [Reqs -> Stream]
    BY <1>4 DEF Stream
  <2>4. \/ data' = d /\ UNCHANGED <<tainted, faults>>
        \/ Fault /\ data' = [d EXCEPT ![r].fin = @ \cup {"client"}] /\ Taint(q.conn)
    BY <1>6 DEF DataRecv
  <2>. HIDE DEF q, d
  <2>5. data' \in [Reqs -> Stream]
    BY <2>3, <2>4 DEF Stream
  <2>6. tainted' \subseteq Conns
    BY <2>2, <2>4 DEF Taint, WireType
  <2>7. faults' \in Nat
    BY <2>4, FaultType
  <2>. QED  BY <1>3, <1>4, <2>5, <2>6, <2>7 DEF WireType
<1>7. CASE DataStop(r)
  <2>. DEFINE q == [req[r] EXCEPT !.opened = FALSE, !.ctx = None]
  <2>1. Kept(req[r], q)
    BY <1>2, KeptFields
  <2>2. \/ End(r, q, "OK") /\ Taint(q.conn)
        \/ data' = [data EXCEPT ![r].fin = @ \cup {"client"}] /\ tainted' = tainted
    BY <1>7 DEF DataStop
  <2>3. faults' = faults
    BY <1>7 DEF DataStop
  <2>. HIDE DEF q
  <2>4. Typed
    <3>1. CASE End(r, q, "OK") /\ Taint(q.conn)
      BY <1>1, <2>1, <3>1, EndTyped
    <3>2. CASE data' = [data EXCEPT ![r].fin = @ \cup {"client"}] /\ tainted' = tainted
      BY <1>4, <3>2 DEF Typed, Stream, WireType
    <3>. QED  BY <2>2, <3>1, <3>2
  <2>. QED  BY <1>3, <1>4, <2>3, <2>4 DEF WireType, Typed
<1>8. CASE DataSent(r)
  <2>1. PICK readable \in BOOLEAN :
           /\ IF readable THEN UNCHANGED faults ELSE Fault
           /\ DataRead(r, req[r], readable)
    BY <1>8 DEF DataSent
  <2>2. Typed
    BY <1>1, <1>2, <2>1, DataReadTyped
  <2>3. faults' \in Nat
    BY <2>1, FaultType
  <2>. QED  BY <1>3, <1>4, <2>2, <2>3 DEF WireType, Typed
<1>. QED  BY <1>5, <1>6, <1>7, <1>8

LEMMA StartTyped ==
  ASSUME LendInv, WireType, NEW r \in Reqs, NEW kind, NEW size \in Nat, NEW tsize \in Nat,
         Start(r, kind, size, tsize)
  PROVE  WireType'
<1>. DEFINE c == ConnFor
            x == [r |-> r, name |-> Steps[kind][1]]
<1>1. c \in Conns /\ kind \in DOMAIN Steps
  BY StartIs
<1>2. /\ net' = [net EXCEPT ![c].up = Append(net[c].up, x)] \/ net' = net
      /\ UNCHANGED <<data, done, missed, tainted, calls, faults>>
  BY DEF Start, Sends
<1>3. Steps[kind][1] \in DOMAIN Code
  BY <1>1, StepsSound DEF Sound
<1>4. x \in Commands
  BY <1>3 DEF Commands
<1>. HIDE DEF c, x
<1>5. net \in Net
  BY DEF WireType, Net
<1>6. net[c].up \in Seq(Commands)
  BY <1>1, <1>5, NetIs
<1>7. Append(net[c].up, x) \in Seq(Commands)
  BY <1>4, <1>6, AppendIs
<1>8. [net EXCEPT ![c].up = Append(net[c].up, x)] \in Net
  BY <1>1, <1>5, <1>7, NetIs
<1>9. net' \in Net
  BY <1>2, <1>5, <1>8
<1>. QED  BY <1>2, <1>9 DEF WireType, Net

LEMMA CancelNowTyped ==
  ASSUME LendInv, WireType, NEW r \in Reqs, req[r].state \in Active, NEW q, Kept(req[r], q),
         CancelNow(r, q)
  PROVE  net' = net /\ Typed
  BY EndTyped DEF CancelNow

LEMMA CancelTyped ==
  ASSUME LendInv, WireType, NEW r \in Reqs, Cancel(r)
  PROVE  WireType'
<1>1. /\ req[r].state \in Active /\ CancelNow(r, req[r])
      /\ UNCHANGED <<done, missed, faults>> /\ calls' = calls + 1
  BY DEF Cancel, CanStop
<1>2. net' = net /\ Typed
  BY <1>1, KeptSame, CancelNowTyped
<1>. QED  BY <1>1, <1>2 DEF WireType, Typed

LEMMA WalksTyped ==
  ASSUME LendInv, WireType,
         Return \/ WalkStep \/ WalkEnd \/ \E kind \in {"cancel", "abort"} : Walk(kind)
  PROVE  WireType'
<1>1. CASE Return
  BY <1>1 DEF Return, WireType
<1>2. CASE WalkStep
  <2>. DEFINE r == Head(walk.todo)
              q == [req[r] EXCEPT !.aborted = (walk.kind = "abort")]
  <2>1. /\ \/ CanStop(r) /\ CancelNow(r, q)
           \/ ~CanStop(r) /\ UNCHANGED <<data, tainted, net>>
        /\ UNCHANGED <<done, missed, calls, faults>>
        /\ walk.todo # <<>> /\ walk.todo \in Seq(Reqs)
    BY <1>2 DEF WalkStep, LendInv, LendType
  <2>2. r \in Reqs
    BY <2>1, TailIs
  <2>3. (walk.kind = "abort") \in BOOLEAN
    OBVIOUS
  <2>4. ASSUME CanStop(r) PROVE req[r].state \in Active /\ Kept(req[r], q)
    <3>1. req[r].state \in Active
      BY <2>4 DEF CanStop
    <3>2. \A b \in BOOLEAN : Kept(req[r], [req[r] EXCEPT !.aborted = b])
      BY <2>2, <3>1, KeptSame, KeptFields
    <3>. QED  BY <2>3, <3>1, <3>2
  <2>. HIDE DEF q, r
  <2>5. net' = net /\ Typed
    <3>1. CASE CanStop(r) /\ CancelNow(r, q)
      BY <2>2, <2>4, <3>1, CancelNowTyped
    <3>2. CASE UNCHANGED <<data, tainted, net>>
      BY <3>2, SameTyped
    <3>. QED  BY <2>1, <3>1, <3>2
  <2>. QED  BY <2>1, <2>5 DEF WireType, Typed
<1>3. CASE WalkEnd
  <2>. DEFINE kept == {c \in Conns : c \notin busy /\ c \notin ToSet(idle)}
  <2>1. /\ UNCHANGED <<data, done, missed, calls, faults>>
        /\ \/ UNCHANGED <<net, tainted>>
           \/ /\ net' = [c \in Conns |-> IF c \in kept THEN net[c] ELSE NewNet]
              /\ tainted' = tainted \cap kept
    BY <1>3 DEF WalkEnd
  <2>. HIDE DEF kept
  <2>. QED  BY <2>1, NewNetIs DEF WireType
<1>4. CASE \E kind \in {"cancel", "abort"} : Walk(kind)
  BY <1>4 DEF Walk, WireType
<1>. QED  BY <1>1, <1>2, <1>3, <1>4

LEMMA ElemTyped ==
  ASSUME LendInv, WireType, NEW c \in Conns,
         TcpConnected(c) \/ TcpDisconnected(c) \/ DestroyElem(c)
  PROVE  WireType'
<1>1. CASE TcpConnected(c)
  <2>. DEFINE a == [code |-> 220, of |-> None]
  <2>1. /\ net' = [net EXCEPT ![c].down = <<a>>]
        /\ UNCHANGED <<data, done, missed, tainted, calls, faults>>
    BY <1>1 DEF TcpConnected
  <2>2. a \in Answers
    BY DEF Answers, Codes
  <2>. HIDE DEF a
  <2>3. <<a>> \in Seq(Answers) /\ net \in Net
    BY <2>2 DEF WireType, Net
  <2>4. net' \in Net
    BY <2>1, <2>3, NetIs
  <2>. QED  BY <2>1, <2>4 DEF WireType, Net
<1>2. CASE TcpDisconnected(c)
  <2>1. Disconnected(c) /\ Fault /\ UNCHANGED <<done, missed, calls>>
    BY <1>2 DEF TcpDisconnected
  <2>2. net' \in Net /\ Typed /\ faults' \in Nat
    BY <2>1, DisconnectedTyped, FaultType
  <2>. QED  BY <2>1, <2>2 DEF WireType, Typed, Net
<1>3. CASE DestroyElem(c)
  BY <1>3 DEF DestroyElem, WireType
<1>. QED  BY <1>1, <1>2, <1>3

LEMMA CodesAre ==
  /\ {150, 220, 226, 426, Refusal, Junk} \subseteq Codes
  /\ \A name \in DOMAIN Code : Code[name] \in Codes
<1>1. {220, 226, 426, Refusal, Junk} \subseteq Codes /\ \A name \in DOMAIN Code : Code[name] \in Codes
  BY DEF Codes
<1>2. Code["RETR"] = 150 /\ "RETR" \in DOMAIN Code
  BY DEF Code
<1>. QED  BY <1>1, <1>2

LEMMA AnswerIs ==
  ASSUME WireType, NEW c \in Conns, NEW code \in Codes, NEW r \in Reqs \cup {None}
  PROVE  Answer(c, code, r) \in Seq(Answers)
<1>. DEFINE a == [code |-> code, of |-> r]
<1>1. net \in Net
  BY DEF WireType, Net
<1>2. net[c].down \in Seq(Answers) /\ a \in Answers
  BY <1>1, NetIs DEF Answers
<1>3. Answer(c, code, r) = Append(net[c].down, a)
  BY DEF Answer
<1>. HIDE DEF a
<1>. QED  BY <1>2, <1>3, AppendIs

LEMMA ServerCmdTyped ==
  ASSUME WireType, NEW c \in Conns, ServerCmd(c)
  PROVE  WireType'
<1>. DEFINE x == Head(net[c].up)
            up == Tail(net[c].up)
<1>1. net \in Net /\ net[c].up \in Seq(Commands) /\ net[c].up # <<>>
  BY NetIs DEF WireType, Net, ServerCmd
<1>2. x \in Commands /\ up \in Seq(Commands)
  BY <1>1, TailIs
<1>3. x.r \in Reqs \cup {None} /\ x.name \in DOMAIN Code
  BY <1>2 DEF Commands
<1>. HIDE DEF x, up
<1>4. /\ UNCHANGED <<tainted, calls, faults, missed>>
      /\ \/ /\ net' = [net EXCEPT ![c].up = up, ![c].down = Answer(c, Code[x.name], x.r)]
            /\ done' = done \/ (done' = done \cup {x.r} /\ x.r # None)
            /\ data' = data \/ data' = [data EXCEPT ![x.r].port = TRUE]
         \/ /\ net' = [net EXCEPT ![c].up = up, ![c].job = x.r, ![c].down = Answer(c, 150, x.r)]
            /\ UNCHANGED <<done, data>>
         \/ /\ net' = [net EXCEPT ![c].up = up, ![c].down = Answer(c, Refusal, x.r)]
            /\ UNCHANGED <<done, data>>
  BY DEF ServerCmd, x, up
<1>5. /\ Answer(c, Code[x.name], x.r) \in Seq(Answers)
      /\ Answer(c, 150, x.r) \in Seq(Answers)
      /\ Answer(c, Refusal, x.r) \in Seq(Answers)
  <2>1. Code[x.name] \in Codes /\ 150 \in Codes /\ Refusal \in Codes
    BY <1>3, CodesAre
  <2>. QED  BY <1>3, <2>1, AnswerIs
<1>6. net' \in Net
  <2>1. CASE net' = [net EXCEPT ![c].up = up, ![c].down = Answer(c, Code[x.name], x.r)]
    BY <1>1, <1>2, <1>5, <2>1, NetIs
  <2>2. CASE net' = [net EXCEPT ![c].up = up, ![c].job = x.r, ![c].down = Answer(c, 150, x.r)]
    <3>1. \A u \in Seq(Commands), down \in Seq(Answers), job \in Reqs \cup {None} :
            [net EXCEPT ![c].up = u, ![c].job = job, ![c].down = down] \in Net
      BY <1>1, NetIs
    <3>2. [net EXCEPT ![c].up = up, ![c].job = x.r, ![c].down = Answer(c, 150, x.r)] \in Net
      BY <1>2, <1>3, <1>5, <3>1
    <3>. QED  BY <2>2, <3>2
  <2>3. CASE net' = [net EXCEPT ![c].up = up, ![c].down = Answer(c, Refusal, x.r)]
    BY <1>1, <1>2, <1>5, <2>3, NetIs
  <2>. QED  BY <1>4, <2>1, <2>2, <2>3
<1>7. data' \in [Reqs -> Stream]
  <2>1. data \in [Reqs -> Stream] /\ [data EXCEPT ![x.r].port = TRUE] \in [Reqs -> Stream]
    BY DEF WireType, Stream
  <2>. QED  BY <1>4, <2>1
<1>8. done' \subseteq Reqs
  BY <1>3, <1>4 DEF WireType
<1>. QED  BY <1>4, <1>6, <1>7, <1>8 DEF WireType, Net

LEMMA StreamIs ==
  ASSUME data \in [Reqs -> Stream], NEW r \in Reqs \cup {None}
  PROVE  /\ [data EXCEPT ![r].fin = @ \cup {"server"}] \in [Reqs -> Stream]
         /\ [data EXCEPT ![r].sent = @ + 1] \in [Reqs -> Stream]
         /\ [data EXCEPT ![r].got = @ + 1] \in [Reqs -> Stream]
         /\ [data EXCEPT ![r].est = TRUE] \in [Reqs -> Stream]
<1>1. [data EXCEPT ![r].fin = @ \cup {"server"}] \in [Reqs -> Stream]
  BY DEF Stream
<1>2. [data EXCEPT ![r].sent = @ + 1] \in [Reqs -> Stream]
  <2>1. CASE r \in Reqs
    BY <2>1 DEF Stream
  <2>2. CASE r \notin Reqs
    <3>1. [data EXCEPT ![r].sent = @ + 1] = data
      BY <2>2
    <3>. QED  BY <3>1
  <2>. QED  BY <2>1, <2>2
<1>3. [data EXCEPT ![r].got = @ + 1] \in [Reqs -> Stream]
  <2>1. CASE r \in Reqs
    BY <2>1 DEF Stream
  <2>2. CASE r \notin Reqs
    <3>1. [data EXCEPT ![r].got = @ + 1] = data
      BY <2>2
    <3>. QED  BY <3>1
  <2>. QED  BY <2>1, <2>2
<1>4. [data EXCEPT ![r].est = TRUE] \in [Reqs -> Stream]
  BY DEF Stream
<1>. QED  BY <1>1, <1>2, <1>3, <1>4

LEMMA ServerTyped ==
  ASSUME WireType, NEW c \in Conns,
         ServerData(c) \/ ServerEnd(c) \/ ServerGiveUp(c) \/ ServerFail(c)
  PROVE  WireType'
<1>. DEFINE j == net[c].job
<1>1. net \in Net /\ j \in Reqs \cup {None} /\ data \in [Reqs -> Stream] /\ missed' = missed
  BY NetIs DEF WireType, Net, ServerData, ServerEnd, ServerGiveUp, ServerFail, Aborted
<1>2. /\ Answer(c, 226, j) \in Seq(Answers) /\ Answer(c, 426, j) \in Seq(Answers)
  BY <1>1, CodesAre, AnswerIs
<1>3. /\ [data EXCEPT ![j].fin = @ \cup {"server"}] \in [Reqs -> Stream]
      /\ [data EXCEPT ![j].sent = @ + 1] \in [Reqs -> Stream]
      /\ [data EXCEPT ![j].got = @ + 1] \in [Reqs -> Stream]
  BY <1>1, StreamIs
<1>4. /\ [net EXCEPT ![c].job = None, ![c].down = Answer(c, 226, j)] \in Net
      /\ [net EXCEPT ![c].job = None, ![c].down = Answer(c, 426, j)] \in Net
  <2>1. \A down \in Seq(Answers), job \in Reqs \cup {None} :
          [net EXCEPT ![c].job = job, ![c].down = down] \in Net
    BY <1>1, NetIs
  <2>. QED  BY <1>2, <2>1
<1>. HIDE DEF j
<1>5. CASE ServerData(c)
  <2>1. data' = [data EXCEPT ![j].sent = @ + 1] \/ data' = [data EXCEPT ![j].got = @ + 1]
    BY <1>5 DEF ServerData, j
  <2>. QED  BY <1>3, <1>5, <2>1 DEF ServerData, WireType
<1>6. CASE ServerEnd(c)
  <2>1. /\ j # None /\ data' = [data EXCEPT ![j].fin = @ \cup {"server"}]
        /\ net' = [net EXCEPT ![c].job = None, ![c].down = Answer(c, 226, j)]
        /\ done' = done \cup {j} /\ UNCHANGED <<tainted, calls, faults>>
    BY <1>6 DEF ServerEnd, j
  <2>. QED  BY <1>1, <1>3, <1>4, <2>1 DEF WireType, Net
<1>7. CASE ServerGiveUp(c) \/ ServerFail(c)
  <2>1. /\ data' = [data EXCEPT ![j].fin = @ \cup {"server"}]
        /\ net' = [net EXCEPT ![c].job = None, ![c].down = Answer(c, 426, j)]
        /\ UNCHANGED <<done, tainted, calls>>
    BY <1>7 DEF ServerGiveUp, ServerFail, Aborted, j
  <2>2. faults' \in Nat
    BY <1>7, FaultType DEF ServerGiveUp, ServerFail
  <2>. QED  BY <1>1, <1>3, <1>4, <2>1, <2>2 DEF WireType, Net
<1>. QED  BY <1>5, <1>6, <1>7

LEMMA TwiceIs ==
  ASSUME NEW S, NEW s \in Seq(S), Len(s) > 1
  PROVE  Head(s) \in S /\ Tail(Tail(s)) \in Seq(S)
<1>. DEFINE t == Tail(s)
<1>1. s # <<>> /\ t \in Seq(S) /\ Head(s) \in S /\ Len(t) = Len(s) - 1 /\ Len(s) \in Nat
  OBVIOUS
<1>. HIDE DEF t
<1>2. t # <<>>
  <2>1. Len(t) > 0
    BY ONLY <1>1, Len(s) > 1
  <2>2. Len(<<>>) = 0
    OBVIOUS
  <2>. QED  BY ONLY <2>1, <2>2
<1>3. \A u \in Seq(S) : u # <<>> => Tail(u) \in Seq(S)
  OBVIOUS
<1>. QED  BY <1>1, <1>2, <1>3 DEF t

LEMMA CoalesceTyped ==
  ASSUME WireType, NEW c \in Conns, Coalesce(c)
  PROVE  WireType'
<1>. DEFINE s == net[c].down
            part == [code |-> Junk, of |-> Head(s).of]
<1>1. net \in Net /\ s \in Seq(Answers)
  BY NetIs DEF WireType, Net
<1>2. /\ UNCHANGED <<data, done, missed, tainted, calls>> /\ Fault
      /\ \/ Len(s) > 1 /\ net' = [net EXCEPT ![c].down = <<Head(s)>> \o Tail(Tail(s))]
         \/ s # <<>> /\ net' = [net EXCEPT ![c].down = <<part, part>> \o Tail(s)]
  BY DEF Coalesce
<1>3. faults' \in Nat
  BY <1>2, FaultType
<1>4. net' \in Net
  <2>1. CASE Len(s) > 1 /\ net' = [net EXCEPT ![c].down = <<Head(s)>> \o Tail(Tail(s))]
    <3>1. Head(s) \in Answers /\ Tail(Tail(s)) \in Seq(Answers)
      BY <1>1, <2>1, TwiceIs
    <3>2. <<Head(s)>> \o Tail(Tail(s)) \in Seq(Answers)
      BY <3>1, ConsIs
    <3>. QED  BY <1>1, <2>1, <3>2, NetIs
  <2>2. CASE s # <<>> /\ net' = [net EXCEPT ![c].down = <<part, part>> \o Tail(s)]
    <3>1. Head(s) \in Answers /\ Tail(s) \in Seq(Answers)
      BY <1>1, <2>2, TailIs
    <3>2. part \in Answers
      BY <3>1, CodesAre DEF Answers
    <3>. HIDE DEF part
    <3>3. <<part, part>> \o Tail(s) \in Seq(Answers)
      BY <3>1, <3>2
    <3>. QED  BY <1>1, <2>2, <3>3, NetIs
  <2>. QED  BY <1>2, <2>1, <2>2
<1>. QED  BY <1>2, <1>3, <1>4 DEF WireType, Net

LEMMA InitTyped == Init => WireType
<1>. SUFFICES ASSUME Init PROVE WireType
  OBVIOUS
<1>1. /\ net = [c \in Conns |-> NewNet]
      /\ data = [r \in Reqs |-> [port |-> FALSE, est |-> FALSE, sent |-> 0, got |-> 0, fin |-> {}]]
      /\ done = {} /\ tainted = {} /\ missed = {} /\ calls = 0 /\ faults = 0
  BY DEF Init
<1>. QED  BY <1>1, NewNetIs DEF WireType, Stream

(***************************************************************************)
(* Every step keeps LendInv and WireType                                   *)
(***************************************************************************)

LEMMA StartKept ==
  ASSUME LendInv, WireType, NEW r \in Reqs,
         Get(r) \/ Put(r) \/ Size(r) \/ Rename(r) \/ Delete(r) \/ List(r)
  PROVE  LendInv' /\ WireType'
<1>1. \A kind : Offset(kind) \in Nat /\ 0 \in Nat /\ FileLen \in Nat
  BY FtpAssumption DEF Offset
<1>2. ASSUME NEW kind, NEW size \in Nat, NEW tsize \in Nat, Start(r, kind, size, tsize)
      PROVE  LendInv' /\ WireType'
  BY <1>2, StartLends, StartTyped
<1>3. CASE Get(r)
  <2>1. PICK kind : Start(r, kind, Offset(kind), 0)
    BY <1>3 DEF Get
  <2>. QED  BY <1>1, <1>2, <2>1
<1>4. CASE Put(r)
  <2>1. PICK kind : Start(r, kind, Offset(kind), FileLen)
    BY <1>4 DEF Put
  <2>. QED  BY <1>1, <1>2, <2>1
<1>5. CASE Size(r) \/ Rename(r) \/ Delete(r) \/ List(r)
  <2>1. PICK kind : Start(r, kind, 0, 0)
    BY <1>5 DEF Size, Rename, Delete, List
  <2>. QED  BY <1>1, <1>2, <2>1
<1>. QED  BY <1>3, <1>4, <1>5

LEMMA LendStep ==
  ASSUME LendInv, WireType, [Next]_vars
  PROVE  LendInv' /\ WireType'
<1>1. CASE UNCHANGED vars
  BY <1>1, LendUnchanged DEF vars, WireType
<1>2. CASE Loop
  <2>1. CASE Return
    BY <2>1, ReturnLends, WalksTyped
  <2>2. CASE WalkStep
    BY <2>2, WalkStepLends, WalksTyped
  <2>3. CASE WalkEnd
    BY <2>3, WalkEndLends, WalksTyped
  <2>4. CASE \E c \in Conns : Receive(c) \/ TcpConnected(c) \/ DestroyElem(c)
    BY <2>4, ReceiveLends, ReceiveTyped, TcpLends, DestroyElemLends, ElemTyped
  <2>5. CASE \E r \in Reqs : DataStart(r) \/ DataRecv(r) \/ DataStop(r) \/ DataSent(r)
    BY <2>5, DataLends, DataTyped
  <2>. QED  BY <1>2, <2>1, <2>2, <2>3, <2>4, <2>5 DEF Loop
<1>3. CASE Application
  <2>1. CASE \E r \in Reqs : Get(r) \/ Put(r) \/ Size(r) \/ Rename(r) \/ Delete(r) \/ List(r)
    BY <2>1, StartKept
  <2>2. CASE \E r \in Reqs : Cancel(r)
    BY <2>2, CancelLends, CancelTyped
  <2>3. CASE \E kind \in {"cancel", "abort"} : Walk(kind)
    BY <2>3, WalkLends, WalksTyped
  <2>. QED  BY <1>3, <2>1, <2>2, <2>3 DEF Application
<1>4. CASE Server
  <2>1. CASE \E c \in Conns : ServerCmd(c)
    <3>1. UNCHANGED <<req, requests, elem, idle, busy, stack, walk>>
      BY <2>1 DEF ServerCmd
    <3>. QED  BY <2>1, <3>1, LendUnchanged, ServerCmdTyped
  <2>2. CASE \E c \in Conns : ServerData(c) \/ ServerEnd(c) \/ ServerGiveUp(c)
    <3>1. UNCHANGED <<req, requests, elem, idle, busy, stack, walk>>
      BY <2>2 DEF ServerData, ServerEnd, ServerGiveUp, Aborted
    <3>2. WireType'
      BY <2>2, ServerTyped
    <3>. QED  BY <3>1, <3>2, LendUnchanged
  <2>3. CASE \E r \in Reqs : DataConnect(r)
    <3>1. UNCHANGED <<req, requests, elem, idle, busy, stack, walk>>
      BY <2>3 DEF DataConnect
    <3>2. PICK r \in Reqs : /\ data' = [data EXCEPT ![r].est = TRUE]
                            /\ UNCHANGED <<net, done, missed, tainted, calls, faults>>
      BY <2>3 DEF DataConnect
    <3>3. data' \in [Reqs -> Stream]
      BY <3>2, StreamIs DEF WireType
    <3>4. WireType'
      BY <3>2, <3>3 DEF WireType
    <3>. QED  BY <3>1, <3>4, LendUnchanged
  <2>. QED  BY <1>4, <2>1, <2>2, <2>3 DEF Server
<1>5. CASE Failures
  <2>1. CASE \E c \in Conns : TcpDisconnected(c)
    BY <2>1, TcpLends, ElemTyped
  <2>2. CASE \E c \in Conns : ServerFail(c)
    <3>1. UNCHANGED <<req, requests, elem, idle, busy, stack, walk>>
      BY <2>2 DEF ServerFail, Aborted
    <3>. QED  BY <2>2, <3>1, LendUnchanged, ServerTyped
  <2>3. CASE \E c \in Conns : Coalesce(c)
    <3>1. UNCHANGED <<req, requests, elem, idle, busy, stack, walk>>
      BY <2>3 DEF Coalesce
    <3>. QED  BY <2>3, <3>1, LendUnchanged, CoalesceTyped
  <2>. QED  BY <1>5, <2>1, <2>2, <2>3 DEF Failures
<1>. QED  BY <1>1, <1>2, <1>3, <1>4, <1>5 DEF Next

(***************************************************************************)
(* Lemmas on one connection                                                *)
(***************************************************************************)

LEMMA OneIs ==
  ASSUME NEW S, NEW a \in S
  PROVE  /\ <<a>> \in Seq(S) /\ Head(<<a>>) = a /\ Tail(<<a>>) = <<>> /\ ToSet(<<a>>) = {a}
         /\ <<a>> # <<>> /\ Append(<<>>, a) = <<a>>
<1>1. /\ <<a>> \in Seq(S) /\ Head(<<a>>) = a /\ Tail(<<a>>) = <<>>
      /\ <<a>> # <<>> /\ Append(<<>>, a) = <<a>>
  OBVIOUS
<1>2. DOMAIN <<a>> = {1} /\ <<a>>[1] = a
  OBVIOUS
<1>. QED  BY <1>1, <1>2 DEF ToSet

LEMMA SetIs ==
  ASSUME NEW S, NEW s \in Seq(S)
  PROVE  ToSet(s) \subseteq S
  BY DEF ToSet

LEMMA EmptyIs == ToSet(<<>>) = {}
  BY DEF ToSet

LEMMA CodesDiffer ==
  /\ \A name \in DOMAIN Code : Code[name] \notin {Junk, Refusal}
  /\ \A name \in Moving : Code[name] = 150
  /\ \A s \in DOMAIN LoginCode : LoginCode[s] # Junk
  /\ Junk # 226 /\ Refusal # 226
<1>1. \A name \in DOMAIN Code : Code[name] \notin {Junk, Refusal}
  BY DEF Code, Junk, Refusal
<1>2. \A name \in Moving : Code[name] = 150
  BY DEF Code, Moving, DataIn, DataOut
<1>3. \A s \in DOMAIN LoginCode : LoginCode[s] # Junk
  BY DEF LoginCode, Junk
<1>. QED  BY <1>1, <1>2, <1>3 DEF Junk, Refusal

LEMMA SingleTaken ==
  ASSUME NEW n \in NetConn, NEW m \in NetConn, NEW x, NEW code, Single(n, x, code),
         n.down # <<>>, m.up = n.up, m.job = n.job, m.down = Tail(n.down)
  PROVE  /\ n.up = <<>> /\ Single(m, x, code)
         /\ Head(n.down).code # Junk => Quiet(m)
<1>1. n.down \in Seq(Answers) /\ n.job = None
  BY DEF NetConn, Answers, Single
<1>2. Head(n.down) \in ToSet(n.down) /\ ToSet(Tail(n.down)) \subseteq ToSet(n.down)
  BY <1>1, TailIs
<1>3. CASE \E a \in Answers : n.down = <<a>>
  <2>1. m.down = <<>> /\ n.up = <<>>
    BY <1>3, OneIs DEF Single
  <2>. QED  BY <1>1, <2>1, EmptyIs DEF Single, Quiet
<1>4. CASE n.up = <<>> /\ \A a \in ToSet(n.down) : a.code = Junk
  BY <1>1, <1>2, <1>4 DEF Single
<1>. QED  BY <1>3, <1>4 DEF Single

LEMMA SingleRead ==
  ASSUME NEW n \in NetConn, NEW x \in Commands, NEW code, Single(n, x, code), n.up # <<>>
  PROVE  n.down = <<>> /\ n.job = None /\ n.up = <<x>> /\ Head(n.up) = x /\ Tail(n.up) = <<>>
  BY OneIs DEF Single

(***************************************************************************)
(* What an action leaves alone                                             *)
(***************************************************************************)

(* Connection b and what is on it.                                         *)
SameWire(b) == net'[b] = net[b] /\ elem'[b] = elem[b] /\ (b \in tainted' <=> b \in tainted)

(* Request k has nothing to do with connection c.                          *)
Apart(k, c) ==
    /\ req'[k] = req[k] /\ data'[k] = data[k]
    /\ Owning(req[k]) => req[k].conn \in Conns \ {c}

(* A request begins, goes on or ends with connection c only.               *)
Turns(k, c) ==
    \/ req'[k] = req[k]
    \/ /\ req[k].state = "NONE" \/ (Owning(req[k]) /\ req[k].conn = c)
       /\ req'[k].state = "FREED" \/ (Owning(req'[k]) /\ req'[k].conn = c)

LEMMA ApartFits ==
  ASSUME NEW k \in Reqs, NEW c \in Conns, ReqFits(k), Apart(k, c),
         \A b \in Conns \ {c} : SameWire(b), done \subseteq done'
  PROVE  ReqFits(k)'
<1>1. CASE Owning(req[k])
  <2>1. /\ net'[req[k].conn] = net[req[k].conn] /\ elem'[req[k].conn] = elem[req[k].conn]
        /\ req[k].conn \in tainted' <=> req[k].conn \in tainted
    BY <1>1 DEF Apart, SameWire
  <2>2. \A r, q, d, n, s : Fits(r, q, d, n, s, tainted, done) /\ (q.conn \in tainted' <=> q.conn \in tainted)
                              => Fits(r, q, d, n, s, tainted', done')
    BY DEF Fits, Carries, Awaits, Moves, Through, Finished
  <2>. QED  BY <2>1, <2>2 DEF ReqFits, Apart
<1>2. CASE ~Owning(req[k])
  <2>1. req'[k].state \notin Active \cup {"DONE"}
    BY <1>2 DEF Owning, Apart
  <2>. QED  BY <2>1 DEF ReqFits, Fits, Apart, Active
<1>. QED  BY <1>1, <1>2

(* A request that is not active depends on nothing that moves.             *)
LEMMA PassiveFits ==
  ASSUME NEW k \in Reqs, ReqFits(k), req'[k] = req[k], data'[k] = data[k],
         req[k].state \notin Active, done \subseteq done',
         req[k].conn \in tainted => req[k].conn \in tainted' \/ req[k].state # "DONE"
  PROVE  ReqFits(k)'
  BY DEF ReqFits, Fits, Finished, Active

LEMMA WireIs ==
  ASSUME WireType, NEW c \in Conns
  PROVE  /\ net[c] \in NetConn /\ net[c].job \in Reqs \cup {None}
         /\ net[c].up \in Seq(Commands) /\ net[c].down \in Seq(Answers)
         /\ \A x \in ToSet(net[c].up) : x \in Commands /\ x.r \in Reqs \cup {None}
         /\ \A a \in ToSet(net[c].down) : a \in Answers
<1>1. /\ net[c] \in NetConn /\ net[c].job \in Reqs \cup {None}
      /\ net[c].up \in Seq(Commands) /\ net[c].down \in Seq(Answers)
  BY DEF WireType, NetConn, Answers
<1>2. \A x \in ToSet(net[c].up) : x \in Commands
  BY <1>1, SetIs
<1>3. \A a \in ToSet(net[c].down) : a \in Answers
  BY <1>1, SetIs
<1>. QED  BY <1>1, <1>2, <1>3 DEF Commands

LEMMA OtherFits ==
  ASSUME WireType, NEW c \in Conns, NEW b \in Conns \ {c}, ConnFits(b), SameWire(b),
         \A k \in Reqs : Turns(k, c)
  PROVE  ConnFits(b)'
<1>1. \A k \in Reqs : Former(k, b) => Former(k, b)'
  BY DEF Turns, Former, Owning, Active
<1>2. Users(b) \subseteq Users(b)'
  BY DEF Turns, Users, Owning, Active
<1>3. OfFormer(b)'
  BY <1>1, WireIs DEF ConnFits, OfFormer, SameWire
<1>. QED  BY <1>2, <1>3 DEF ConnFits, SameWire

LEMMA Local ==
  ASSUME WireType, WiresInv, NEW c \in Conns,
         \A b \in Conns \ {c} : SameWire(b), done \subseteq done',
         \A k \in Reqs : Turns(k, c), \A k \in Reqs : ReqFits(k)' \/ Apart(k, c),
         ConnFits(c)'
  PROVE  WiresInv'
<1>1. \A b \in Conns : ConnFits(b)'
  BY OtherFits DEF WiresInv
<1>2. \A k \in Reqs : ReqFits(k)'
  BY ApartFits DEF WiresInv
<1>. QED  BY <1>1, <1>2 DEF WiresInv

(***************************************************************************)
(* A request that ends, and one that goes on                               *)
(***************************************************************************)

(* What is known of an active request.                                     *)
LEMMA UserIs ==
  ASSUME LendInv, WireType, WiresInv, NEW r \in Reqs, req[r].state \in Active
  PROVE  /\ req[r] \in Request /\ req[r].conn \in Conns /\ data[r] \in Stream
         /\ net[req[r].conn] \in NetConn
         /\ elem[req[r].conn] \notin {"FREE", "DISCONNECTED"}
         /\ r \in Users(req[r].conn) /\ Owning(req[r]) /\ req[r].told = <<>>
         /\ Waits(req[r], elem[req[r].conn])
         /\ req[r].state = "READY" => Still(data[r]) /\ ~req[r].got226
         /\ req[r].conn \notin tainted => Sized(req[r], data[r])
         /\ req[r].conn \notin tainted /\ req[r].state # "READY"
              => Carries(r, req[r], data[r], net[req[r].conn], done)
         /\ ConnFits(req[r].conn)
         /\ \A k \in Reqs : k # r /\ Owning(req[k]) => req[k].conn \in Conns \ {req[r].conn}
<1>1. ReqFits(r) /\ data[r] \in Stream
  BY DEF WiresInv, WireType
<1>2. /\ req[r] \in Request /\ req[r].conn \in Conns /\ Owning(req[r]) /\ req[r].told = <<>>
      /\ Open(elem[req[r].conn]) /\ r \in Users(req[r].conn)
      /\ \A k \in Reqs : Owning(req[k]) /\ req[k].conn = req[r].conn => k = r
  BY ActiveIs DEF Users
<1>3. \A k \in Reqs : Owning(req[k]) => req[k].conn \in Conns
  BY DEF LendInv, OwnersInv
<1>. QED  BY <1>1, <1>2, <1>3, WireIs DEF ReqFits, Fits, Open, WiresInv, Active

LEMMA GoesOn ==
  ASSUME LendInv, WireType, WiresInv, NEW r \in Reqs, req[r].state \in Active,
         NEW p, Kept(req[r], p), req' = [req EXCEPT ![r] = p],
         \A k \in Reqs \ {r} : data'[k] = data[k],
         NEW c \in Conns, c = req[r].conn, elem'[c] = "CONNECTED",
         \A b \in Conns \ {c} : SameWire(b), net'[c].job = net[c].job,
         \A x \in ToSet(net'[c].up) : x \in ToSet(net[c].up) \/ x.r = r,
         done' = done,
         Fits(r, p, data'[r], net'[c], "CONNECTED", tainted', done)
  PROVE  WiresInv'
<1>1. /\ req'[r] = p /\ \A k \in Reqs : k # r => req'[k] = req[k]
  BY DEF LendInv, LendType
<1>2. p.conn = c /\ p.state \in Active /\ Owning(p) /\ Owning(req[r])
  BY DEF Kept, Owning
<1>3. \A k \in Reqs : Turns(k, c)
  BY <1>1, <1>2 DEF Turns
<1>4. ReqFits(r)'
  BY <1>1, <1>2 DEF ReqFits
<1>5. \A k \in Reqs : k # r => Apart(k, c)
  BY <1>1, UserIs DEF Apart
<1>6. ConnFits(c)'
  <2>1. r \in Users(c)'
    BY <1>1, <1>2 DEF Users
  <2>2. \A k \in Reqs : Former(k, c) => Former(k, c)'
    BY <1>1, <1>2 DEF Former, Owning
  <2>3. Former(r, c)'
    BY <1>1, <1>2 DEF Former
  <2>4. OfFormer(c)
    BY DEF WiresInv, ConnFits
  <2>5. OfFormer(c)'
    BY <2>2, <2>3, <2>4, WireIs DEF OfFormer
  <2>6. "CONNECTED" \notin DOMAIN LoginCode
    BY DEF LoginCode
  <2>. QED  BY <2>1, <2>5, <2>6 DEF ConnFits
<1>. QED  BY <1>3, <1>4, <1>5, <1>6, Local

LEMMA StopsThere ==
  ASSUME LendInv, WireType, WiresInv, NEW r \in Reqs, req[r].state \in Active,
         NEW q, Kept(req[r], q), NEW status \in Ways, req' = [req EXCEPT ![r] = Stopped(q, status)],
         \A k \in Reqs \ {r} : data'[k] = data[k],
         NEW c \in Conns, c = req[r].conn, \A b \in Conns \ {c} : SameWire(b), done' = done, tainted \subseteq tainted',
         c \notin tainted' /\ FinalStatus(q, status) = "OK" => Finished(r, q, data'[r], done),
         ConnFits(c)'
  PROVE  WiresInv'
<1>1. req'[r] = Stopped(q, status) /\ \A k \in Reqs : k # r => req'[k] = req[k]
  BY DEF LendInv, LendType
<1>2. q \in Request /\ q.told = <<>> /\ q.conn = c /\ q.kind = req[r].kind
  BY UserIs DEF Kept
<1>3. /\ req'[r].state = "DONE" /\ req'[r].conn = c /\ req'[r].kind = q.kind
      /\ req'[r].told = <<FinalStatus(q, status)>>
  BY <1>1, <1>2, StoppedIs
<1>4. Owning(req[r]) /\ Owning(req'[r])
  BY <1>3 DEF Owning
<1>5. \A k \in Reqs : Turns(k, c)
  BY <1>1, <1>3, <1>4 DEF Turns
<1>6. ReqFits(r)'
  <2>1. req'[r].told = <<"OK">> => FinalStatus(q, status) = "OK"
    BY <1>3
  <2>. QED  BY <1>3, <2>1 DEF ReqFits, Fits, Finished, Active
<1>7. \A k \in Reqs : k # r => Apart(k, c)
  BY <1>1, UserIs DEF Apart
<1>. QED  BY <1>5, <1>6, <1>7, Local

(* The request ends, and its connection is given back as it is.            *)
LEMMA EndsThere ==
  ASSUME LendInv, WireType, WiresInv, NEW r \in Reqs, req[r].state \in Active,
         NEW q, Kept(req[r], q), NEW status \in Ways, req' = [req EXCEPT ![r] = Stopped(q, status)],
         \A k \in Reqs \ {r} : data'[k] = data[k],
         NEW c \in Conns, c = req[r].conn, elem' = elem, done' = done, Taint(c),
         \A b \in Conns \ {c} : net'[b] = net[b],
         net'[c].job = net[c].job, \A x \in ToSet(net'[c].up) : x \in ToSet(net[c].up),
         elem[c] = "CONNECTED" \/ net' = net,
         c \notin tainted' /\ FinalStatus(q, status) = "OK" => Finished(r, q, data'[r], done)
  PROVE  WiresInv'
<1>1. /\ \A b \in Conns \ {c} : b \in tainted' <=> b \in tainted
      /\ tainted \subseteq tainted'
      /\ c \notin tainted' => Quiet(net'[c])
  BY DEF Taint, Unanswered, Quiet
<1>2. \A b \in Conns \ {c} : SameWire(b)
  BY <1>1 DEF SameWire
<1>3. req'[r] = Stopped(q, status) /\ \A k \in Reqs : k # r => req'[k] = req[k]
  BY DEF LendInv, LendType
<1>4. q \in Request /\ q.told = <<>> /\ q.conn = c
  BY UserIs DEF Kept
<1>5. req'[r].state = "DONE" /\ req'[r].conn = c
  BY <1>3, <1>4, StoppedIs
<1>6. \A k \in Reqs : Former(k, c) => Former(k, c)'
  BY <1>3, <1>5 DEF Former, Owning
<1>7. OfFormer(c)'
  BY <1>6, WireIs DEF WiresInv, ConnFits, OfFormer
<1>8. ConnFits(c)'
  <2>1. CASE elem[c] = "CONNECTED"
    <3>1. "CONNECTED" \notin DOMAIN LoginCode
      BY DEF LoginCode
    <3>. QED  BY <1>1, <1>7, <2>1, <3>1 DEF ConnFits
  <2>2. CASE elem[c] # "CONNECTED" /\ net' = net
    BY <1>7, <2>2 DEF WiresInv, ConnFits
  <2>. QED  BY <2>1, <2>2
<1>. QED  BY <1>1, <1>2, <1>8, StopsThere

(* The connection breaks.                                                  *)
LEMMA DisconnectedWires ==
  ASSUME LendInv, WireType, WiresInv, NEW c \in Conns, Open(elem[c]), Disconnected(c), done' = done
  PROVE  WiresInv'
<1>1. /\ elem' = [elem EXCEPT ![c] = "DISCONNECTED"] /\ net' = [net EXCEPT ![c] = NewNet]
      /\ tainted' = tainted /\ elem'[c] = "DISCONNECTED" /\ net'[c] = NewNet
      /\ \A b \in Conns \ {c} : SameWire(b)
  BY DEF Disconnected, SameWire, LendInv, LendType, WireType
<1>2. ToSet(net'[c].up) = {} /\ net'[c].job = None /\ Quiet(net'[c])
  BY <1>1, EmptyIs DEF NewNet, Quiet
<1>3. ConnFits(c)'
  BY <1>1, <1>2 DEF ConnFits, OfFormer, LoginCode
<1>4. CASE Users(c) = {}
  <2>1. req' = req /\ data' = data
    BY <1>4 DEF Disconnected
  <2>2. \A k \in Reqs : ReqFits(k)' \/ Apart(k, c)
    <3>. SUFFICES ASSUME NEW k \in Reqs PROVE ReqFits(k)' \/ Apart(k, c)
      OBVIOUS
    <3>1. ReqFits(k) /\ (Owning(req[k]) => req[k].conn \in Conns)
      BY DEF WiresInv, LendInv, OwnersInv
    <3>2. CASE req[k].state \in Active
      BY <1>4, <2>1, <3>1, <3>2 DEF Apart, Users
    <3>3. CASE req[k].state \notin Active
      BY <1>1, <2>1, <3>1, <3>3, PassiveFits
    <3>. QED  BY <3>2, <3>3
  <2>3. \A k \in Reqs : Turns(k, c)
    BY <2>1 DEF Turns
  <2>. QED  BY <1>1, <1>3, <2>2, <2>3, Local
<1>5. CASE Users(c) # {}
  <2>1. PICK r \in Users(c) : End(r, req[r], "ABORTED")
    BY <1>5 DEF Disconnected
  <2>2. r \in Reqs /\ req[r].state \in Active /\ c = req[r].conn
    BY DEF Users
  <2>3. /\ req' = [req EXCEPT ![r] = Stopped(req[r], "ABORTED")]
        /\ \A k \in Reqs \ {r} : data'[k] = data[k]
    BY <2>1 DEF End, WireType
  <2>4. Kept(req[r], req[r]) /\ "ABORTED" \in Ways
    BY <2>2, KeptSame DEF Ways
  <2>5. FinalStatus(req[r], "ABORTED") # "OK"
    BY DEF FinalStatus
  <2>. QED  BY <1>1, <1>3, <2>2, <2>3, <2>4, <2>5, StopsThere
<1>. QED  BY <1>4, <1>5

(***************************************************************************)
(* The handlers                                                            *)
(***************************************************************************)

(* q is request r as it was or as its handler has it, about to go on.      *)
LEMMA SendNextWires ==
  ASSUME LendInv, WireType, WiresInv, NEW r \in Reqs, req[r].state \in Active,
         NEW q, Kept(req[r], q), NEW c \in Conns, c = req[r].conn, NEW n \in Net,
         \A b \in Conns \ {c} : n[b] = net[b] /\ elem'[b] = elem[b],
         n[c].job = net[c].job, n[c].up = net[c].up,
         elem'[c] = "CONNECTED", done' = done, SendNext(r, q, n),
         q.cur = Len(Steps[q.kind]) => elem' = elem,
         c \notin tainted =>
           /\ Quiet(n[c]) /\ Still(data[r]) /\ ~q.got226 /\ Sized(q, data[r])
           /\ q.cur = Len(Steps[q.kind]) => r \in done /\ LastCmd(q.kind) \notin Moving
  PROVE  WiresInv'
<1>1. q \in Request /\ q.kind \in DOMAIN Steps /\ q.conn = c /\ q.kind = req[r].kind
  BY DEF Kept, Request
<1>2. CASE q.cur = Len(Steps[q.kind])
  <2>1. /\ net' = n /\ End(r, q, "OK") /\ Taint(c) /\ elem' = elem /\ "OK" \in Ways
    BY <1>1, <1>2 DEF SendNext, Ways
  <2>2. /\ req' = [req EXCEPT ![r] = Stopped(q, "OK")]
        /\ \A k \in Reqs \ {r} : data'[k] = data[k]
    BY <2>1 DEF End, WireType
  <2>3. c \notin tainted' => Finished(r, q, data'[r], done)
    BY <1>2, <2>1 DEF Taint, Finished
  <2>. QED  BY <2>1, <2>2, <2>3, EndsThere
<1>3. CASE q.cur # Len(Steps[q.kind])
  <2>. DEFINE p == [q EXCEPT !.state = "WAIT_RESP", !.cur = q.cur + 1]
              x == [r |-> r, name |-> Steps[q.kind][q.cur + 1]]
              cur == q.cur
              len == Len(Steps[q.kind])
  <2>1. /\ net' = [n EXCEPT ![c].up = Append(n[c].up, x)]
        /\ req' = [req EXCEPT ![r] = p]
        /\ UNCHANGED <<stack, data, tainted>>
    BY <1>1, <1>3 DEF SendNext
  <2>2. cur \in 0..5 /\ cur <= len /\ cur # len /\ len \in 1..5
    BY <1>1, <1>3, StepsSound DEF Kept, Request, Sound
  <2>3. x.r = r /\ x.name = Steps[q.kind][q.cur + 1] /\ x = [r |-> r, name |-> x.name]
    OBVIOUS
  <2>4. p = [q EXCEPT !.state = "WAIT_RESP", !.cur = cur + 1]
    OBVIOUS
  <2>. HIDE DEF cur, len, p, x
  <2>5. cur + 1 \in 1..len /\ cur + 1 \in 0..5 /\ cur + 1 # 0
    BY <2>2
  <2>6. /\ p \in Request /\ p.state = "WAIT_RESP" /\ p.cur = cur + 1
        /\ p.kind = q.kind /\ p.conn = c /\ p.told = q.told /\ p.got226 = q.got226
        /\ p.tsize = q.tsize /\ p.size = q.size
    <3>1. "WAIT_RESP" \in Active
      BY DEF Active
    <3>2. p \in Request
      BY <1>1, <2>4, <2>5, <3>1 DEF Request
    <3>. QED  BY <1>1, <2>4, <3>2 DEF Request
  <2>7. Kept(req[r], p)
    <3>1. p.cur <= Len(Steps[p.kind])
      BY <2>2, <2>5, <2>6 DEF len
    <3>. QED  BY <2>6, <3>1 DEF Kept, Active
  <2>8. Cmd(p) = x.name
    BY <2>3, <2>6 DEF Cmd, cur
  <2>9. /\ net'[c].up = Append(n[c].up, x) /\ net'[c].down = n[c].down /\ net'[c].job = n[c].job
        /\ \A b \in Conns \ {c} : net'[b] = n[b]
    BY <2>1 DEF Net, NetConn
  <2>10. x \in Commands
    BY <1>1, <2>3, <2>5, StepsSound DEF Sound, cur, len, Commands
  <2>11. \A y \in ToSet(net'[c].up) : y \in ToSet(net[c].up) \/ y.r = r
    <3>1. n[c].up \in Seq(Commands)
      BY NetIs
    <3>2. ToSet(Append(n[c].up, x)) = ToSet(n[c].up) \cup {x}
      BY <2>10, <3>1, AppendIs
    <3>. QED  BY <2>3, <2>9, <3>2
  <2>12. Waits(p, "CONNECTED")
    BY <2>5, <2>6 DEF Waits
  <2>13. ASSUME c \notin tainted PROVE Carries(r, p, data[r], net'[c], done) /\ Sized(p, data[r])
    <3>1. net'[c].up = <<x>> /\ net'[c].down = <<>> /\ net'[c].job = None
      BY <2>9, <2>10, <2>13, OneIs DEF Quiet
    <3>2. Awaits(r, p, data[r], net'[c], done) \/ Asks(r, p, data[r], net'[c])
      BY <2>3, <2>6, <2>8, <2>13, <3>1, EmptyIs DEF Awaits, Asks, Single
    <3>3. Sized(p, data[r])
      BY <2>6, <2>13 DEF Sized
    <3>. QED  BY <3>1, <3>2, <3>3, EmptyIs DEF Carries
  <2>14. Fits(r, p, data[r], net'[c], "CONNECTED", tainted, done)
    BY <2>6, <2>12, <2>13 DEF Fits
  <2>15. \A b \in Conns \ {c} : SameWire(b)
    BY <2>1, <2>9 DEF SameWire
  <2>16. /\ Fits(r, p, data'[r], net'[c], "CONNECTED", tainted', done)
         /\ \A k \in Reqs \ {r} : data'[k] = data[k]
         /\ net'[c].job = net[c].job /\ req' = [req EXCEPT ![r] = p]
    BY <2>1, <2>9, <2>14
  <2>. QED  BY <2>7, <2>11, <2>15, <2>16, GoesOn
<1>. QED  BY <1>2, <1>3

LEMMA WaysApart == DataIn \cap DataOut = {} /\ Moving = DataIn \cup DataOut
  BY DEF DataIn, DataOut, Moving

(* While the stream is open the transfer is not over.                      *)
LEMMA OpenMoves ==
  ASSUME NEW r, NEW q, NEW d, NEW n, NEW did, Moves(r, q, d, n, did), q.opened,
         LastCmd(q.kind) \in DataOut
  PROVE  /\ ~q.got226 /\ \A a \in ToSet(n.down) : a.code # 226
         /\ "client" \notin d.fin
  BY DEF Moves, Through

LEMMA DataReadWires ==
  ASSUME LendInv, WireType, WiresInv, NEW r \in Reqs, req[r].state \in Active,
         NEW q, Kept(req[r], q), q.state = "STREAMING", q.opened, q.cur # 0,
         Cmd(q) \in Moving, LastCmd(q.kind) \in DataOut,
         NEW c \in Conns, c = req[r].conn, elem' = elem, elem[c] = "CONNECTED", done' = done,
         \A b \in Conns \ {c} : net'[b] = net[b],
         net'[c].job = net[c].job, \A x \in ToSet(net'[c].up) : x \in ToSet(net[c].up),
         NEW readable \in BOOLEAN, DataRead(r, q, readable),
         c \notin tainted => /\ Moves(r, q, data[r], net'[c], done) /\ Sized(q, data[r])
                             /\ \A a \in ToSet(net'[c].down) : a.of = r
                             /\ net'[c].job \in {None, r}
  PROVE  WiresInv'
<1>1. q \in Request /\ q.conn = c /\ data[r] \in Stream /\ data \in [Reqs -> Stream]
  BY DEF Kept, WireType
<1>2. ASSUME tainted' = tainted
      PROVE  \A b \in Conns \ {c} : SameWire(b)
  BY <1>2 DEF SameWire
<1>3. CASE readable /\ data[r].sent < Total(q.kind)
  <2>. DEFINE p == [q EXCEPT !.size = q.size + 1]
              d == [data[r] EXCEPT !.sent = data[r].sent + 1]
  <2>1. /\ req' = [req EXCEPT ![r] = p] /\ data' = [data EXCEPT ![r] = d] /\ tainted' = tainted
    BY <1>1, <1>3 DEF DataRead
  <2>2. q.size \in Nat /\ q.size + 1 \in Nat /\ data[r].sent \in Nat
    BY <1>1 DEF Request, Stream
  <2>3. Kept(req[r], p)
    BY <2>2, KeptFields
  <2>4. /\ p.state = q.state /\ p.opened = q.opened /\ p.cur = q.cur /\ p.kind = q.kind
        /\ p.conn = q.conn /\ p.tsize = q.tsize /\ p.got226 = q.got226 /\ p.ctx = q.ctx
        /\ p.size = q.size + 1
    BY <1>1 DEF Request
  <2>5. d.fin = data[r].fin /\ d.got = data[r].got /\ d.sent = data[r].sent + 1
    BY <1>1 DEF Stream
  <2>6. data'[r] = d /\ \A k \in Reqs \ {r} : data'[k] = data[k]
    BY <1>1, <2>1
  <2>. HIDE DEF p, d
  <2>7. Cmd(p) = Cmd(q)
    BY <2>4 DEF Cmd
  <2>8. ASSUME c \notin tainted PROVE Carries(r, p, d, net'[c], done) /\ Sized(p, d)
    <3>1. Moves(r, p, d, net'[c], done)
      BY <2>4, <2>5, <2>7, <2>8, OpenMoves, WaysApart DEF Moves
    <3>2. q.tsize = FileLen /\ q.size = Offset(q.kind) + data[r].sent
      BY <2>8 DEF Sized
    <3>3. Offset(q.kind) \in Nat
      BY DEF Offset
    <3>4. p.size = Offset(q.kind) + d.sent
      BY <2>2, <2>4, <2>5, <3>2, <3>3
    <3>5. Sized(p, d)
      BY <2>4, <3>2, <3>4 DEF Sized
    <3>. QED  BY <2>8, <3>1, <3>5 DEF Carries
  <2>9. Fits(r, p, data'[r], net'[c], "CONNECTED", tainted', done)
    <3>1. Waits(p, "CONNECTED")
      BY <2>4, <2>7 DEF Waits
    <3>. QED  BY <1>1, <2>1, <2>4, <2>6, <2>8, <3>1 DEF Fits
  <2>10. \A b \in Conns \ {c} : SameWire(b)
    BY <1>2, <2>1
  <2>. QED  BY <2>1, <2>3, <2>6, <2>9, <2>10, GoesOn
<1>4. CASE ~(readable /\ data[r].sent < Total(q.kind)) /\ ServerDone(q)
  <2>1. End(r, q, "OK") /\ Taint(c) /\ "OK" \in Ways
    BY <1>1, <1>4 DEF DataRead, Ways
  <2>2. /\ req' = [req EXCEPT ![r] = Stopped(q, "OK")]
        /\ \A k \in Reqs \ {r} : data'[k] = data[k]
    BY <2>1 DEF End, WireType
  <2>3. c \in tainted'
    BY <1>4, <2>1, OpenMoves DEF Taint, ServerDone
  <2>. QED  BY <2>1, <2>2, <2>3, EndsThere
<1>5. CASE ~(readable /\ data[r].sent < Total(q.kind)) /\ ~ServerDone(q)
  <2>. DEFINE p == [q EXCEPT !.opened = FALSE, !.ctx = None]
              d == [data[r] EXCEPT !.fin = @ \cup {"client"}]
  <2>1. /\ req' = [req EXCEPT ![r] = p] /\ data' = [data EXCEPT ![r] = d] /\ tainted' = tainted
    BY <1>1, <1>5 DEF DataRead
  <2>2. Kept(req[r], p)
    BY KeptFields
  <2>3. /\ p.state = q.state /\ ~p.opened /\ p.cur = q.cur /\ p.kind = q.kind
        /\ p.conn = q.conn /\ p.tsize = q.tsize /\ p.got226 = q.got226 /\ p.ctx = None
        /\ p.size = q.size
    BY <1>1 DEF Request
  <2>4. d.fin = data[r].fin \cup {"client"} /\ d.got = data[r].got /\ d.sent = data[r].sent
    BY <1>1 DEF Stream
  <2>5. data'[r] = d /\ \A k \in Reqs \ {r} : data'[k] = data[k]
    BY <1>1, <2>1
  <2>. HIDE DEF p, d
  <2>6. Cmd(p) = Cmd(q)
    BY <2>3 DEF Cmd
  <2>7. ASSUME c \notin tainted PROVE Carries(r, p, d, net'[c], done) /\ Sized(p, d)
    <3>1. Moves(r, p, d, net'[c], done)
      BY <2>3, <2>4, <2>6, <2>7, OpenMoves, WaysApart DEF Moves
    <3>2. Sized(p, d)
      BY <2>3, <2>4, <2>7 DEF Sized
    <3>. QED  BY <2>7, <3>1, <3>2 DEF Carries
  <2>8. Fits(r, p, data'[r], net'[c], "CONNECTED", tainted', done)
    <3>1. Waits(p, "CONNECTED")
      BY <2>3, <2>6 DEF Waits
    <3>. QED  BY <1>1, <2>1, <2>3, <2>5, <2>7, <3>1 DEF Fits
  <2>9. \A b \in Conns \ {c} : SameWire(b)
    BY <1>2, <2>1
  <2>. QED  BY <2>1, <2>2, <2>5, <2>8, <2>9, GoesOn
<1>. QED  BY <1>3, <1>4, <1>5

LEMMA CmdIs ==
  ASSUME NEW q, NEW p, Kept(q, p), p.cur # 0
  PROVE  /\ Cmd(p) \in DOMAIN Code
         /\ Cmd(p) \in Moving => Cmd(p) = LastCmd(p.kind)
         /\ p.cur = Len(Steps[p.kind]) => Cmd(p) = LastCmd(p.kind)
<1>. DEFINE cur == p.cur
            len == Len(Steps[p.kind])
<1>1. p.kind \in DOMAIN Steps /\ cur \in 0..5 /\ cur # 0 /\ cur <= len /\ len \in 1..5
  BY StepsSound DEF Kept, Request, Sound
<1>. HIDE DEF cur, len
<1>2. cur \in 1..len
  BY <1>1
<1>. QED  BY <1>1, <1>2, StepIs DEF Cmd, LastCmd, Last, cur, len

(* The answer p is taken off what a request's connection carries.          *)
LEMMA CarriesTaken ==
  ASSUME NEW r \in Reqs, NEW q, NEW d, NEW did, NEW n \in NetConn, NEW m \in NetConn,
         Carries(r, q, d, n, did), n.down # <<>>,
         m.up = n.up, m.job = n.job, m.down = Tail(n.down)
  PROVE  /\ Carries(r, q, d, m, did)
         /\ \A a \in ToSet(m.down) : a.of = r
         /\ m.job \in {None, r}
         /\ Head(n.down) \in ToSet(n.down) /\ Head(n.down).of = r
         /\ Cmd(q) \notin Moving => Awaits(r, q, d, n, did)
         /\ Cmd(q) \notin Moving /\ Head(n.down).code # Junk => Quiet(m)
         /\ Cmd(q) \in Moving => Moves(r, q, d, n, did) /\ Moves(r, q, d, m, did)
<1>1. n.down \in Seq(Answers)
  BY DEF NetConn, Answers
<1>2. Head(n.down) \in ToSet(n.down) /\ ToSet(m.down) \subseteq ToSet(n.down)
  BY <1>1, TailIs
<1>3. CASE Awaits(r, q, d, n, did)
  <2>1. /\ Single(m, [r |-> r, name |-> Cmd(q)], Code[Cmd(q)])
        /\ Head(n.down).code # Junk => Quiet(m)
    BY <1>3, SingleTaken DEF Awaits
  <2>. QED  BY <1>2, <1>3, <2>1 DEF Awaits, Carries
<1>4. CASE Moves(r, q, d, n, did)
  <2>1. Moves(r, q, d, m, did)
    BY <1>2, <1>4 DEF Moves
  <2>. QED  BY <1>2, <1>4, <2>1 DEF Moves, Carries
<1>. QED  BY <1>3, <1>4 DEF Carries, Asks

(* A transfer that went through, and whose size is right, is finished.     *)
LEMMA FinishedIs ==
  ASSUME NEW r, NEW q \in Request, NEW d \in Stream, NEW did, Through(r, q, d, did), Sized(q, d),
         FinalStatus(q, "OK") = "OK", LastCmd(q.kind) \in DataIn => d.got = d.sent
  PROVE  Finished(r, q, d, did)
<1>1. CASE LastCmd(q.kind) \in DataOut
  <2>1. /\ q.tsize = FileLen /\ q.size = Offset(q.kind) + d.sent /\ d.got = d.sent
    BY <1>1 DEF Sized, Through
  <2>2. FileLen \in Nat /\ FileLen > 0 /\ Offset(q.kind) \in Nat /\ d.sent \in Nat
    BY FtpAssumption DEF Offset, Stream
  <2>3. ~(q.tsize > 0 /\ q.tsize # q.size)
    BY DEF FinalStatus
  <2>4. FileLen = Offset(q.kind) + d.sent
    BY <2>1, <2>2, <2>3
  <2>5. d.sent = FileLen - Offset(q.kind)
    BY <2>2, <2>4
  <2>. QED  BY <2>1, <2>5 DEF Finished, Through, Total
<1>2. CASE LastCmd(q.kind) \notin DataOut
  BY <1>2, WaysApart DEF Finished, Through
<1>. QED  BY <1>1, <1>2

(* The user r of connection c gets the answer p, and n is the network      *)
(* without it.                                                             *)
Reads(r, c, p, n) ==
    /\ req[r].state \in Active /\ c = req[r].conn
    /\ elem[c] = "CONNECTED" /\ elem' = elem /\ done' = done
    /\ net[c].down # <<>> /\ p = Head(net[c].down)
    /\ n = [net EXCEPT ![c].down = Tail(net[c].down)]

LEMMA ReadsIs ==
  ASSUME LendInv, WireType, WiresInv, NEW r \in Reqs, NEW c \in Conns, NEW p, NEW n,
         Reads(r, c, p, n)
  PROVE  /\ n \in Net /\ n[c] \in NetConn /\ net[c] \in NetConn /\ p \in Answers
         /\ n[c].up = net[c].up /\ n[c].job = net[c].job /\ n[c].down = Tail(net[c].down)
         /\ net[c].down # <<>> /\ p = Head(net[c].down)
         /\ elem[c] = "CONNECTED" /\ elem'[c] = "CONNECTED" /\ req[r].state \in Active
         /\ elem' = elem /\ done' = done
         /\ \A b \in Conns \ {c} : n[b] = net[b]
         /\ req[r] \in Request /\ req[r].conn = c /\ data[r] \in Stream
         /\ req[r].state \in {"WAIT_RESP", "STREAMING"} /\ req[r].cur # 0
         /\ Waits(req[r], "CONNECTED") /\ Kept(req[r], req[r])
         /\ c \notin tainted =>
              /\ Sized(req[r], data[r])
              /\ Carries(r, req[r], data[r], net[c], done)
<1>1. net \in Net
  BY DEF WireType, Net
<1>2. net[c].down \in Seq(Answers) /\ net[c] \in NetConn
  BY WireIs
<1>3. Tail(net[c].down) \in Seq(Answers) /\ p \in Answers
  BY <1>2, TailIs DEF Reads
<1>4. n \in Net
  BY <1>1, <1>3, NetIs DEF Reads
<1>5. /\ n[c].up = net[c].up /\ n[c].job = net[c].job /\ n[c].down = Tail(net[c].down)
      /\ \A b \in Conns \ {c} : n[b] = net[b]
  BY <1>1 DEF Reads, Net, NetConn
<1>6. n[c] \in NetConn
  BY <1>4, NetIs
<1>7. /\ req[r] \in Request /\ data[r] \in Stream /\ Waits(req[r], "CONNECTED")
      /\ Kept(req[r], req[r])
  BY UserIs, KeptSame DEF Reads
<1>8. req[r].state \in {"WAIT_RESP", "STREAMING"} /\ req[r].cur # 0
  BY <1>7 DEF Waits, Reads, Active
<1>9. c \notin tainted => /\ Sized(req[r], data[r])
                          /\ Carries(r, req[r], data[r], net[c], done)
  BY <1>8, UserIs DEF Reads
<1>. QED  BY <1>2, <1>3, <1>4, <1>5, <1>6, <1>7, <1>8, <1>9 DEF Reads

(* The answer says nothing to the request.                                 *)
LEMMA IgnoredWires ==
  ASSUME LendInv, WireType, WiresInv, NEW r \in Reqs, NEW c \in Conns, NEW p, NEW n,
         Reads(r, c, p, n), Ignored(n) \/ NoStream(r, n)
  PROVE  WiresInv'
<1>. DEFINE q == req[r]
<1>1. net' = n /\ UNCHANGED <<req, data, tainted>>
  BY DEF Ignored, NoStream
<1>2. req' = [req EXCEPT ![r] = q]
  BY <1>1 DEF LendInv, LendType
<1>3. c \notin tainted => Carries(r, q, data[r], n[c], done)
  <2>1. /\ net[c] \in NetConn /\ n[c] \in NetConn /\ net[c].down # <<>>
        /\ n[c].up = net[c].up /\ n[c].job = net[c].job /\ n[c].down = Tail(net[c].down)
        /\ c \notin tainted => Carries(r, q, data[r], net[c], done)
    BY ReadsIs
  <2>. QED  BY <2>1, CarriesTaken
<1>4. Fits(r, q, data'[r], net'[c], "CONNECTED", tainted', done)
  BY <1>1, <1>3, ReadsIs DEF Fits
<1>5. /\ \A b \in Conns \ {c} : SameWire(b)
      /\ \A x \in ToSet(net'[c].up) : x \in ToSet(net[c].up) \/ x.r = r
      /\ net'[c].job = net[c].job
      /\ \A k \in Reqs \ {r} : data'[k] = data[k]
      /\ elem'[c] = "CONNECTED" /\ done' = done /\ c = req[r].conn /\ req[r].state \in Active
  BY <1>1, ReadsIs DEF Reads, SameWire
<1>6. Kept(req[r], q)
  BY ReadsIs
<1>. QED  BY <1>2, <1>4, <1>5, <1>6, GoesOn

(* A request that the handler ends gives the connection n back.            *)
LEMMA ReadEnds ==
  ASSUME LendInv, WireType, WiresInv, NEW r \in Reqs, NEW c \in Conns, NEW p, NEW n,
         Reads(r, c, p, n), net' = n, NEW q, Kept(req[r], q), NEW status \in Ways,
         End(r, q, status), Taint(c),
         c \notin tainted' /\ FinalStatus(q, status) = "OK" => Finished(r, q, data[r], done)
  PROVE  WiresInv'
<1>1. /\ req' = [req EXCEPT ![r] = Stopped(q, status)]
      /\ \A k \in Reqs \ {r} : data'[k] = data[k]
      /\ data'[r].got = data[r].got
  BY DEF End, WireType, Stream
<1>2. c \notin tainted' /\ FinalStatus(q, status) = "OK" => Finished(r, q, data'[r], done)
  BY <1>1 DEF Finished
<1>3. /\ \A b \in Conns \ {c} : net'[b] = net[b]
      /\ \A x \in ToSet(net'[c].up) : x \in ToSet(net[c].up)
      /\ net'[c].job = net[c].job
      /\ elem[c] = "CONNECTED" /\ elem' = elem /\ done' = done /\ c = req[r].conn
      /\ req[r].state \in Active
  BY ReadsIs DEF Reads
<1>. QED  BY <1>1, <1>2, <1>3, EndsThere

LEMMA UnexpectedWires ==
  ASSUME LendInv, WireType, WiresInv, NEW r \in Reqs, NEW c \in Conns, NEW p, NEW n,
         Reads(r, c, p, n), Unexpected(r, n)
  PROVE  WiresInv'
<1>1. net' = n /\ End(r, req[r], "FAILED") /\ Taint(c) /\ "FAILED" \in Ways
  BY DEF Unexpected, Reads, Ways
<1>2. FinalStatus(req[r], "FAILED") # "OK"
  BY DEF FinalStatus
<1>. QED  BY <1>1, <1>2, ReadsIs, ReadEnds

LEMMA EndOfTransferWires ==
  ASSUME LendInv, WireType, WiresInv, NEW r \in Reqs, NEW c \in Conns, NEW p, NEW n,
         Reads(r, c, p, n), req[r].state = "STREAMING", p.code = 226, EndOfTransfer(r, n)
  PROVE  WiresInv'
<1>. DEFINE q == [req[r] EXCEPT !.got226 = TRUE]
<1>1. /\ q \in Request /\ q.state = req[r].state /\ q.opened = req[r].opened /\ q.cur = req[r].cur
      /\ q.kind = req[r].kind /\ q.conn = c /\ q.tsize = req[r].tsize /\ q.size = req[r].size
      /\ q.ctx = req[r].ctx /\ q.got226 = TRUE
  <2>1. req[r] \in Request /\ req[r].conn = c
    BY ReadsIs
  <2>. QED  BY <2>1 DEF Request
<1>2. Kept(req[r], q)
  <2>1. p.of \in Reqs \cup {None} /\ req[r].state \in Active
    BY ReadsIs DEF Reads, Answers
  <2>. QED  BY <2>1, ReceivedKept
<1>3. net' = n
  BY DEF EndOfTransfer
<1>. HIDE DEF q
<1>4. Cmd(q) = Cmd(req[r]) /\ Cmd(q) \in Moving
  BY <1>1, ReadsIs DEF Cmd, Waits
<1>5. ASSUME c \notin tainted
      PROVE  /\ Moves(r, req[r], data[r], n[c], done) /\ Through(r, req[r], data[r], done)
             /\ n[c].job = None
             /\ Sized(q, data[r]) /\ Through(r, q, data[r], done)
             /\ \A a \in ToSet(n[c].down) : a.of = r
  <2>1. /\ Moves(r, req[r], data[r], net[c], done) /\ Moves(r, req[r], data[r], n[c], done)
        /\ p \in ToSet(net[c].down) /\ \A a \in ToSet(n[c].down) : a.of = r
    <3>1. /\ net[c] \in NetConn /\ n[c] \in NetConn /\ net[c].down # <<>>
          /\ n[c].up = net[c].up /\ n[c].job = net[c].job /\ n[c].down = Tail(net[c].down)
          /\ Carries(r, req[r], data[r], net[c], done) /\ p = Head(net[c].down)
      BY <1>5, ReadsIs
    <3>. QED  BY <1>4, <3>1, CarriesTaken
  <2>2. net[c].job = None /\ Through(r, req[r], data[r], done)
    BY <2>1 DEF Moves
  <2>3. Through(r, q, data[r], done) /\ Sized(q, data[r])
    BY <1>1, <1>5, <2>2, ReadsIs DEF Through, Sized
  <2>. QED  BY <2>1, <2>2, <2>3, ReadsIs
<1>6. CASE ClosedFirst(req[r])
  <2>1. End(r, q, "OK") /\ Taint(c) /\ "OK" \in Ways
    BY <1>6 DEF EndOfTransfer, q, Ways, Reads
  <2>2. ASSUME c \notin tainted', FinalStatus(q, "OK") = "OK"
        PROVE  Finished(r, q, data[r], done)
    <3>1. c \notin tainted
      BY <2>1, <2>2 DEF Taint
    <3>2. LastCmd(q.kind) \in DataIn => data[r].got = data[r].sent
      BY <1>1, <1>5, <1>6, <3>1 DEF ClosedFirst, Moves
    <3>. QED  BY <1>1, <1>5, <2>2, <3>1, <3>2, ReadsIs, FinishedIs
  <2>. QED  BY <1>2, <1>3, <2>1, <2>2, ReadEnds
<1>7. CASE ~ClosedFirst(req[r])
  <2>0. req' = [req EXCEPT ![r] = q]
    BY <1>7 DEF EndOfTransfer, q, LendInv, LendType
  <2>1. UNCHANGED <<data, tainted>>
    BY <1>7 DEF EndOfTransfer
  <2>2. ASSUME c \notin tainted PROVE Carries(r, q, data[r], n[c], done)
    <3>1. Moves(r, q, data[r], n[c], done)
      BY <1>1, <1>4, <1>5, <2>2 DEF Moves
    <3>. QED  BY <1>5, <2>2, <3>1 DEF Carries
  <2>3. Fits(r, q, data'[r], net'[c], "CONNECTED", tainted', done)
    <3>1. Waits(q, "CONNECTED")
      BY <1>1, <1>4, ReadsIs DEF Waits
    <3>. QED  BY <1>1, <1>3, <1>5, <2>1, <2>2, <3>1, ReadsIs DEF Fits
  <2>4. /\ \A b \in Conns \ {c} : SameWire(b)
        /\ \A x \in ToSet(net'[c].up) : x \in ToSet(net[c].up) \/ x.r = r
        /\ net'[c].job = net[c].job
        /\ \A k \in Reqs \ {r} : data'[k] = data[k]
        /\ elem'[c] = "CONNECTED" /\ done' = done /\ c = req[r].conn /\ req[r].state \in Active
    BY <1>3, <2>1, ReadsIs DEF Reads, SameWire
  <2>. QED  BY ONLY LendInv, WireType, WiresInv, r \in Reqs, c \in Conns, <1>2, <2>0, <2>3, <2>4, GoesOn
<1>. QED  BY <1>6, <1>7

(* The answer the command asked for: the next command is sent.             *)
LEMMA NextReadWires ==
  ASSUME LendInv, WireType, WiresInv, NEW r \in Reqs, NEW c \in Conns, NEW p, NEW n,
         Reads(r, c, p, n), Expected(req[r], p), Cmd(req[r]) \notin Moving,
         SendNext(r, [Managed(req[r], p) EXCEPT !.state = "READY"], n)
  PROVE  WiresInv'
<1>. DEFINE q == [Managed(req[r], p) EXCEPT !.state = "READY"]
<1>1. Kept(req[r], q)
  <2>1. p.of \in Reqs \cup {None} /\ req[r].state \in Active
    BY ReadsIs DEF Answers
  <2>. QED  BY <2>1, ReceivedKept
<1>2. /\ q.cur = req[r].cur /\ q.kind = req[r].kind /\ q.got226 = req[r].got226
      /\ q.size = req[r].size /\ q.tsize \in {req[r].tsize, FileLen}
  <2>1. req[r] \in Request
    BY ReadsIs
  <2>2. CASE p.code = 229
    BY <2>1, <2>2 DEF Managed, Request
  <2>3. CASE p.code = 213
    <3>1. Managed(req[r], p) = [req[r] EXCEPT !.tsize = FileLen]
      BY <2>3 DEF Managed
    <3>. QED  BY <2>1, <3>1 DEF Request
  <2>4. CASE p.code \notin {229, 213}
    BY <2>1, <2>4 DEF Managed, Request
  <2>. QED  BY <2>2, <2>3, <2>4
<1>3. SendNext(r, q, n)
  OBVIOUS
<1>. HIDE DEF q
<1>4. /\ Cmd(req[r]) \in DOMAIN Code
      /\ req[r].cur = Len(Steps[req[r].kind]) => Cmd(req[r]) = LastCmd(req[r].kind)
  BY ReadsIs, CmdIs
<1>5. p.code = Code[Cmd(req[r])] /\ p.code # Junk
  BY <1>4, CodesDiffer DEF Expected
<1>6. ASSUME c \notin tainted
      PROVE  /\ Quiet(n[c]) /\ Still(data[r]) /\ ~q.got226 /\ Sized(q, data[r])
             /\ q.cur = Len(Steps[q.kind]) => r \in done /\ LastCmd(q.kind) \notin Moving
  <2>1. /\ net[c] \in NetConn /\ n[c] \in NetConn /\ net[c].down # <<>>
        /\ n[c].up = net[c].up /\ n[c].job = net[c].job /\ n[c].down = Tail(net[c].down)
        /\ Carries(r, req[r], data[r], net[c], done) /\ p = Head(net[c].down)
        /\ Sized(req[r], data[r])
    BY <1>6, ReadsIs
  <2>2. /\ Awaits(r, req[r], data[r], net[c], done) /\ Quiet(n[c]) /\ p \in ToSet(net[c].down)
    BY <1>5, <2>1, CarriesTaken
  <2>3. Still(data[r]) /\ ~q.got226
    BY <1>2, <2>2 DEF Awaits
  <2>4. q.cur = Len(Steps[q.kind]) => r \in done /\ LastCmd(q.kind) \notin Moving
    BY <1>2, <1>4, <1>5, <2>2 DEF Awaits
  <2>5. Sized(q, data[r])
    BY <1>2, <2>1 DEF Sized
  <2>. QED  BY <2>2, <2>3, <2>4, <2>5
<1>7. /\ \A b \in Conns \ {c} : n[b] = net[b] /\ elem'[b] = elem[b]
      /\ n[c].job = net[c].job /\ n[c].up = net[c].up
      /\ elem'[c] = "CONNECTED" /\ done' = done /\ elem' = elem
      /\ req[r].state \in Active /\ c = req[r].conn /\ n \in Net
  BY ReadsIs
<1>. QED  BY ONLY LendInv, WireType, WiresInv, r \in Reqs, c \in Conns,
                  <1>1, <1>3, <1>6, <1>7, SendNextWires

LEMMA StreamInWires ==
  ASSUME LendInv, WireType, WiresInv, NEW r \in Reqs, NEW c \in Conns, NEW p, NEW n,
         Reads(r, c, p, n), Cmd(req[r]) \in Moving, req[r].opened, StreamIn(r, n)
  PROVE  WiresInv'
<1>. DEFINE q == [req[r] EXCEPT !.state = "STREAMING"]
<1>1. /\ q.opened = req[r].opened /\ q.cur = req[r].cur /\ q.state = "STREAMING"
      /\ q.kind = req[r].kind /\ q.conn = c /\ q.tsize = req[r].tsize /\ q.size = req[r].size
      /\ q.ctx = req[r].ctx /\ q.got226 = req[r].got226
  <2>1. req[r] \in Request /\ req[r].conn = c
    BY ReadsIs
  <2>. QED  BY <2>1 DEF Request
<1>2. Kept(req[r], q)
  <2>1. p.of \in Reqs \cup {None} /\ req[r].state \in Active
    BY ReadsIs DEF Answers
  <2>. QED  BY <2>1, ReceivedKept
<1>3. net' = n /\ UNCHANGED <<data, tainted>>
  BY DEF StreamIn
<1>4. req' = [req EXCEPT ![r] = q]
  BY DEF StreamIn, LendInv, LendType
<1>. HIDE DEF q
<1>5. Cmd(q) = Cmd(req[r])
  BY <1>1 DEF Cmd
<1>6. ASSUME c \notin tainted PROVE Carries(r, q, data[r], n[c], done) /\ Sized(q, data[r])
  <2>1. /\ net[c] \in NetConn /\ n[c] \in NetConn /\ net[c].down # <<>>
        /\ n[c].up = net[c].up /\ n[c].job = net[c].job /\ n[c].down = Tail(net[c].down)
        /\ Carries(r, req[r], data[r], net[c], done) /\ Sized(req[r], data[r])
    BY <1>6, ReadsIs
  <2>2. /\ Carries(r, req[r], data[r], n[c], done)
        /\ Moves(r, req[r], data[r], n[c], done)
    BY <2>1, CarriesTaken
  <2>3. Moves(r, q, data[r], n[c], done)
    BY <1>1, <1>5, <2>2 DEF Moves, Through
  <2>4. Sized(q, data[r])
    BY <1>1, <2>1 DEF Sized
  <2>. QED  BY <2>2, <2>3, <2>4 DEF Carries
<1>7. Fits(r, q, data'[r], net'[c], "CONNECTED", tainted', done)
  <2>1. Waits(q, "CONNECTED")
    BY <1>1, <1>5, ReadsIs DEF Waits
  <2>. QED  BY <1>1, <1>3, <1>6, <2>1 DEF Fits
<1>8. /\ \A b \in Conns \ {c} : SameWire(b)
      /\ \A x \in ToSet(net'[c].up) : x \in ToSet(net[c].up) \/ x.r = r
      /\ net'[c].job = net[c].job
      /\ \A k \in Reqs \ {r} : data'[k] = data[k]
      /\ elem'[c] = "CONNECTED" /\ done' = done /\ c = req[r].conn /\ req[r].state \in Active
  BY <1>3, ReadsIs DEF SameWire
<1>. QED  BY ONLY LendInv, WireType, WiresInv, r \in Reqs, c \in Conns,
                  <1>2, <1>4, <1>7, <1>8, GoesOn

LEMMA StreamOutWires ==
  ASSUME LendInv, WireType, WiresInv, NEW r \in Reqs, NEW c \in Conns, NEW p, NEW n,
         Reads(r, c, p, n), Cmd(req[r]) \in DataOut, req[r].opened, StreamOut(r, n)
  PROVE  WiresInv'
<1>. DEFINE q == [req[r] EXCEPT !.state = "STREAMING"]
<1>1. /\ q.opened = req[r].opened /\ q.cur = req[r].cur /\ q.state = "STREAMING"
      /\ q.kind = req[r].kind /\ q.conn = c /\ q.tsize = req[r].tsize /\ q.size = req[r].size
      /\ q.ctx = req[r].ctx /\ q.got226 = req[r].got226
  <2>1. req[r] \in Request /\ req[r].conn = c
    BY ReadsIs
  <2>. QED  BY <2>1 DEF Request
<1>2. Kept(req[r], q)
  <2>1. p.of \in Reqs \cup {None} /\ req[r].state \in Active
    BY ReadsIs DEF Answers
  <2>. QED  BY <2>1, ReceivedKept
<1>3. net' = n
  BY DEF StreamOut
<1>4. PICK readable \in BOOLEAN : DataRead(r, q, readable)
  BY DEF StreamOut
<1>. HIDE DEF q
<1>5. Cmd(q) = Cmd(req[r]) /\ Cmd(q) \in Moving /\ LastCmd(q.kind) \in DataOut /\ q.cur # 0
  <2>1. Cmd(q) = Cmd(req[r]) /\ q.cur # 0
    BY <1>1, ReadsIs DEF Cmd
  <2>2. Cmd(q) \in Moving
    BY <2>1, WaysApart
  <2>. QED  BY <1>2, <2>1, <2>2, CmdIs
<1>6. ASSUME c \notin tainted
      PROVE  /\ Moves(r, q, data[r], net'[c], done) /\ Sized(q, data[r])
             /\ \A a \in ToSet(net'[c].down) : a.of = r
             /\ net'[c].job \in {None, r}
  <2>1. /\ net[c] \in NetConn /\ n[c] \in NetConn /\ net[c].down # <<>>
        /\ n[c].up = net[c].up /\ n[c].job = net[c].job /\ n[c].down = Tail(net[c].down)
        /\ Carries(r, req[r], data[r], net[c], done) /\ Sized(req[r], data[r])
    BY <1>6, ReadsIs
  <2>2. /\ Carries(r, req[r], data[r], n[c], done)
        /\ Moves(r, req[r], data[r], n[c], done)
    BY <1>5, <2>1, CarriesTaken
  <2>3. Moves(r, q, data[r], n[c], done)
    <3>1. LastCmd(q.kind) \notin DataIn
      BY <1>5, WaysApart
    <3>. QED  BY <1>1, <1>5, <2>2, <3>1 DEF Moves, Through
  <2>4. Sized(q, data[r])
    BY <1>1, <2>1 DEF Sized
  <2>. QED  BY <1>3, <2>2, <2>3, <2>4 DEF Carries
<1>7. /\ \A b \in Conns \ {c} : net'[b] = net[b]
      /\ \A x \in ToSet(net'[c].up) : x \in ToSet(net[c].up)
      /\ net'[c].job = net[c].job
      /\ elem[c] = "CONNECTED" /\ elem' = elem /\ done' = done /\ c = req[r].conn
      /\ req[r].state \in Active /\ q.opened /\ q.state = "STREAMING"
  BY <1>1, <1>3, ReadsIs
<1>. QED  BY ONLY LendInv, WireType, WiresInv, r \in Reqs, c \in Conns, readable \in BOOLEAN,
                  <1>2, <1>4, <1>5, <1>6, <1>7, DataReadWires

LEMMA RecvRespWires ==
  ASSUME LendInv, WireType, WiresInv, NEW r \in Reqs, NEW c \in Conns, NEW p, NEW n,
         Reads(r, c, p, n), RecvResp(r, p, n)
  PROVE  WiresInv'
<1>1. Moving = DataIn \cup DataOut
  BY WaysApart
<1>2. CASE req[r].state = "STREAMING" /\ p.code = 226 /\ EndOfTransfer(r, n)
  BY <1>2, EndOfTransferWires
<1>3. CASE Ignored(n) \/ NoStream(r, n)
  BY <1>3, IgnoredWires
<1>4. CASE Unexpected(r, n)
  BY <1>4, UnexpectedWires
<1>5. CASE /\ Expected(req[r], p) /\ Cmd(req[r]) \notin Moving
           /\ SendNext(r, [Managed(req[r], p) EXCEPT !.state = "READY"], n)
  BY <1>5, NextReadWires
<1>6. CASE Cmd(req[r]) \in Moving /\ req[r].opened /\ StreamIn(r, n)
  BY <1>6, StreamInWires
<1>7. CASE Cmd(req[r]) \in DataOut /\ req[r].opened /\ StreamOut(r, n)
  BY <1>7, StreamOutWires
<1>. QED  BY <1>1, <1>2, <1>3, <1>4, <1>5, <1>6, <1>7 DEF RecvResp

(***************************************************************************)
(* The login, and the connections                                          *)
(***************************************************************************)

(* The requests stay as they are.                                          *)
LEMMA StillWires ==
  ASSUME LendInv, WireType, WiresInv, NEW c \in Conns, req' = req, data' = data,
         done \subseteq done', \A b \in Conns \ {c} : SameWire(b), ConnFits(c)',
         \A k \in Users(c) : ReqFits(k)',
         c \in tainted => \/ c \in tainted'
                          \/ \A k \in Reqs : Owning(req[k]) => req[k].conn # c
  PROVE  WiresInv'
<1>1. \A k \in Reqs : Turns(k, c)
  BY DEF Turns
<1>2. ASSUME NEW k \in Reqs PROVE ReqFits(k)' \/ Apart(k, c)
  <2>1. ReqFits(k) /\ (Owning(req[k]) => req[k].conn \in Conns)
    BY DEF WiresInv, LendInv, OwnersInv
  <2>2. CASE Owning(req[k]) => req[k].conn # c
    BY <2>1, <2>2 DEF Apart
  <2>3. CASE Owning(req[k]) /\ req[k].conn = c /\ req[k].state \in Active
    BY <2>3 DEF Users
  <2>4. CASE Owning(req[k]) /\ req[k].conn = c /\ req[k].state \notin Active
    <3>1. req[k].conn \in tainted => req[k].conn \in tainted'
      BY <2>4
    <3>. QED  BY <2>1, <2>4, <3>1, PassiveFits
  <2>. QED  BY <2>2, <2>3, <2>4
<1>. QED  BY <1>1, <1>2, Local

(* Connection c gets the answer it waits for to log in.                    *)
LEMMA LoginQuiet ==
  ASSUME WireType, WiresInv, NEW c \in Conns, elem[c] \in DOMAIN LoginCode, net[c].down # <<>>,
         Head(net[c].down).code = LoginCode[elem[c]],
         NEW n, n = [net EXCEPT ![c].down = Tail(net[c].down)]
  PROVE  /\ n \in Net /\ Quiet(n[c]) /\ \A b \in Conns \ {c} : n[b] = net[b]
         /\ n[c].job = net[c].job /\ n[c].up = net[c].up
<1>1. net \in Net /\ net[c] \in NetConn /\ net[c].down \in Seq(Answers)
  BY WireIs DEF WireType, Net
<1>2. Tail(net[c].down) \in Seq(Answers)
  BY <1>1, TailIs
<1>3. /\ n \in Net /\ n[c] \in NetConn
  BY <1>1, <1>2, NetIs
<1>4. /\ n[c].up = net[c].up /\ n[c].job = net[c].job /\ n[c].down = Tail(net[c].down)
      /\ \A b \in Conns \ {c} : n[b] = net[b]
  BY <1>1 DEF Net, NetConn
<1>5. PICK name \in {"USER", "PASS"} :
         Single(net[c], [r |-> None, name |-> name], LoginCode[elem[c]])
  BY DEF WiresInv, ConnFits, LogsIn
<1>6. Head(net[c].down).code # Junk
  BY CodesDiffer
<1>. DEFINE x == [r |-> None, name |-> name]
            code == LoginCode[elem[c]]
<1>7. Single(net[c], x, code) /\ Head(net[c].down).code # Junk
  BY <1>5, <1>6
<1>. HIDE DEF x, code
<1>8. Quiet(n[c])
  BY <1>1, <1>3, <1>4, <1>7, SingleTaken
<1>. QED  BY <1>3, <1>4, <1>8

LEMMA LoginGoesOn ==
  ASSUME LendInv, WireType, WiresInv, NEW c \in Conns, elem[c] \in DOMAIN LoginNext, done' = done,
         NEW n \in Net, Quiet(n[c]), \A b \in Conns \ {c} : n[b] = net[b],
         elem' = [elem EXCEPT ![c] = LoginNext[elem[c]]],
         net' = [n EXCEPT ![c].up = Append(n[c].up, [r |-> None, name |-> LoginCmd[elem[c]]])],
         UNCHANGED <<req, data, tainted>>
  PROVE  WiresInv'
<1>. DEFINE x == [r |-> None, name |-> LoginCmd[elem[c]]]
<1>1. /\ elem[c] \in {"FTPCONNECTING", "LOGIN_USER"} /\ LoginCmd[elem[c]] \in {"USER", "PASS"}
      /\ LoginNext[elem[c]] \in {"LOGIN_USER", "LOGIN_PASS"}
  BY DEF LoginNext, LoginCmd
<1>2. elem'[c] = LoginNext[elem[c]] /\ \A b \in Conns \ {c} : elem'[b] = elem[b]
  BY DEF LendInv, LendType
<1>3. x.r = None /\ x = [r |-> None, name |-> x.name] /\ x.name \in {"USER", "PASS"}
  BY <1>1
<1>4. net'[c].up = Append(n[c].up, x) /\ net'[c].down = n[c].down /\ net'[c].job = n[c].job
      /\ \A b \in Conns \ {c} : net'[b] = net[b]
  BY DEF Net, NetConn
<1>. HIDE DEF x
<1>5. net'[c].up = <<x>> /\ net'[c].down = <<>> /\ net'[c].job = None /\ ToSet(net'[c].up) = {x}
      /\ net'[c].up # <<>>
  BY <1>4, OneIs DEF Quiet
<1>6. ConnFits(c)'
  <2>1. LogsIn(elem'[c], net'[c])
    BY <1>1, <1>2, <1>3, <1>5 DEF LogsIn, Single
  <2>2. OfFormer(c)'
    BY <1>3, <1>5 DEF OfFormer
  <2>. QED  BY <1>1, <1>2, <2>1, <2>2 DEF ConnFits
<1>7. \A b \in Conns \ {c} : SameWire(b)
  BY <1>2, <1>4 DEF SameWire
<1>8. ASSUME NEW k \in Users(c) PROVE ReqFits(k)'
  <2>1. k \in Reqs /\ req[k].state \in Active /\ req[k].conn = c /\ ReqFits(k)
    BY DEF Users, WiresInv
  <2>2. /\ Waits(req[k], elem[c])
        /\ req[k].state \in {"NONE", "READY"} => Still(data[k]) /\ ~req[k].got226
        /\ c \notin tainted => Sized(req[k], data[k])
    BY <2>1 DEF ReqFits, Fits
  <2>3. elem[c] # "CONNECTED" /\ elem'[c] # "CONNECTED"
    BY <1>1, <1>2
  <2>4. Waits(req[k], elem'[c]) /\ req[k].state = "READY"
    BY <2>2, <2>3 DEF Waits
  <2>. QED  BY <2>1, <2>2, <2>4 DEF ReqFits, Fits
<1>. QED  BY <1>6, <1>7, <1>8, StillWires

LEMMA ConnectedWires ==
  ASSUME LendInv, WireType, WiresInv, NEW c \in Conns, elem[c] = "LOGIN_PASS", done' = done,
         NEW n \in Net, Quiet(n[c]), \A b \in Conns \ {c} : n[b] = net[b],
         n[c].job = net[c].job, n[c].up = net[c].up, Connected(c, n)
  PROVE  WiresInv'
<1>1. /\ elem' = [elem EXCEPT ![c] = "CONNECTED"] /\ elem'[c] = "CONNECTED"
      /\ \A b \in Conns \ {c} : elem'[b] = elem[b]
  BY DEF Connected, LendInv, LendType
<1>2. \A b \in Conns \ {c} : n[b] = net[b] /\ elem'[b] = elem[b]
  BY <1>1
<1>3. CASE \E r \in Users(c) : req[r].state = "READY"
  <2>1. PICK r \in Users(c) : req[r].state = "READY" /\ SendNext(r, req[r], n)
    BY <1>3 DEF Connected
  <2>2. r \in Reqs /\ req[r].state \in Active /\ c = req[r].conn
    BY DEF Users
  <2>3. /\ Kept(req[r], req[r]) /\ Still(data[r]) /\ ~req[r].got226 /\ req[r].cur = 0
        /\ c \notin tainted => Sized(req[r], data[r])
    BY <2>1, <2>2, UserIs, KeptSame DEF Waits
  <2>4. req[r].cur # Len(Steps[req[r].kind])
    <3>. DEFINE len == Len(Steps[req[r].kind])
    <3>1. len \in 1..5
      BY <2>2, ActiveIs, StepsSound DEF Sound
    <3>. HIDE DEF len
    <3>2. len # 0
      BY <3>1
    <3>. QED  BY <2>3, <3>2 DEF len
  <2>. QED  BY ONLY LendInv, WireType, WiresInv, c \in Conns, n \in Net, Quiet(n[c]),
                    n[c].job = net[c].job, n[c].up = net[c].up, done' = done,
                    <1>1, <1>2, <2>1, <2>2, <2>3, <2>4, SendNextWires
<1>4. CASE ~\E r \in Users(c) : req[r].state = "READY"
  <2>1. net' = n /\ UNCHANGED <<req, data, tainted>>
    BY <1>4 DEF Connected
  <2>2. Users(c) = {}
    BY <1>4, UserIs DEF Users, Waits
  <2>3. ConnFits(c)'
    <3>1. OfFormer(c)'
      BY <2>1, EmptyIs DEF OfFormer, Quiet
    <3>2. "CONNECTED" \notin DOMAIN LoginCode
      BY DEF LoginCode
    <3>. QED  BY <1>1, <2>1, <3>1, <3>2 DEF ConnFits
  <2>4. \A b \in Conns \ {c} : SameWire(b)
    BY <1>2, <2>1 DEF SameWire
  <2>. QED  BY <2>1, <2>2, <2>3, <2>4, StillWires
<1>. QED  BY <1>3, <1>4

LEMMA ReceiveWires ==
  ASSUME LendInv, WireType, WiresInv, NEW c \in Conns, Receive(c)
  PROVE  WiresInv'
<1>. DEFINE p == Head(net[c].down)
            n == [net EXCEPT ![c].down = Tail(net[c].down)]
<1>1. net[c].down # <<>> /\ done' = done /\ elem[c] \notin {"FREE", "TCPCONNECTING", "DISCONNECTED"}
  BY DEF Receive
<1>2. \/ Login(c, p, n)
      \/ /\ elem[c] = "CONNECTED" /\ elem' = elem
         /\ IF Users(c) = {} THEN Ignored(n) ELSE \E r \in Users(c) : RecvResp(r, p, n)
  BY DEF Receive
<1>. HIDE DEF p
<1>3. CASE Login(c, p, n)
  <2>1. elem[c] \in DOMAIN LoginCode /\ elem[c] \in {"FTPCONNECTING", "LOGIN_USER", "LOGIN_PASS"}
    BY <1>3 DEF Login, LoginCode
  <2>2. CASE p.code # LoginCode[elem[c]] /\ Disconnected(c)
    BY <1>1, <2>1, <2>2, DisconnectedWires DEF Open
  <2>3. CASE p.code = LoginCode[elem[c]]
    <3>1. /\ n \in Net /\ Quiet(n[c]) /\ \A b \in Conns \ {c} : n[b] = net[b]
          /\ n[c].job = net[c].job /\ n[c].up = net[c].up
      BY <1>1, <2>1, <2>3, LoginQuiet DEF p
    <3>2. CASE elem[c] = "LOGIN_PASS" /\ Connected(c, n)
      BY <1>1, <3>1, <3>2, ConnectedWires
    <3>3. CASE /\ elem[c] \in DOMAIN LoginNext
               /\ elem' = [elem EXCEPT ![c] = LoginNext[elem[c]]]
               /\ net' = [n EXCEPT ![c].up = Append(n[c].up, [r |-> None, name |-> LoginCmd[elem[c]]])]
               /\ UNCHANGED <<req, stack, data, tainted, idle, busy>>
      <4>. HIDE DEF n
      <4>. QED  BY <1>1, <3>1, <3>3, LoginGoesOn
    <3>. HIDE DEF n
    <3>4. \/ elem[c] = "LOGIN_PASS" /\ Connected(c, n)
          \/ /\ elem[c] \in DOMAIN LoginNext
             /\ elem' = [elem EXCEPT ![c] = LoginNext[elem[c]]]
             /\ net' = [n EXCEPT ![c].up = Append(n[c].up, [r |-> None, name |-> LoginCmd[elem[c]]])]
             /\ UNCHANGED <<req, stack, data, tainted, idle, busy>>
      BY <1>3, <2>3 DEF Login
    <3>. QED  BY <3>2, <3>3, <3>4
  <2>. HIDE DEF n
  <2>4. p.code = LoginCode[elem[c]] \/ (p.code # LoginCode[elem[c]] /\ Disconnected(c))
    BY <1>3 DEF Login
  <2>. QED  BY <2>2, <2>3, <2>4
<1>4. CASE elem[c] = "CONNECTED" /\ elem' = elem /\ Users(c) = {} /\ Ignored(n)
  <2>1. net' = n /\ UNCHANGED <<req, data, tainted>>
    BY <1>4 DEF Ignored
  <2>2. /\ net'[c].up = net[c].up /\ net'[c].job = net[c].job
        /\ \A b \in Conns \ {c} : net'[b] = net[b]
    BY <2>1 DEF WireType, NetConn
  <2>3. ConnFits(c) /\ c \in tainted
    BY <1>1, <1>4 DEF WiresInv, ConnFits, Quiet
  <2>4. ConnFits(c)'
    <3>1. OfFormer(c)'
      BY <2>1, <2>2, <2>3 DEF ConnFits, OfFormer, Former
    <3>2. "CONNECTED" \notin DOMAIN LoginCode
      BY DEF LoginCode
    <3>. QED  BY <1>4, <2>1, <2>3, <3>1, <3>2 DEF ConnFits
  <2>5. \A b \in Conns \ {c} : SameWire(b)
    BY <1>4, <2>1, <2>2 DEF SameWire
  <2>. QED  BY <1>1, <1>4, <2>1, <2>4, <2>5, StillWires
<1>5. CASE elem[c] = "CONNECTED" /\ elem' = elem /\ \E r \in Users(c) : RecvResp(r, p, n)
  <2>1. PICK r \in Users(c) : RecvResp(r, p, n)
    BY <1>5
  <2>2. r \in Reqs /\ Reads(r, c, p, n)
    BY <1>1, <1>5 DEF Users, Reads, p
  <2>. HIDE DEF n
  <2>. QED  BY <2>1, <2>2, RecvRespWires
<1>. QED  BY <1>2, <1>3, <1>4, <1>5

(***************************************************************************)
(* The data stream                                                         *)
(***************************************************************************)

(* A request whose data stream is there, or is being opened, has logged in.*)
LEMMA StreamerIs ==
  ASSUME LendInv, WireType, WiresInv, NEW r \in Reqs,
         req[r].opened \/ (req[r].state \in Active /\ req[r].ctx = r)
  PROVE  /\ req[r].state \in {"WAIT_RESP", "STREAMING"} /\ req[r].state \in Active
         /\ req[r].conn \in Conns /\ elem[req[r].conn] = "CONNECTED" /\ req[r].cur # 0
         /\ Waits(req[r], "CONNECTED") /\ Kept(req[r], req[r])
         /\ req[r] \in Request /\ data[r] \in Stream
         /\ req[r].conn \notin tainted =>
              /\ Sized(req[r], data[r])
              /\ Carries(r, req[r], data[r], net[req[r].conn], done)
<1>1. req[r].state \in Active
  BY DEF LendInv, ToldInv
<1>2. Waits(req[r], elem[req[r].conn]) /\ r # None
  BY <1>1, NoneAssumption, UserIs
<1>3. req[r].state # "READY"
  BY <1>2 DEF Waits
<1>4. elem[req[r].conn] = "CONNECTED" /\ req[r].cur # 0
  BY <1>2, <1>3 DEF Waits
<1>. QED  BY <1>1, <1>2, <1>3, <1>4, UserIs, KeptSame DEF Active

(* A stream on which something has moved.                                  *)
LEMMA MovesIs ==
  ASSUME NEW r, NEW q, NEW d, NEW n, NEW did, Carries(r, q, d, n, did), ~Still(d) \/ q.got226
  PROVE  Moves(r, q, d, n, did)
  BY DEF Carries, Awaits, Asks

LEMMA DataStartWires ==
  ASSUME LendInv, WireType, WiresInv, NEW r \in Reqs, DataStart(r)
  PROVE  WiresInv'
<1>. DEFINE q == [req[r] EXCEPT !.opened = TRUE]
            c == req[r].conn
<1>1. /\ req[r].state \in Active /\ req[r].ctx = r /\ r # None
      /\ UNCHANGED <<elem, net, data, done, tainted>>
  BY NoneAssumption DEF DataStart
<1>2. req' = [req EXCEPT ![r] = q]
  BY DEF DataStart, LendInv, LendType
<1>3. /\ req[r].state \in {"WAIT_RESP", "STREAMING"} /\ c \in Conns /\ elem[c] = "CONNECTED"
      /\ Waits(req[r], "CONNECTED") /\ Kept(req[r], req[r]) /\ req[r] \in Request
      /\ c \notin tainted => /\ Sized(req[r], data[r])
                             /\ Carries(r, req[r], data[r], net[c], done)
  BY <1>1, StreamerIs
<1>4. Kept(req[r], q)
  BY <1>3, KeptFields
<1>5. /\ q.opened = TRUE /\ q.cur = req[r].cur /\ q.state = req[r].state
      /\ q.kind = req[r].kind /\ q.conn = c /\ q.tsize = req[r].tsize /\ q.size = req[r].size
      /\ q.ctx = req[r].ctx /\ q.got226 = req[r].got226
  BY <1>3 DEF Request
<1>. HIDE DEF q, c
<1>6. Cmd(q) = Cmd(req[r])
  BY <1>5 DEF Cmd
<1>7. ASSUME c \notin tainted PROVE Carries(r, q, data[r], net[c], done) /\ Sized(q, data[r])
  <2>1. Moves(r, req[r], data[r], net[c], done) => Moves(r, q, data[r], net[c], done)
    BY <1>1, <1>5, <1>6 DEF Moves, Through
  <2>2. Awaits(r, req[r], data[r], net[c], done) => Awaits(r, q, data[r], net[c], done)
    BY <1>5, <1>6 DEF Awaits
  <2>3. Asks(r, req[r], data[r], net[c]) => Asks(r, q, data[r], net[c])
    BY <1>5, <1>6 DEF Asks
  <2>4. Carries(r, q, data[r], net[c], done)
    BY <1>3, <1>7, <2>1, <2>2, <2>3 DEF Carries
  <2>5. Sized(q, data[r])
    BY <1>3, <1>5, <1>7 DEF Sized
  <2>. QED  BY <2>4, <2>5
<1>8. Fits(r, q, data'[r], net'[c], "CONNECTED", tainted', done)
  <2>1. Waits(q, "CONNECTED")
    BY <1>3, <1>5, <1>6 DEF Waits
  <2>. QED  BY <1>1, <1>3, <1>5, <1>7, <2>1 DEF Fits
<1>9. /\ \A b \in Conns \ {c} : SameWire(b)
      /\ \A x \in ToSet(net'[c].up) : x \in ToSet(net[c].up) \/ x.r = r
      /\ net'[c].job = net[c].job
      /\ \A k \in Reqs \ {r} : data'[k] = data[k]
      /\ elem'[c] = "CONNECTED" /\ done' = done /\ c = req[r].conn /\ req[r].state \in Active
  BY <1>1, <1>3 DEF SameWire, c
<1>. QED  BY ONLY LendInv, WireType, WiresInv, r \in Reqs,
                  <1>2, <1>3, <1>4, <1>8, <1>9, GoesOn

(* A block of a download.                                                  *)
LEMMA DataRecvWires ==
  ASSUME LendInv, WireType, WiresInv, NEW r \in Reqs, DataRecv(r)
  PROVE  WiresInv'
<1>. DEFINE q == [req[r] EXCEPT !.size = req[r].size + 1]
            c == req[r].conn
<1>1. /\ req[r].opened /\ LastCmd(req[r].kind) \in DataIn /\ data[r].got < data[r].sent
      /\ UNCHANGED <<elem, net, done>>
  BY DEF DataRecv
<1>2. /\ req[r].state \in {"WAIT_RESP", "STREAMING"} /\ c \in Conns /\ elem[c] = "CONNECTED"
      /\ Waits(req[r], "CONNECTED") /\ Kept(req[r], req[r]) /\ req[r] \in Request
      /\ data[r] \in Stream /\ req[r].state \in Active
      /\ c \notin tainted => Carries(r, req[r], data[r], net[c], done)
  BY <1>1, StreamerIs
<1>3. req[r].size + 1 \in Nat
  BY <1>2 DEF Request
<1>4. Kept(req[r], q)
  BY <1>2, <1>3, KeptFields
<1>5. /\ q.opened = req[r].opened /\ q.cur = req[r].cur /\ q.state = req[r].state
      /\ q.kind = req[r].kind /\ q.conn = c /\ q.ctx = req[r].ctx /\ q.got226 = req[r].got226
  BY <1>2 DEF Request
<1>6. \/ /\ req' = [req EXCEPT ![r] = q] /\ data' = [data EXCEPT ![r].got = data[r].got + 1]
         /\ tainted' = tainted
      \/ /\ req' = [req EXCEPT ![r] = Stopped(q, "FAILED")]
         /\ data' = [[data EXCEPT ![r].got = @ + 1] EXCEPT ![r].fin = @ \cup {"client"}]
         /\ Taint(q.conn)
  BY DEF DataRecv, WireType, Stream
<1>. HIDE DEF q, c
<1>7. CASE /\ req' = [req EXCEPT ![r] = q] /\ data' = [data EXCEPT ![r].got = data[r].got + 1]
           /\ tainted' = tainted
  <2>1. /\ data'[r].fin = data[r].fin /\ data'[r].sent = data[r].sent
        /\ \A k \in Reqs \ {r} : data'[k] = data[k]
    BY <1>7 DEF WireType, Stream
  <2>2. ~Still(data[r])
    BY <1>1, <1>2 DEF Still, Stream
  <2>3. Cmd(q) = Cmd(req[r]) /\ LastCmd(q.kind) \notin DataOut
    BY <1>1, <1>5, WaysApart DEF Cmd
  <2>4. ASSUME c \notin tainted PROVE Carries(r, q, data'[r], net[c], done) /\ Sized(q, data'[r])
    <3>1. Moves(r, req[r], data[r], net[c], done)
      BY <1>2, <2>2, <2>4, MovesIs
    <3>2. Moves(r, q, data'[r], net[c], done)
      BY <1>1, <1>5, <2>1, <2>3, <3>1 DEF Moves, Through
    <3>. QED  BY <1>2, <2>3, <2>4, <3>2 DEF Carries, Sized
  <2>5. Fits(r, q, data'[r], net'[c], "CONNECTED", tainted', done)
    <3>1. Waits(q, "CONNECTED")
      BY <1>2, <1>5, <2>3 DEF Waits
    <3>. QED  BY <1>1, <1>2, <1>5, <1>7, <2>4, <3>1 DEF Fits
  <2>6. /\ \A b \in Conns \ {c} : SameWire(b)
        /\ \A x \in ToSet(net'[c].up) : x \in ToSet(net[c].up) \/ x.r = r
        /\ net'[c].job = net[c].job
        /\ elem'[c] = "CONNECTED" /\ done' = done /\ c = req[r].conn
        /\ req' = [req EXCEPT ![r] = q]
    BY <1>1, <1>2, <1>7 DEF SameWire, c
  <2>. QED  BY ONLY LendInv, WireType, WiresInv, r \in Reqs,
                    <1>2, <1>4, <2>1, <2>5, <2>6, GoesOn
<1>8. CASE /\ req' = [req EXCEPT ![r] = Stopped(q, "FAILED")]
           /\ data' = [[data EXCEPT ![r].got = @ + 1] EXCEPT ![r].fin = @ \cup {"client"}]
           /\ Taint(q.conn)
  <2>1. \A k \in Reqs \ {r} : data'[k] = data[k]
    BY <1>8 DEF WireType
  <2>2. FinalStatus(q, "FAILED") # "OK" /\ "FAILED" \in Ways
    BY DEF FinalStatus, Ways
  <2>3. /\ \A b \in Conns \ {c} : net'[b] = net[b]
        /\ \A x \in ToSet(net'[c].up) : x \in ToSet(net[c].up)
        /\ net'[c].job = net[c].job /\ Taint(c)
        /\ elem[c] = "CONNECTED" /\ elem' = elem /\ done' = done /\ c = req[r].conn
        /\ req' = [req EXCEPT ![r] = Stopped(q, "FAILED")]
    BY <1>1, <1>2, <1>5, <1>8 DEF c
  <2>. QED  BY ONLY LendInv, WireType, WiresInv, r \in Reqs,
                    <1>2, <1>4, <2>1, <2>2, <2>3, EndsThere
<1>. QED  BY <1>6, <1>7, <1>8

(* The server has closed the data stream.                                  *)
LEMMA DataStopWires ==
  ASSUME LendInv, WireType, WiresInv, NEW r \in Reqs, DataStop(r)
  PROVE  WiresInv'
<1>. DEFINE q == [req[r] EXCEPT !.opened = FALSE, !.ctx = None]
            c == req[r].conn
<1>1. /\ req[r].opened /\ "server" \in data[r].fin
      /\ LastCmd(req[r].kind) \in DataIn => data[r].got = data[r].sent
      /\ UNCHANGED <<elem, net, done>>
  BY DEF DataStop
<1>2. /\ req[r].state \in {"WAIT_RESP", "STREAMING"} /\ c \in Conns /\ elem[c] = "CONNECTED"
      /\ Waits(req[r], "CONNECTED") /\ Kept(req[r], req[r]) /\ req[r] \in Request
      /\ data[r] \in Stream /\ req[r].state \in Active
      /\ c \notin tainted => /\ Sized(req[r], data[r])
                             /\ Carries(r, req[r], data[r], net[c], done)
  BY <1>1, StreamerIs
<1>3. Kept(req[r], q)
  BY <1>2, KeptFields
<1>4. /\ q.opened = FALSE /\ q.cur = req[r].cur /\ q.state = req[r].state
      /\ q.kind = req[r].kind /\ q.conn = c /\ q.ctx = None /\ q.got226 = req[r].got226
      /\ q.tsize = req[r].tsize /\ q.size = req[r].size /\ q \in Request
  BY <1>2 DEF Request
<1>5. IF ServerDone(q) THEN End(r, q, "OK") /\ Taint(q.conn)
      ELSE /\ req' = [req EXCEPT ![r] = q]
           /\ data' = [data EXCEPT ![r].fin = data[r].fin \cup {"client"}]
           /\ UNCHANGED <<stack, tainted>>
  BY DEF DataStop
<1>. HIDE DEF q, c
<1>6. Cmd(q) = Cmd(req[r])
  BY <1>4 DEF Cmd
<1>7. ASSUME c \notin tainted
      PROVE  Moves(r, req[r], data[r], net[c], done) /\ Sized(q, data[r])
  <2>1. ~Still(data[r])
    BY <1>1 DEF Still
  <2>2. Moves(r, req[r], data[r], net[c], done)
    BY <1>2, <1>7, <2>1, MovesIs
  <2>3. Sized(q, data[r])
    BY <1>2, <1>4, <1>7 DEF Sized
  <2>. QED  BY <2>2, <2>3
<1>8. CASE ServerDone(q)
  <2>1. /\ End(r, q, "OK") /\ Taint(c)
    BY <1>4, <1>5, <1>8
  <2>2. /\ req' = [req EXCEPT ![r] = Stopped(q, "OK")]
        /\ \A k \in Reqs \ {r} : data'[k] = data[k]
        /\ data'[r].got = data[r].got /\ "OK" \in Ways
    BY <2>1 DEF End, WireType, Stream, Ways
  <2>3. ASSUME c \notin tainted', FinalStatus(q, "OK") = "OK"
        PROVE  Finished(r, q, data'[r], done)
    <3>1. c \notin tainted
      BY <2>1, <2>3 DEF Taint
    <3>2. Through(r, q, data[r], done)
      BY <1>4, <1>7, <1>8, <3>1 DEF ServerDone, Moves, Through
    <3>3. Finished(r, q, data[r], done)
      BY <1>1, <1>2, <1>4, <1>7, <2>3, <3>1, <3>2, FinishedIs
    <3>. QED  BY <2>2, <3>3 DEF Finished
  <2>4. /\ \A b \in Conns \ {c} : net'[b] = net[b]
        /\ \A x \in ToSet(net'[c].up) : x \in ToSet(net[c].up)
        /\ net'[c].job = net[c].job /\ Taint(c)
        /\ elem[c] = "CONNECTED" /\ elem' = elem /\ done' = done /\ c = req[r].conn
    BY <1>1, <1>2, <2>1 DEF c
  <2>. QED  BY ONLY LendInv, WireType, WiresInv, r \in Reqs,
                    <1>2, <1>3, <2>2, <2>3, <2>4, EndsThere
<1>9. CASE ~ServerDone(q)
  <2>1. /\ req' = [req EXCEPT ![r] = q] /\ tainted' = tainted
        /\ data' = [data EXCEPT ![r].fin = data[r].fin \cup {"client"}]
    BY <1>5, <1>9
  <2>2. /\ data'[r].fin = data[r].fin \cup {"client"} /\ data'[r].sent = data[r].sent
        /\ data'[r].got = data[r].got /\ \A k \in Reqs \ {r} : data'[k] = data[k]
    BY <2>1 DEF WireType, Stream
  <2>3. ASSUME c \notin tainted PROVE Carries(r, q, data'[r], net[c], done) /\ Sized(q, data'[r])
    <3>1. Moves(r, q, data'[r], net[c], done)
      BY <1>1, <1>4, <1>6, <1>7, <2>2, <2>3 DEF Moves, Through
    <3>2. Sized(q, data'[r])
      BY <1>7, <2>2, <2>3 DEF Sized
    <3>. QED  BY <1>2, <2>3, <3>1, <3>2 DEF Carries
  <2>4. Fits(r, q, data'[r], net'[c], "CONNECTED", tainted', done)
    <3>1. Waits(q, "CONNECTED")
      BY <1>2, <1>4, <1>6 DEF Waits
    <3>. QED  BY <1>1, <1>2, <1>4, <2>1, <2>3, <3>1 DEF Fits
  <2>5. /\ \A b \in Conns \ {c} : SameWire(b)
        /\ \A x \in ToSet(net'[c].up) : x \in ToSet(net[c].up) \/ x.r = r
        /\ net'[c].job = net[c].job
        /\ elem'[c] = "CONNECTED" /\ done' = done /\ c = req[r].conn
        /\ req' = [req EXCEPT ![r] = q]
    BY <1>1, <1>2, <2>1 DEF SameWire, c
  <2>. QED  BY ONLY LendInv, WireType, WiresInv, r \in Reqs,
                    <1>2, <1>3, <2>2, <2>4, <2>5, GoesOn
<1>. QED  BY <1>8, <1>9

LEMMA DataSentWires ==
  ASSUME LendInv, WireType, WiresInv, NEW r \in Reqs, DataSent(r)
  PROVE  WiresInv'
<1>. DEFINE c == req[r].conn
<1>1. /\ req[r].state = "STREAMING" /\ req[r].opened /\ LastCmd(req[r].kind) \in DataOut
      /\ UNCHANGED <<elem, net, done>>
  BY DEF DataSent
<1>2. PICK readable \in BOOLEAN : DataRead(r, req[r], readable)
  BY DEF DataSent
<1>3. /\ c \in Conns /\ elem[c] = "CONNECTED" /\ req[r].cur # 0
      /\ Waits(req[r], "CONNECTED") /\ Kept(req[r], req[r]) /\ req[r].state \in Active
      /\ c \notin tainted => /\ Sized(req[r], data[r])
                             /\ Carries(r, req[r], data[r], net[c], done)
  BY <1>1, StreamerIs
<1>4. Cmd(req[r]) \in Moving
  BY <1>1, <1>3 DEF Waits
<1>5. c \notin tainted => /\ Moves(r, req[r], data[r], net[c], done) /\ Sized(req[r], data[r])
                          /\ \A a \in ToSet(net[c].down) : a.of = r
                          /\ net[c].job \in {None, r}
  BY <1>1, <1>3, <1>4 DEF Carries, Awaits, Asks
<1>6. c \notin tainted => /\ Moves(r, req[r], data[r], net'[c], done) /\ Sized(req[r], data[r])
                          /\ \A a \in ToSet(net'[c].down) : a.of = r
                          /\ net'[c].job \in {None, r}
  BY <1>1, <1>5
<1>. HIDE DEF c
<1>7. /\ \A b \in Conns \ {c} : net'[b] = net[b]
      /\ \A x \in ToSet(net'[c].up) : x \in ToSet(net[c].up)
      /\ net'[c].job = net[c].job /\ elem' = elem /\ done' = done /\ c = req[r].conn
  BY <1>1 DEF c
<1>. QED  BY ONLY LendInv, WireType, WiresInv, r \in Reqs, readable \in BOOLEAN,
                  <1>1, <1>2, <1>3, <1>4, <1>6, <1>7, DataReadWires

(***************************************************************************)
(* The application                                                         *)
(***************************************************************************)

LEMMA LastOne ==
  ASSUME NEW S, NEW s \in Seq(S), NEW x \in S
  PROVE  Last(s \o <<x>>) = x
<1>1. <<x>> \in Seq(S) /\ Len(<<x>>) = 1 /\ <<x>>[1] = x /\ Len(s) \in Nat
  OBVIOUS
<1>. DEFINE t == s \o <<x>>
            len == Len(s)
            one == <<x>>
<1>2. Len(t) = len + Len(one) /\ \A i \in 1..Len(one) : t[len + i] = one[i]
  BY <1>1, ConcatIs
<1>. HIDE DEF t, len, one
<1>3. Len(one) = 1 /\ one[1] = x /\ len \in Nat
  BY <1>1 DEF len, one
<1>4. 1 \in 1..Len(one)
  BY <1>3
<1>5. t[len + 1] = x /\ Len(t) = len + 1
  BY <1>2, <1>3, <1>4
<1>6. Last(t) = x
  BY <1>5 DEF Last
<1>. QED  BY <1>6 DEF t

LEMMA UploadsAre ==
  ASSUME NEW kind \in DOMAIN Steps, LastCmd(kind) \in DataOut
  PROVE  kind \in {"put", "append"}
<1>1. kind \in {"get", "resume", "put", "append", "size", "rename", "delete", "list"}
  BY DEF Steps
<1>2. /\ <<"EPSV", "TYPE", "SIZE">> \o <<>> \in Seq(Named) /\ "RETR" \in Named
      /\ <<"EPSV", "TYPE", "SIZE">> \o <<"REST">> \in Seq(Named)
  BY DEF Named, Early, Moving, DataIn
<1>3. Last(GetSteps(FALSE)) = "RETR" /\ Last(GetSteps(TRUE)) = "RETR"
  BY <1>2, LastOne DEF GetSteps
<1>4. /\ Last(SizeSteps) = "SIZE" /\ Last(DeleteSteps) = "DELE"
      /\ Last(RenameSteps) = "RNTO" /\ Last(ListSteps) = "LIST"
  BY DEF Last, SizeSteps, DeleteSteps, RenameSteps, ListSteps
<1>5. /\ Steps["get"] = GetSteps(FALSE) /\ Steps["resume"] = GetSteps(TRUE)
      /\ Steps["size"] = SizeSteps /\ Steps["rename"] = RenameSteps
      /\ Steps["delete"] = DeleteSteps /\ Steps["list"] = ListSteps
  BY DEF Steps
<1>6. "RETR" \notin DataOut /\ "SIZE" \notin DataOut /\ "DELE" \notin DataOut
      /\ "RNTO" \notin DataOut /\ "LIST" \notin DataOut
  BY DEF DataOut
<1>. QED  BY <1>1, <1>3, <1>4, <1>5, <1>6 DEF LastCmd

LEMMA StartWires ==
  ASSUME LendInv, WireType, WiresInv, NEW r \in Reqs, NEW kind, NEW size \in Nat, NEW tsize \in Nat,
         Start(r, kind, size, tsize),
         LastCmd(kind) \in DataOut => size = Offset(kind) /\ tsize = FileLen
  PROVE  WiresInv'
<1>. DEFINE x == [r |-> r, name |-> Steps[kind][1]]
<1>0. PICK c \in Conns : c = ConnFor
  BY StartIs
<1>1. /\ elem' = IF elem[c] = "FREE" THEN [elem EXCEPT ![c] = "TCPCONNECTING"] ELSE elem
      /\ net' = IF elem[c] = "CONNECTED" THEN [net EXCEPT ![c].up = Append(net[c].up, x)] ELSE net
      /\ UNCHANGED <<data, done, tainted>>
      /\ Reusable # {} \/ FreeConns # {}
  BY <1>0 DEF Start, Sends
<1>2. /\ \A k \in Reqs : Owning(req[k]) => req[k].conn # c
      /\ \A k \in Reqs : Owning(req[k]) => req[k].conn \in Conns
  BY <1>0, <1>1, ConnForIs DEF LendInv, OwnersInv
<1>3. /\ req' \in [Reqs -> Request] /\ \A k \in Reqs : k # r => req'[k] = req[k]
      /\ req[r].state = "NONE" /\ req'[r].state \in Active /\ Owning(req'[r])
      /\ req'[r].conn = c /\ req'[r].told = <<>> /\ ~req'[r].opened
      /\ req'[r].kind = kind /\ kind \in DOMAIN Steps
      /\ req'[r].size = size /\ req'[r].tsize = tsize /\ req'[r].ctx = None
      /\ ~req'[r].got226
      /\ IF elem[c] = "CONNECTED"
         THEN req'[r].state = "WAIT_RESP" /\ req'[r].cur = 1
         ELSE req'[r].state = "READY" /\ req'[r].cur = 0
      /\ elem[c] # "DISCONNECTED"
  BY <1>0, StartIs
<1>4. x.r = r /\ x.name = Steps[kind][1] /\ x = [r |-> r, name |-> x.name]
  OBVIOUS
<1>. HIDE DEF x
<1>5. net \in Net /\ net[c] \in NetConn /\ net[c].up \in Seq(Commands) /\ x \in Commands
  <2>1. Steps[kind][1] \in DOMAIN Code
    BY <1>3, StepsSound DEF Sound
  <2>. QED  BY <1>3, <1>4, <2>1, WireIs DEF WireType, Net, Commands
<1>6. /\ \A b \in Conns \ {c} : SameWire(b)
      /\ elem'[c] = IF elem[c] = "FREE" THEN "TCPCONNECTING" ELSE elem[c]
      /\ net'[c].down = net[c].down /\ net'[c].job = net[c].job
      /\ elem[c] = "CONNECTED" => net'[c].up = Append(net[c].up, x)
      /\ elem[c] # "CONNECTED" => net' = net
  BY <1>1, <1>3, <1>5 DEF SameWire, LendInv, LendType, Net, NetConn
<1>7. ConnFits(c) /\ ReqFits(r) /\ data'[r] = data[r]
  BY <1>1, <1>3 DEF WiresInv
<1>8. Still(data[r]) /\ ~req[r].got226
  BY <1>3, <1>7 DEF ReqFits, Fits
<1>9. ConnFits(c)'
  <2>1. \A k \in Reqs : Former(k, c) => Former(k, c)'
    BY <1>3 DEF Former, Owning, Active
  <2>2. Former(r, c)' /\ r \in Users(c)'
    BY <1>3 DEF Former, Users
  <2>3. \A y \in ToSet(net'[c].up) : y \in ToSet(net[c].up) \/ y = x
    <3>1. ToSet(Append(net[c].up, x)) = ToSet(net[c].up) \cup {x}
      BY <1>5, AppendIs
    <3>. QED  BY <1>6, <3>1
  <2>4. OfFormer(c)'
    <3>1. OfFormer(c)
      BY <1>7 DEF ConnFits
    <3>2. \A k \in Reqs : k = net[c].job => Former(k, c)'
      BY <2>1, <3>1, NoneAssumption DEF OfFormer
    <3>0. net'[c].job \in Reqs \cup {None} /\ net'[c].job = net[c].job
      BY <1>0, <1>6, WireIs
    <3>3. \A y \in ToSet(net[c].up) : y.r # None => Former(y.r, c)'
      BY <1>0, <2>1, <3>1, WireIs DEF OfFormer
    <3>4. \A y \in ToSet(net'[c].up) : y.r # None => Former(y.r, c)'
      BY <1>4, <2>2, <2>3, <3>3
    <3>. QED  BY <3>0, <3>2, <3>4 DEF OfFormer
  <2>5. CASE elem[c] = "FREE"
    <3>1. Quiet(net'[c])
      BY <1>6, <1>7, <2>5 DEF ConnFits
    <3>. QED  BY <1>6, <2>4, <2>5, <3>1 DEF ConnFits, LoginCode
  <2>6. CASE elem[c] = "CONNECTED"
    BY <1>6, <2>2, <2>4, <2>6 DEF ConnFits, LoginCode
  <2>7. CASE elem[c] \notin {"FREE", "CONNECTED"}
    BY <1>6, <1>7, <2>4, <2>7 DEF ConnFits
  <2>. QED  BY <2>5, <2>6, <2>7
<1>10. ReqFits(r)'
  <2>. DEFINE q == req'[r]
  <2>1. Waits(q, elem'[c])
    BY <1>3, <1>6 DEF Waits
  <2>2. Sized(q, data'[r])
    <3>1. LastCmd(kind) \in DataOut => tsize = FileLen /\ size = Offset(kind) + data'[r].sent
      BY <1>7, <1>8 DEF Still, Offset
    <3>. QED  BY <1>3, <3>1 DEF Sized
  <2>3. ASSUME c \notin tainted, q.state \in {"WAIT_RESP", "STREAMING"}
        PROVE  Carries(r, q, data'[r], net'[c], done')
    <3>1. elem[c] = "CONNECTED"
      BY <1>3, <2>3
    <3>2. Quiet(net[c])
      BY <1>2, <1>7, <2>3, <3>1 DEF ConnFits, Users, Owning
    <3>3. net'[c].up = <<x>> /\ net'[c].down = <<>> /\ net'[c].job = None
      BY <1>5, <1>6, <3>1, <3>2, OneIs DEF Quiet
    <3>4. Cmd(q) = x.name /\ q.state = "WAIT_RESP"
      BY <1>3, <1>4, <3>1 DEF Cmd
    <3>5. x = [r |-> r, name |-> Cmd(q)]
      BY <1>4, <3>4
    <3>6. Awaits(r, q, data'[r], net'[c], done') \/ Asks(r, q, data'[r], net'[c])
      BY <1>3, <1>7, <1>8, <3>3, <3>4, <3>5, EmptyIs DEF Awaits, Asks, Single
    <3>. QED  BY <3>3, <3>6, EmptyIs DEF Carries
  <2>4. Still(data'[r]) /\ ~q.got226 /\ q.conn = c /\ tainted' = tainted /\ q.state # "DONE"
    BY <1>1, <1>3, <1>7, <1>8 DEF Active
  <2>. HIDE DEF q
  <2>5. Fits(r, q, data'[r], net'[c], elem'[c], tainted', done')
    BY <2>1, <2>2, <2>3, <2>4 DEF Fits
  <2>. QED  BY <2>4, <2>5 DEF ReqFits, q
<1>11. \A k \in Reqs : k # r => Apart(k, c)
  BY <1>1, <1>2, <1>3 DEF Apart
<1>12. \A k \in Reqs : Turns(k, c)
  BY <1>3 DEF Turns
<1>. QED  BY <1>1, <1>3, <1>6, <1>9, <1>10, <1>11, <1>12, Local

LEMMA StartsWires ==
  ASSUME LendInv, WireType, WiresInv, NEW r \in Reqs,
         Get(r) \/ Put(r) \/ Size(r) \/ Rename(r) \/ Delete(r) \/ List(r)
  PROVE  WiresInv'
<1>1. \A kind : Offset(kind) \in Nat /\ 0 \in Nat /\ FileLen \in Nat
  BY FtpAssumption DEF Offset
<1>2. ASSUME NEW kind, NEW size \in Nat, NEW tsize \in Nat, Start(r, kind, size, tsize)
      PROVE  LastCmd(kind) \in DataOut => kind \in {"put", "append"}
  BY <1>2, StartIs, UploadsAre
<1>3. CASE Get(r)
  <2>1. PICK kind \in {"get", "resume"} : Start(r, kind, Offset(kind), 0)
    BY <1>3 DEF Get
  <2>. QED  BY <1>1, <1>2, <2>1, StartWires
<1>4. CASE Put(r)
  <2>1. PICK kind \in {"put", "append"} : Start(r, kind, Offset(kind), FileLen)
    BY <1>4 DEF Put
  <2>. QED  BY <1>1, <2>1, StartWires
<1>5. CASE Size(r) \/ Rename(r) \/ Delete(r) \/ List(r)
  <2>1. PICK kind \in {"size", "rename", "delete", "list"} : Start(r, kind, 0, 0)
    BY <1>5 DEF Size, Rename, Delete, List
  <2>. QED  BY <1>1, <1>2, <2>1, StartWires
<1>. QED  BY <1>3, <1>4, <1>5

LEMMA ReturnWires ==
  ASSUME LendInv, WireType, WiresInv, Return
  PROVE  WiresInv'
<1>1. PICK r \in Reqs :
           /\ req[r].state = "DONE" /\ \A k \in Reqs : k # r => req'[k] = req[k]
           /\ req'[r].state = "FREED"
  BY ReturnIs
<1>0. PICK c \in Conns : c = req[r].conn
  BY <1>1 DEF LendInv, OwnersInv, Owning
<1>2. UNCHANGED <<elem, net, data, done, tainted>>
  BY DEF Return
<1>3. /\ Owning(req[r])
      /\ \A k \in Reqs : k # r /\ Owning(req[k]) => req[k].conn \in Conns \ {c}
  BY <1>0, <1>1 DEF LendInv, OwnersInv, Owning
<1>4. Users(c) = {} /\ ConnFits(c)
  BY <1>0, <1>1, <1>3 DEF Users, Owning, Active, WiresInv
<1>5. \A k \in Reqs : Former(k, c) => Former(k, c)'
  BY <1>1 DEF Former
<1>6. OfFormer(c)'
  BY <1>2, <1>3, <1>4, <1>5, WireIs DEF ConnFits, OfFormer
<1>7. ConnFits(c)'
  BY <1>2, <1>4, <1>6 DEF ConnFits
<1>8. ReqFits(r)'
  BY <1>1 DEF ReqFits, Fits, Active
<1>9. \A k \in Reqs : k # r => Apart(k, c)
  BY <1>1, <1>2, <1>3 DEF Apart
<1>10. \A k \in Reqs : Turns(k, c)
  BY <1>0, <1>1, <1>3 DEF Turns
<1>11. \A b \in Conns \ {c} : SameWire(b)
  BY <1>2 DEF SameWire
<1>. QED  BY <1>2, <1>3, <1>7, <1>8, <1>9, <1>10, <1>11, Local

LEMMA CancelNowWires ==
  ASSUME LendInv, WireType, WiresInv, NEW r \in Reqs, req[r].state \in Active,
         NEW q, Kept(req[r], q), CancelNow(r, q), elem' = elem, done' = done
  PROVE  WiresInv'
<1>. DEFINE c == req[r].conn
<1>1. net' = net /\ End(r, q, "CANCELED") /\ Taint(c) /\ "CANCELED" \in Ways
  BY DEF CancelNow, Ways, Kept
<1>2. FinalStatus(q, "CANCELED") # "OK"
  BY DEF FinalStatus
<1>3. /\ req' = [req EXCEPT ![r] = Stopped(q, "CANCELED")]
      /\ \A k \in Reqs \ {r} : data'[k] = data[k] /\ c \in Conns
  BY <1>1, UserIs DEF End, WireType
<1>4. c \in Conns
  BY UserIs
<1>5. /\ \A b \in Conns \ {c} : net'[b] = net[b]
      /\ \A x \in ToSet(net'[c].up) : x \in ToSet(net[c].up)
      /\ net'[c].job = net[c].job /\ c = req[r].conn
  BY <1>1
<1>. HIDE DEF c
<1>. QED  BY <1>1, <1>2, <1>3, <1>4, <1>5, EndsThere

LEMMA SameWires ==
  ASSUME WiresInv, UNCHANGED <<req, elem, net, data, done, tainted>>
  PROVE  WiresInv'
  BY DEF WiresInv, ConnFits, ReqFits, OfFormer, Former, Users

LEMMA CancelWires ==
  ASSUME LendInv, WireType, WiresInv, NEW r \in Reqs, Cancel(r)
  PROVE  WiresInv'
<1>1. req[r].state \in Active /\ CancelNow(r, req[r]) /\ elem' = elem /\ done' = done
  BY DEF Cancel, CanStop
<1>2. Kept(req[r], req[r])
  BY <1>1, KeptSame
<1>. QED  BY <1>1, <1>2, CancelNowWires

LEMMA WalkStepWires ==
  ASSUME LendInv, WireType, WiresInv, WalkStep
  PROVE  WiresInv'
<1>. DEFINE r == Head(walk.todo)
            b == walk.kind = "abort"
            q == [req[r] EXCEPT !.aborted = b]
<1>1. /\ \/ CanStop(r) /\ CancelNow(r, q)
         \/ ~CanStop(r) /\ UNCHANGED <<req, data, tainted, net>>
      /\ elem' = elem /\ done' = done
      /\ walk.todo # <<>> /\ walk.todo \in Seq(Reqs)
  BY DEF WalkStep, LendInv, LendType
<1>2. r \in Reqs /\ b \in BOOLEAN
  BY <1>1, TailIs
<1>3. ASSUME CanStop(r) PROVE req[r].state \in Active /\ Kept(req[r], q)
  <2>1. req[r].state \in Active
    BY <1>3 DEF CanStop
  <2>2. Kept(req[r], req[r])
    BY <1>2, <2>1, KeptSame
  <2>. HIDE DEF b
  <2>. QED  BY <1>2, <2>1, <2>2, KeptFields
<1>. HIDE DEF q, r
<1>4. CASE CanStop(r) /\ CancelNow(r, q)
  BY <1>1, <1>2, <1>3, <1>4, CancelNowWires
<1>5. CASE UNCHANGED <<req, data, tainted, net>>
  BY <1>1, <1>5, SameWires
<1>. QED  BY <1>1, <1>4, <1>5

(* After arsdk_ftp_stop only the connections in no list are left.          *)
LEMMA WalkEndWires ==
  ASSUME LendInv, WireType, WiresInv, WalkEnd
  PROVE  WiresInv'
<1>1. /\ stack = <<>> /\ walk.todo = <<>> /\ walk.kind \in {"cancel", "abort"}
      /\ UNCHANGED <<req, data, done>>
  BY DEF WalkEnd, LendInv, LendType
<1>2. CASE walk.kind = "cancel"
  <2>1. UNCHANGED <<elem, net, tainted>>
    BY <1>2 DEF WalkEnd
  <2>. QED  BY <1>1, <2>1, SameWires
<1>3. CASE walk.kind = "abort"
  <2>. DEFINE kept == {c \in Conns : c \notin busy /\ c \notin ToSet(idle)}
  <2>1. /\ elem' = [c \in Conns |-> IF c \in kept THEN elem[c] ELSE "FREE"]
        /\ net' = [c \in Conns |-> IF c \in kept THEN net[c] ELSE NewNet]
        /\ tainted' = tainted \cap kept
    BY <1>3 DEF WalkEnd
  <2>. HIDE DEF kept
  <2>2. \A r \in Reqs : ~Owning(req[r])
    BY <1>1, <1>3, NobodyLeft
  <2>3. ASSUME NEW r \in Reqs PROVE ReqFits(r)'
    <3>1. ReqFits(r) /\ req[r].state \notin Active /\ req[r].state # "DONE"
      BY <2>2 DEF WiresInv, Owning
    <3>. QED  BY <1>1, <3>1 DEF ReqFits, Fits, Active
  <2>4. ASSUME NEW c \in Conns PROVE ConnFits(c)'
    <3>1. CASE c \in kept
      <4>1. /\ elem'[c] = elem[c] /\ net'[c] = net[c] /\ (c \in tainted' <=> c \in tainted)
            /\ ConnFits(c)
        BY <2>1, <3>1 DEF WiresInv
      <4>2. OfFormer(c)'
        BY <1>1, <4>1 DEF ConnFits, OfFormer, Former
      <4>. QED  BY <1>1, <4>1, <4>2 DEF ConnFits, Users
    <3>2. CASE c \notin kept
      <4>1. elem'[c] = "FREE" /\ net'[c] = NewNet
        BY <2>1, <3>2
      <4>2. Quiet(net'[c]) /\ OfFormer(c)'
        BY <4>1, EmptyIs DEF Quiet, NewNet, OfFormer
      <4>. QED  BY <4>1, <4>2 DEF ConnFits, LoginCode
    <3>. QED  BY <3>1, <3>2
  <2>. QED  BY <2>3, <2>4 DEF WiresInv
<1>. QED  BY <1>1, <1>2, <1>3

(* The TCP connection is there, the connection is freed.                   *)
LEMMA TcpConnectedWires ==
  ASSUME LendInv, WireType, WiresInv, NEW c \in Conns, TcpConnected(c)
  PROVE  WiresInv'
<1>. DEFINE a == [code |-> 220, of |-> None]
<1>1. /\ elem[c] = "TCPCONNECTING" /\ elem' = [elem EXCEPT ![c] = "FTPCONNECTING"]
      /\ net' = [net EXCEPT ![c].down = <<a>>]
      /\ UNCHANGED <<req, data, done, tainted>>
  BY DEF TcpConnected
<1>2. a \in Answers /\ a.code = 220
  BY DEF Answers, Codes
<1>. HIDE DEF a
<1>3. /\ net'[c].down = <<a>> /\ net'[c].up = net[c].up /\ net'[c].job = net[c].job
      /\ elem'[c] = "FTPCONNECTING" /\ \A b \in Conns \ {c} : SameWire(b)
  BY <1>1 DEF SameWire, WireType, NetConn, LendInv, LendType
<1>4. net'[c].up = <<>> /\ net'[c].job = None
  BY <1>1, <1>3 DEF WiresInv, ConnFits, Quiet
<1>5. ConnFits(c)'
  <2>1. LogsIn(elem'[c], net'[c])
    <3>1. LoginCode["FTPCONNECTING"] = 220
      BY DEF LoginCode
    <3>. QED  BY <1>2, <1>3, <1>4, <3>1 DEF LogsIn, Single
  <2>2. OfFormer(c)'
    BY <1>4, EmptyIs DEF OfFormer
  <2>. QED  BY <1>3, <2>1, <2>2 DEF ConnFits
<1>6. ASSUME NEW k \in Users(c) PROVE ReqFits(k)'
  <2>1. k \in Reqs /\ req[k].state \in Active /\ req[k].conn = c /\ ReqFits(k)
    BY DEF Users, WiresInv
  <2>2. /\ Waits(req[k], elem[c])
        /\ req[k].state \in {"NONE", "READY"} => Still(data[k]) /\ ~req[k].got226
        /\ c \notin tainted => Sized(req[k], data[k])
    BY <2>1 DEF ReqFits, Fits
  <2>3. elem[c] # "CONNECTED" /\ elem'[c] # "CONNECTED"
    BY <1>1, <1>3
  <2>4. Waits(req[k], elem'[c]) /\ req[k].state = "READY"
    BY <2>2, <2>3 DEF Waits
  <2>. QED  BY <1>1, <2>1, <2>2, <2>4 DEF ReqFits, Fits
<1>. QED  BY <1>1, <1>3, <1>5, <1>6, StillWires

LEMMA DestroyElemWires ==
  ASSUME LendInv, WireType, WiresInv, NEW c \in Conns, DestroyElem(c)
  PROVE  WiresInv'
<1>1. /\ elem[c] = "DISCONNECTED" /\ elem' = [elem EXCEPT ![c] = "FREE"]
      /\ tainted' = tainted \ {c} /\ stack = <<>>
      /\ UNCHANGED <<req, net, data, done>>
  BY DEF DestroyElem, Looping
<1>2. elem'[c] = "FREE" /\ \A b \in Conns \ {c} : SameWire(b)
  BY <1>1 DEF SameWire, LendInv, LendType
<1>3. \A k \in Reqs : Owning(req[k]) => req[k].conn # c
  <2>1. \A k \in Reqs : req[k].state # "DONE"
    BY <1>1, EmptyIs DEF LendInv, CountedInv
  <2>2. \A k \in Reqs : req[k].state \in Active => req[k].conn # c
    BY <1>1, UserIs
  <2>. QED  BY <2>1, <2>2 DEF Owning
<1>4. Users(c) = {}
  BY <1>3 DEF Users, Owning
<1>5. ConnFits(c)'
  <2>1. ConnFits(c)
    BY DEF WiresInv
  <2>2. OfFormer(c)'
    BY <1>1, <2>1 DEF ConnFits, OfFormer, Former
  <2>. QED  BY <1>1, <1>2, <2>1, <2>2 DEF ConnFits, LoginCode
<1>. QED  BY <1>1, <1>2, <1>3, <1>4, <1>5, StillWires

(***************************************************************************)
(* The server                                                              *)
(***************************************************************************)

(* The server acts on connection c, for request j if any.                  *)
Serves(c, j) ==
    /\ UNCHANGED <<req, elem, tainted>> /\ done \subseteq done'
    /\ \A b \in Conns \ {c} : net'[b] = net[b]
    /\ ~Quiet(net[c])
    /\ j # None => Former(j, c)
    /\ \A k \in Reqs : k # j => data'[k] = data[k]
    /\ \A x \in ToSet(net'[c].up) : x \in ToSet(net[c].up)
    /\ net'[c].job \in {None, j, net[c].job}

LEMMA ServesWires ==
  ASSUME LendInv, WireType, WiresInv, NEW c \in Conns, NEW j \in Reqs \cup {None}, Serves(c, j),
         elem[c] \in DOMAIN LoginCode => LogsIn(elem[c], net'[c]) /\ data' = data,
         \A k \in Users(c) : elem[c] = "CONNECTED" /\ c \notin tainted =>
           Carries(k, req[k], data'[k], net'[c], done') /\ Sized(req[k], data'[k])
  PROVE  WiresInv'
<1>1. ConnFits(c)
  BY DEF WiresInv
<1>2. elem[c] = "CONNECTED" \/ elem[c] \in DOMAIN LoginCode
  <2>1. elem[c] \in ConnStates \cup {"FREE"}
    BY DEF LendInv, LendType
  <2>. QED  BY <1>1, <2>1 DEF ConnFits, Serves, ConnStates, LoginCode
<1>3. elem[c] = "CONNECTED" /\ c \notin tainted => Users(c) # {}
  BY <1>1 DEF ConnFits, Serves
<1>4. ConnFits(c)'
  <2>1. \A k \in Reqs : Former(k, c) => Former(k, c)'
    BY DEF Former, Serves
  <2>2. \A k \in Reqs : k = j \/ k = net[c].job => Former(k, c)'
    BY <1>1, <2>1, NoneAssumption DEF ConnFits, OfFormer, Serves
  <2>3. net'[c].job # None => net'[c].job \in Reqs
    BY WireIs DEF Serves
  <2>4. OfFormer(c)'
    <3>1. \A x \in ToSet(net'[c].up) : x.r # None => Former(x.r, c)'
      BY <1>1, <2>1, WireIs DEF ConnFits, OfFormer, Serves
    <3>2. \A k \in Reqs : k = net'[c].job => Former(k, c)'
      BY <2>2, NoneAssumption DEF Serves
    <3>. QED  BY <2>3, <3>1, <3>2 DEF OfFormer
  <2>5. "CONNECTED" \notin DOMAIN LoginCode /\ Users(c)' = Users(c)
    BY DEF LoginCode, Users, Serves
  <2>. QED  BY <1>2, <1>3, <2>4, <2>5 DEF ConnFits, Serves, LoginCode
<1>5. \A b \in Conns \ {c} : SameWire(b)
  BY DEF SameWire, Serves
<1>6. ASSUME NEW k \in Reqs PROVE ReqFits(k)' \/ Apart(k, c)
  <2>1. ReqFits(k) /\ (Owning(req[k]) => req[k].conn \in Conns) /\ req'[k] = req[k]
    BY DEF WiresInv, LendInv, OwnersInv, Serves
  <2>2. CASE req[k].state = "FREED"
    BY <2>1, <2>2 DEF ReqFits, Fits, Active
  <2>3. CASE req[k].state # "FREED" /\ ~(Owning(req[k]) /\ req[k].conn = c)
    <3>1. ~Former(k, c)
      BY <2>3 DEF Former
    <3>2. data'[k] = data[k]
      BY <3>1, NoneAssumption DEF Serves
    <3>. QED  BY <2>1, <2>3, <3>2 DEF Apart
  <2>4. CASE req[k].state \in Active /\ req[k].conn = c
    <3>1. k \in Users(c) /\ Waits(req[k], elem[c])
      BY <2>1, <2>4 DEF Users, ReqFits, Fits
    <3>2. CASE elem[c] = "CONNECTED"
      <4>1. req[k].state # "READY" /\ req[k].state \notin {"NONE", "DONE"}
        BY <2>4, <3>1, <3>2 DEF Waits, Active
      <4>2. c \notin tainted =>
              Carries(k, req[k], data'[k], net'[c], done') /\ Sized(req[k], data'[k])
        BY <3>1, <3>2
      <4>3. Fits(k, req[k], data'[k], net'[c], elem[c], tainted, done')
        BY <2>4, <3>1, <4>1, <4>2 DEF Fits
      <4>. QED  BY <2>1, <2>4, <4>3 DEF ReqFits, Serves
    <3>3. CASE elem[c] \in DOMAIN LoginCode
      <4>1. elem[c] # "CONNECTED" /\ data'[k] = data[k]
        BY <3>3 DEF LoginCode
      <4>2. req[k].state = "READY"
        BY <3>1, <4>1 DEF Waits
      <4>3. /\ Still(data[k]) /\ ~req[k].got226
            /\ c \notin tainted => Sized(req[k], data[k])
        BY <2>1, <2>4, <4>2 DEF ReqFits, Fits
      <4>4. Fits(k, req[k], data'[k], net'[c], elem[c], tainted, done')
        BY <2>4, <3>1, <4>1, <4>2, <4>3 DEF Fits
      <4>. QED  BY <2>1, <2>4, <4>4 DEF ReqFits, Serves
    <3>. QED  BY <1>2, <3>2, <3>3
  <2>5. CASE req[k].state = "DONE" /\ req[k].conn = c
    <3>1. Users(c) = {}
      BY <2>5 DEF Users, LendInv, OwnersInv, Owning, Active
    <3>2. elem[c] \in DOMAIN LoginCode \/ c \in tainted
      BY <1>2, <1>3, <3>1
    <3>3. c \notin tainted => data'[k] = data[k]
      BY <3>2
    <3>4. Fits(k, req[k], data[k], net[c], elem[c], tainted, done)
      BY <2>1, <2>5 DEF ReqFits
    <3>5. Fits(k, req[k], data'[k], net'[c], elem[c], tainted, done')
      BY <2>5, <3>3, <3>4 DEF Fits, Finished, Active, Serves
    <3>. QED  BY <2>1, <2>5, <3>5 DEF ReqFits, Serves
  <2>. QED  BY <2>2, <2>3, <2>4, <2>5 DEF Owning
<1>7. \A k \in Reqs : Turns(k, c)
  BY DEF Turns, Serves
<1>8. done \subseteq done'
  BY DEF Serves
<1>. QED  BY <1>4, <1>5, <1>6, <1>7, <1>8, Local

(* The next command of connection c.                                       *)
LEMMA ServerCmdWires ==
  ASSUME LendInv, WireType, WiresInv, NEW c \in Conns, ServerCmd(c)
  PROVE  WiresInv'
<1>. DEFINE x == Head(net[c].up)
            up == Tail(net[c].up)
            j == x.r
<1>1. /\ net \in Net /\ net[c] \in NetConn /\ net[c].up \in Seq(Commands) /\ net[c].up # <<>>
      /\ net[c].job = None /\ ConnFits(c)
  BY WireIs DEF WireType, Net, ServerCmd, WiresInv
<1>2. x \in Commands /\ x \in ToSet(net[c].up) /\ ToSet(up) \subseteq ToSet(net[c].up)
      /\ up \in Seq(Commands)
  BY <1>1, TailIs
<1>3. j \in Reqs \cup {None} /\ x.name \in DOMAIN Code
  BY <1>2 DEF Commands
<1>4. /\ UNCHANGED <<req, elem, tainted>>
      /\ \/ /\ x.name \notin Moving
            /\ net' = [net EXCEPT ![c].up = up, ![c].down = Answer(c, Code[x.name], j)]
            /\ done' = IF j # None /\ x.name = LastCmd(req[j].kind) THEN done \cup {j} ELSE done
            /\ data' = IF x.name = "EPSV" THEN [data EXCEPT ![j].port = TRUE] ELSE data
         \/ /\ x.name \in Moving
            /\ net' = [net EXCEPT ![c].up = up, ![c].job = j, ![c].down = Answer(c, 150, j)]
            /\ UNCHANGED <<done, data>>
         \/ /\ net' = [net EXCEPT ![c].up = up, ![c].down = Answer(c, Refusal, j)]
            /\ UNCHANGED <<done, data>>
  BY WaysApart DEF ServerCmd
<1>5. /\ \A code \in Codes : /\ Answer(c, code, j) \in Seq(Answers)
                             /\ net[c].down = <<>> => Answer(c, code, j) = <<[code |-> code, of |-> j]>>
      /\ Code[x.name] \in Codes /\ 150 \in Codes /\ Refusal \in Codes
  <2>1. ASSUME NEW code \in Codes, net[c].down = <<>>
        PROVE  Answer(c, code, j) = <<[code |-> code, of |-> j]>>
    <3>. DEFINE a == [code |-> code, of |-> j]
    <3>1. a \in Answers /\ Answer(c, code, j) = Append(net[c].down, a)
      BY <1>3 DEF Answers, Answer
    <3>. HIDE DEF a
    <3>2. Answer(c, code, j) = <<a>>
      BY <2>1, <3>1, OneIs
    <3>. QED  BY <3>2 DEF a
  <2>. QED  BY <1>3, <2>1, AnswerIs, CodesAre
<1>6. OfFormer(c)
  BY <1>1 DEF ConnFits
<1>7. j # None => j \in Reqs /\ Former(j, c)
  BY <1>2, <1>3, <1>6 DEF OfFormer
<1>. HIDE DEF x, up, j
<1>8. /\ net'[c].up = up /\ \A b \in Conns \ {c} : net'[b] = net[b]
      /\ net'[c].job \in {None, j}
  BY <1>1, <1>4 DEF Net, NetConn
<1>9. /\ \A k \in Reqs : /\ data'[k].sent = data[k].sent /\ data'[k].got = data[k].got
                         /\ data'[k].fin = data[k].fin
      /\ \A k \in Reqs : k # j => data'[k] = data[k]
      /\ x.name # "EPSV" => data' = data
  BY <1>4 DEF WireType, Stream
<1>10. Serves(c, j)
  <2>1. done \subseteq done'
    BY <1>4
  <2>2. ~Quiet(net[c])
    BY <1>1 DEF Quiet
  <2>3. \A k \in Reqs : k # j => data'[k] = data[k]
    BY <1>9
  <2>4. \A y \in ToSet(net'[c].up) : y \in ToSet(net[c].up)
    BY <1>2, <1>8
  <2>. QED  BY <1>4, <1>7, <1>8, <2>1, <2>2, <2>3, <2>4 DEF Serves
<1>11. ASSUME elem[c] \in DOMAIN LoginCode
       PROVE  LogsIn(elem[c], net'[c]) /\ data' = data
  <2>1. PICK name \in {"USER", "PASS"} :
           Single(net[c], [r |-> None, name |-> name], LoginCode[elem[c]])
    BY <1>1, <1>11 DEF ConnFits, LogsIn
  <2>2. [r |-> None, name |-> name] \in Commands /\ Code[name] = 230 /\ name \notin Moving
        /\ name # "EPSV"
    BY <2>1 DEF Commands, Code, Moving, DataIn, DataOut
  <2>3. net[c].down = <<>> /\ x = [r |-> None, name |-> name] /\ up = <<>>
    BY <1>1, <2>1, <2>2, SingleRead DEF x, up
  <2>4. x.name = name /\ j = None
    BY <2>3 DEF j
  <2>5. LoginCode[elem[c]] = 230
    BY <1>1, <1>11 DEF ConnFits, LogsIn, LoginCode
  <2>6. data' = data
    BY <1>9, <2>2, <2>4
  <2>7. PICK code \in {230, Refusal} :
           net'[c].up = <<>> /\ net'[c].job = None /\ net'[c].down = <<[code |-> code, of |-> j]>>
    <3>1. net'[c].down = Answer(c, Code[x.name], j) \/ net'[c].down = Answer(c, Refusal, j)
      BY <1>1, <1>4, <2>2, <2>4 DEF Net, NetConn
    <3>. QED  BY <1>5, <1>8, <2>2, <2>3, <2>4, <3>1
  <2>. DEFINE a == [code |-> code, of |-> j]
  <2>8. a \in Answers /\ a.code = code
    BY <1>3, <1>5, <2>2, <2>4, <2>7 DEF Answers
  <2>. HIDE DEF a
  <2>9. net'[c].down = <<a>>
    BY <2>7 DEF a
  <2>10. Single(net'[c], [r |-> None, name |-> name], LoginCode[elem[c]])
    BY <2>5, <2>7, <2>8, <2>9 DEF Single
  <2>. QED  BY <2>6, <2>7, <2>10 DEF LogsIn
<1>12. ASSUME NEW k \in Users(c), elem[c] = "CONNECTED", c \notin tainted
       PROVE  Carries(k, req[k], data'[k], net'[c], done') /\ Sized(req[k], data'[k])
  <2>1. k \in Reqs /\ req[k].state \in Active /\ req[k].conn = c
    BY DEF Users
  <2>2. Waits(req[k], "CONNECTED") /\ Sized(req[k], data[k])
        /\ Carries(k, req[k], data[k], net[c], done) /\ req[k].cur # 0
    BY <1>12, <2>1, UserIs DEF Waits
  <2>3. Sized(req[k], data'[k])
    BY <1>9, <2>1, <2>2 DEF Sized
  <2>. DEFINE y == [r |-> k, name |-> Cmd(req[k])]
  <2>4. Awaits(k, req[k], data[k], net[c], done) \/ Asks(k, req[k], data[k], net[c])
    BY <1>1, <2>2 DEF Carries, Moves
  <2>5. y \in Commands /\ Cmd(req[k]) \in DOMAIN Code
    BY <2>1, <2>2, KeptSame, CmdIs DEF Commands
  <2>6. y.r = k /\ y.name = Cmd(req[k])
    OBVIOUS
  <2>. HIDE DEF y
  <2>7. net[c].up = <<y>> /\ net[c].down = <<>>
    BY <1>1, <2>4 DEF Awaits, Asks, Single, y
  <2>8. x = y /\ up = <<>>
    BY <2>5, <2>7, OneIs DEF x, up
  <2>9. j = k /\ x.name = Cmd(req[k]) /\ j # None
    BY <2>1, <2>6, <2>8, NoneAssumption DEF j
  <2>10. ASSUME NEW code \in Codes, net'[c].down = Answer(c, code, j)
         PROVE  /\ ToSet(net'[c].down) = {[code |-> code, of |-> k]}
                /\ \A a \in ToSet(net'[c].down) : a.of = k /\ a.code = code
                /\ code \in {Code[Cmd(req[k])], Refusal} /\ net'[c].job = None =>
                     Single(net'[c], y, Code[Cmd(req[k])])
    <3>. DEFINE a == [code |-> code, of |-> k]
    <3>1. a \in Answers /\ a.of = k /\ a.code = code
      BY <2>1 DEF Answers
    <3>2. net'[c].down = <<a>>
      BY <1>5, <2>7, <2>9, <2>10
    <3>. HIDE DEF a
    <3>3. ToSet(net'[c].down) = {a}
      BY <3>1, <3>2, OneIs
    <3>4. code \in {Code[Cmd(req[k])], Refusal} /\ net'[c].job = None =>
            Single(net'[c], y, Code[Cmd(req[k])])
      BY <1>8, <2>8, <3>1, <3>2 DEF Single
    <3>5. a = [code |-> code, of |-> k]
      BY DEF a
    <3>. QED  BY <3>1, <3>3, <3>4, <3>5
  <2>11. Still(data[k]) /\ ~req[k].got226 /\ Still(data'[k])
    BY <1>9, <2>1, <2>4 DEF Awaits, Asks, Still
  <2>12. Code[Cmd(req[k])] \in Codes /\ Code[Cmd(req[k])] # Refusal
         /\ (Cmd(req[k]) \in Moving => Code[Cmd(req[k])] = 150)
    BY <1>5, <2>5, <2>9, CodesDiffer
  <2>13. CASE /\ x.name \notin Moving
              /\ net' = [net EXCEPT ![c].up = up, ![c].down = Answer(c, Code[x.name], j)]
              /\ done' = IF j # None /\ x.name = LastCmd(req[j].kind) THEN done \cup {j} ELSE done
    <3>1. net'[c].down = Answer(c, Code[Cmd(req[k])], j) /\ net'[c].job = None
      BY <1>1, <2>9, <2>13 DEF Net, NetConn
    <3>2. /\ \A a \in ToSet(net'[c].down) : a.of = k
          /\ Single(net'[c], y, Code[Cmd(req[k])])
      BY <2>10, <2>12, <3>1
    <3>3. Cmd(req[k]) = LastCmd(req[k].kind) => k \in done'
      BY <2>9, <2>13
    <3>4. Awaits(k, req[k], data'[k], net'[c], done')
      BY <2>9, <2>11, <2>13, <3>2, <3>3 DEF Awaits, y
    <3>. QED  BY <2>3, <3>1, <3>2, <3>4 DEF Carries
  <2>14. CASE /\ x.name \in Moving
              /\ net' = [net EXCEPT ![c].up = up, ![c].job = j, ![c].down = Answer(c, 150, j)]
    <3>1. net'[c].down = Answer(c, 150, j) /\ net'[c].job = k
      BY <1>1, <2>9, <2>14 DEF Net, NetConn
    <3>2. \A a \in ToSet(net'[c].down) : a.of = k /\ a.code = 150
      BY <1>5, <2>10, <3>1
    <3>3. Asks(k, req[k], data[k], net[c])
      BY <2>4, <2>9, <2>14 DEF Awaits
    <3>4. net'[c].up = <<>> /\ data'[k].fin = {} /\ req[k].state = "WAIT_RESP"
          /\ Cmd(req[k]) \in Moving
      BY <1>8, <2>8, <2>11, <3>3 DEF Asks, Still
    <3>5. \A a \in ToSet(net'[c].down) : a.code # 226
      BY <3>2
    <3>6. "WAIT_RESP" # "STREAMING" /\ "client" \notin data'[k].fin /\ "server" \notin data'[k].fin
      BY <3>4
    <3>7. Moves(k, req[k], data'[k], net'[c], done')
      BY <2>11, <3>2, <3>4, <3>5, <3>6 DEF Moves
    <3>. QED  BY <2>3, <3>1, <3>2, <3>7 DEF Carries
  <2>15. CASE net' = [net EXCEPT ![c].up = up, ![c].down = Answer(c, Refusal, j)]
    <3>1. net'[c].down = Answer(c, Refusal, j) /\ net'[c].job = None
      BY <1>1, <2>15 DEF Net, NetConn
    <3>2. /\ \A a \in ToSet(net'[c].down) : a.of = k /\ a.code = Refusal
          /\ Single(net'[c], y, Code[Cmd(req[k])])
      BY <1>5, <2>10, <3>1
    <3>3. CASE Asks(k, req[k], data[k], net[c])
      <4>1. net'[c].up = <<>> /\ data'[k].fin = {} /\ req[k].state = "WAIT_RESP"
            /\ Cmd(req[k]) \in Moving
        BY <1>8, <2>8, <2>11, <3>3 DEF Asks, Still
      <4>2. \A a \in ToSet(net'[c].down) : a.code # 226
        BY <3>2, CodesDiffer
      <4>3. "WAIT_RESP" # "STREAMING" /\ "client" \notin data'[k].fin /\ "server" \notin data'[k].fin
        BY <4>1
      <4>4. Moves(k, req[k], data'[k], net'[c], done')
        BY <2>11, <3>2, <4>1, <4>2, <4>3 DEF Moves
      <4>. QED  BY <2>3, <3>1, <3>2, <4>4 DEF Carries
    <3>4. CASE Awaits(k, req[k], data[k], net[c], done)
      <4>1. Awaits(k, req[k], data'[k], net'[c], done')
        BY <2>11, <2>12, <3>2, <3>4 DEF Awaits, y
      <4>. QED  BY <2>3, <3>1, <3>2, <4>1 DEF Carries
    <3>. QED  BY <2>4, <3>3, <3>4
  <2>. QED  BY <1>4, <2>13, <2>14, <2>15
<1>. QED  BY <1>3, <1>10, <1>11, <1>12, ServesWires

(* The server has not finished with the data of the user of connection c.  *)
LEMMA JobIs ==
  ASSUME LendInv, WireType, WiresInv, NEW c \in Conns, net[c].job # None
  PROVE  /\ net[c].job \in Reqs /\ Former(net[c].job, c) /\ ~Quiet(net[c])
         /\ elem[c] \notin DOMAIN LoginCode
         /\ \A k \in Users(c) : elem[c] = "CONNECTED" /\ c \notin tainted =>
              /\ k = net[c].job /\ Sized(req[k], data[k]) /\ Cmd(req[k]) \in Moving
              /\ net[c].up = <<>> /\ ~req[k].got226
              /\ \A a \in ToSet(net[c].down) : a.of = k /\ a.code \in {150, 426, Refusal, Junk}
              /\ "client" \in data[k].fin => ~req[k].opened /\ req[k].ctx = None
              /\ ~(LastCmd(req[k].kind) \in DataIn /\ req[k].state = "STREAMING" /\ ~req[k].opened)
<1>1. net[c].job \in Reqs /\ ConnFits(c)
  BY WireIs DEF WiresInv
<1>2. Former(net[c].job, c) /\ elem[c] \notin DOMAIN LoginCode
  BY <1>1 DEF ConnFits, OfFormer, LogsIn, Single
<1>3. ASSUME NEW k \in Users(c), elem[c] = "CONNECTED", c \notin tainted
      PROVE  /\ k = net[c].job /\ Sized(req[k], data[k])
             /\ Moves(k, req[k], data[k], net[c], done)
             /\ \A a \in ToSet(net[c].down) : a.of = k
  <2>1. k \in Reqs /\ req[k].state \in Active /\ req[k].conn = c
    BY DEF Users
  <2>2. Sized(req[k], data[k]) /\ Carries(k, req[k], data[k], net[c], done)
    BY <1>3, <2>1, UserIs DEF Waits
  <2>. QED  BY <2>2 DEF Carries, Awaits, Asks, Single
<1>4. ASSUME NEW k \in Users(c), elem[c] = "CONNECTED", c \notin tainted
      PROVE  /\ Cmd(req[k]) \in Moving /\ net[c].up = <<>> /\ ~req[k].got226
             /\ \A a \in ToSet(net[c].down) : a.of = k /\ a.code \in {150, 426, Refusal, Junk}
             /\ "client" \in data[k].fin => ~req[k].opened /\ req[k].ctx = None
             /\ ~(LastCmd(req[k].kind) \in DataIn /\ req[k].state = "STREAMING" /\ ~req[k].opened)
  <2>1. Moves(k, req[k], data[k], net[c], done) /\ \A a \in ToSet(net[c].down) : a.of = k
    BY <1>3, <1>4
  <2>. QED  BY <2>1 DEF Moves
<1>. QED  BY <1>1, <1>2, <1>3, <1>4 DEF Quiet

(* The server sends or takes a block.                                      *)
LEMMA ServerDataWires ==
  ASSUME LendInv, WireType, WiresInv, NEW c \in Conns, ServerData(c)
  PROVE  WiresInv'
<1>. DEFINE j == net[c].job
<1>1. /\ j # None /\ "server" \notin data[j].fin
      /\ UNCHANGED <<req, elem, net, done, tainted>>
      /\ \/ LastCmd(req[j].kind) \in DataIn /\ data' = [data EXCEPT ![j].sent = @ + 1]
         \/ data' = [data EXCEPT ![j].got = @ + 1]
  BY DEF ServerData
<1>2. j \in Reqs /\ Former(j, c) /\ ~Quiet(net[c]) /\ elem[c] \notin DOMAIN LoginCode
  BY <1>1, JobIs
<1>. HIDE DEF j
<1>3. /\ \A k \in Reqs : k # j => data'[k] = data[k]
      /\ data'[j].fin = data[j].fin
      /\ LastCmd(req[j].kind) \in DataOut => data'[j].sent = data[j].sent
  BY <1>1, <1>2, WaysApart DEF WireType, Stream
<1>4. Serves(c, j)
  BY <1>1, <1>2, <1>3 DEF Serves
<1>5. ASSUME NEW k \in Users(c), elem[c] = "CONNECTED", c \notin tainted
      PROVE  Carries(k, req[k], data'[k], net'[c], done') /\ Sized(req[k], data'[k])
  <2>1. /\ k = j /\ j = net'[c].job /\ Sized(req[k], data[k]) /\ Cmd(req[k]) \in Moving
        /\ net'[c].up = <<>> /\ ~req[k].got226
        /\ \A a \in ToSet(net'[c].down) : a.of = k /\ a.code \in {150, 426, Refusal, Junk}
        /\ "client" \in data'[k].fin => ~req[k].opened /\ req[k].ctx = None
        /\ ~(LastCmd(req[k].kind) \in DataIn /\ req[k].state = "STREAMING" /\ ~req[k].opened)
    BY <1>1, <1>3, <1>5, JobIs DEF j
  <2>2. \A a \in ToSet(net'[c].down) : a.code # 226 /\ a.code \in {150, 226, 426, Refusal, Junk}
    BY <2>1, CodesDiffer
  <2>3. Moves(k, req[k], data'[k], net'[c], done')
    BY <1>1, <1>3, <2>1, <2>2 DEF Moves
  <2>. QED  BY <1>3, <2>1, <2>3 DEF Carries, Sized
<1>. QED  BY <1>2, <1>4, <1>5, ServesWires

(* An answer more.                                                         *)
LEMMA AnswersMore ==
  ASSUME WireType, NEW c \in Conns, NEW code \in Codes, NEW r \in Reqs \cup {None}
  PROVE  \A a \in ToSet(Answer(c, code, r)) :
           a \in ToSet(net[c].down) \/ (a.code = code /\ a.of = r)
<1>. DEFINE b == [code |-> code, of |-> r]
<1>1. net[c].down \in Seq(Answers) /\ b \in Answers /\ b.code = code /\ b.of = r
  BY WireIs DEF Answers
<1>2. Answer(c, code, r) = Append(net[c].down, b)
  BY DEF Answer
<1>. HIDE DEF b
<1>3. ToSet(Append(net[c].down, b)) = ToSet(net[c].down) \cup {b}
  BY <1>1, AppendIs
<1>. QED  BY <1>1, <1>2, <1>3

(* It finishes, or gives up.                                               *)
LEMMA ServerOverWires ==
  ASSUME LendInv, WireType, WiresInv, NEW c \in Conns,
         ServerEnd(c) \/ ServerGiveUp(c) \/ ServerFail(c)
  PROVE  WiresInv'
<1>. DEFINE j == net[c].job
<1>1. PICK code \in {226, 426} :
        /\ j # None /\ UNCHANGED <<req, elem, tainted>>
        /\ data' = [data EXCEPT ![j].fin = @ \cup {"server"}]
        /\ net' = [net EXCEPT ![c].job = None, ![c].down = Answer(c, code, j)]
        /\ done' = IF code = 226 THEN done \cup {j} ELSE done
        /\ code = 226 =>
             /\ LastCmd(req[j].kind) \in DataIn => data[j].sent = Total(req[j].kind)
             /\ LastCmd(req[j].kind) \in DataOut => "client" \in data[j].fin /\ data[j].got = data[j].sent
  <2>1. CASE ServerEnd(c)
    <3>1. /\ LastCmd(req[j].kind) \in DataIn => data[j].sent = Total(req[j].kind)
          /\ LastCmd(req[j].kind) \in DataOut => "client" \in data[j].fin /\ data[j].got = data[j].sent
      BY <2>1, WaysApart DEF ServerEnd
    <3>2. /\ j # None /\ UNCHANGED <<req, elem, tainted>>
          /\ data' = [data EXCEPT ![j].fin = @ \cup {"server"}]
          /\ net' = [net EXCEPT ![c].job = None, ![c].down = Answer(c, 226, j)]
          /\ done' = done \cup {j}
      BY <2>1 DEF ServerEnd
    <3>. QED  BY <3>1, <3>2
  <2>2. CASE ServerGiveUp(c) \/ ServerFail(c)
    BY <2>2 DEF ServerGiveUp, ServerFail, Aborted
  <2>. QED  BY <2>1, <2>2
<1>2. j \in Reqs /\ Former(j, c) /\ ~Quiet(net[c]) /\ elem[c] \notin DOMAIN LoginCode
  BY <1>1, JobIs
<1>3. \A a \in ToSet(Answer(c, code, j)) : a \in ToSet(net[c].down) \/ (a.code = code /\ a.of = j)
  BY <1>2, CodesAre, AnswersMore
<1>. HIDE DEF j
<1>4. /\ net'[c].up = net[c].up /\ net'[c].job = None /\ net'[c].down = Answer(c, code, j)
      /\ \A b \in Conns \ {c} : net'[b] = net[b]
  <2>1. net \in Net /\ net[c] \in NetConn
    BY WireIs DEF WireType, Net
  <2>. QED  BY <1>1, <2>1 DEF Net, NetConn
<1>5. /\ \A k \in Reqs : k # j => data'[k] = data[k]
      /\ data'[j].fin = data[j].fin \cup {"server"}
      /\ data'[j].sent = data[j].sent /\ data'[j].got = data[j].got
  BY <1>1, <1>2 DEF WireType, Stream
<1>6. Serves(c, j)
  BY <1>1, <1>2, <1>4, <1>5 DEF Serves
<1>7. ASSUME NEW k \in Users(c), elem[c] = "CONNECTED", c \notin tainted
      PROVE  Carries(k, req[k], data'[k], net'[c], done') /\ Sized(req[k], data'[k])
  <2>1. /\ k = j /\ Sized(req[k], data[k]) /\ Cmd(req[k]) \in Moving
        /\ net[c].up = <<>> /\ ~req[k].got226
        /\ \A a \in ToSet(net[c].down) : a.of = k /\ a.code \in {150, 426, Refusal, Junk}
        /\ "client" \in data[k].fin => ~req[k].opened /\ req[k].ctx = None
        /\ ~(LastCmd(req[k].kind) \in DataIn /\ req[k].state = "STREAMING" /\ ~req[k].opened)
    BY <1>1, <1>7, JobIs DEF j
  <2>2. \A a \in ToSet(net'[c].down) :
          a.of = k /\ a.code \in {150, 226, 426, Refusal, Junk} /\ (a.code = 226 => code = 226)
    BY <1>3, <1>4, <2>1, CodesDiffer
  <2>3. code = 226 => Through(k, req[k], data'[k], done')
    BY <1>1, <1>5, <2>1 DEF Through
  <2>4. "client" \in data'[k].fin => ~req[k].opened /\ req[k].ctx = None
    BY <1>5, <2>1
  <2>5. Moves(k, req[k], data'[k], net'[c], done')
    BY <1>4, <2>1, <2>2, <2>3, <2>4 DEF Moves
  <2>6. Sized(req[k], data'[k])
    BY <1>5, <2>1 DEF Sized
  <2>. QED  BY <1>4, <2>2, <2>5, <2>6 DEF Carries
<1>. QED  BY <1>2, <1>6, <1>7, ServesWires

(* Answers t in place of the answers s: some are lost, or come in parts.   *)
Cut(t, s) ==
    /\ \A a \in ToSet(t) : a \in ToSet(s) \/ (a.code = Junk /\ \E b \in ToSet(s) : a.of = b.of)
    /\ \A b \in Answers : s = <<b>> => \A a \in ToSet(t) : a.code = Junk

LEMMA ShortIs ==
  ASSUME NEW S, NEW s \in Seq(S), Len(s) > 1
  PROVE  /\ ToSet(<<Head(s)>> \o Tail(Tail(s))) \subseteq ToSet(s)
         /\ \A b \in S : s # <<b>>
<1>. DEFINE h == Head(s)
            t == Tail(s)
            u == Tail(t)
<1>1. s # <<>> /\ Head(s) \in S /\ Tail(Tail(s)) \in Seq(S)
  <2>1. Len(<<>>) = 0 /\ ~(0 > 1)
    OBVIOUS
  <2>. QED  BY <2>1, TwiceIs
<1>2. h \in ToSet(s) /\ t \in Seq(S) /\ ToSet(t) \subseteq ToSet(s) /\ Len(t) = Len(s) - 1
      /\ Len(s) \in Nat /\ h \in S /\ u \in Seq(S)
  BY <1>1, TailIs
<1>. HIDE DEF h, t
<1>3. t # <<>>
  <2>1. Len(t) > 0
    BY ONLY <1>2, Len(s) > 1
  <2>2. Len(<<>>) = 0
    OBVIOUS
  <2>. QED  BY ONLY <2>1, <2>2
<1>4. ToSet(u) \subseteq ToSet(t)
  BY <1>2, <1>3, TailIs
<1>. HIDE DEF u
<1>5. ToSet(<<h>> \o u) = ToSet(u) \cup {h}
  BY <1>2, ConsIs
<1>6. \A b \in S : Len(<<b>>) = 1 /\ ~(1 > 1)
  OBVIOUS
<1>. QED  BY <1>2, <1>4, <1>5, <1>6 DEF h, t, u

LEMMA PairIs ==
  ASSUME NEW S, NEW s \in Seq(S), NEW a \in S
  PROVE  ToSet(<<a, a>> \o s) = ToSet(s) \cup {a}
<1>. DEFINE t == <<a>> \o s
<1>1. t \in Seq(S) /\ ToSet(t) = ToSet(s) \cup {a}
  BY ConsIs
<1>2. <<a>> \o t = <<a, a>> \o s
  OBVIOUS
<1>. HIDE DEF t
<1>3. ToSet(<<a>> \o t) = ToSet(t) \cup {a}
  BY <1>1, ConsIs
<1>. QED  BY <1>1, <1>2, <1>3

LEMMA CoalesceIs ==
  ASSUME WireType, NEW c \in Conns, Coalesce(c)
  PROVE  /\ UNCHANGED <<req, elem, data, done, tainted>> /\ net[c].down # <<>>
         /\ \A b \in Conns \ {c} : net'[b] = net[b]
         /\ net'[c].up = net[c].up /\ net'[c].job = net[c].job
         /\ Cut(net'[c].down, net[c].down)
<1>. DEFINE s == net[c].down
            t == Tail(s)
            part == [code |-> Junk, of |-> Head(s).of]
<1>1. net \in Net /\ net[c] \in NetConn /\ s \in Seq(Answers)
  BY WireIs DEF WireType, Net
<1>2. /\ UNCHANGED <<req, elem, data, done, tainted>>
      /\ \/ Len(s) > 1 /\ net' = [net EXCEPT ![c].down = <<Head(s)>> \o Tail(t)]
         \/ s # <<>> /\ net' = [net EXCEPT ![c].down = <<part, part>> \o t]
  BY DEF Coalesce
<1>3. s # <<>>
  <2>1. Len(<<>>) = 0 /\ ~(0 > 1)
    OBVIOUS
  <2>. QED  BY <1>2, <2>1
<1>4. /\ Head(s) \in Answers /\ t \in Seq(Answers) /\ Head(s) \in ToSet(s)
      /\ ToSet(t) \subseteq ToSet(s)
  BY <1>1, <1>3, TailIs
<1>5. part \in Answers /\ part.code = Junk /\ part.of = Head(s).of
  BY <1>4, CodesAre DEF Answers
<1>. HIDE DEF part
<1>6. CASE Len(s) > 1 /\ net' = [net EXCEPT ![c].down = <<Head(s)>> \o Tail(t)]
  <2>1. /\ ToSet(<<Head(s)>> \o Tail(t)) \subseteq ToSet(s)
        /\ \A b \in Answers : s # <<b>>
    BY <1>1, <1>6, ShortIs
  <2>. HIDE DEF s, t
  <2>2. /\ net'[c].up = net[c].up /\ net'[c].job = net[c].job
        /\ net'[c].down = <<Head(s)>> \o Tail(t)
        /\ \A b \in Conns \ {c} : net'[b] = net[b]
    BY <1>1, <1>6 DEF Net, NetConn
  <2>3. Cut(net'[c].down, s)
    BY <2>1, <2>2 DEF Cut
  <2>. QED  BY <1>2, <1>3, <2>2, <2>3 DEF s
<1>7. CASE s # <<>> /\ net' = [net EXCEPT ![c].down = <<part, part>> \o t]
  <2>1. \A b \in Answers : s = <<b>> => t = <<>>
    BY OneIs
  <2>. HIDE DEF s, t
  <2>2. ToSet(<<part, part>> \o t) = ToSet(t) \cup {part}
    BY <1>4, <1>5, PairIs
  <2>3. /\ net'[c].up = net[c].up /\ net'[c].job = net[c].job
        /\ net'[c].down = <<part, part>> \o t
        /\ \A b \in Conns \ {c} : net'[b] = net[b]
    BY <1>1, <1>7 DEF Net, NetConn
  <2>4. Cut(net'[c].down, s)
    BY <1>4, <1>5, <2>1, <2>2, <2>3, EmptyIs DEF Cut
  <2>. QED  BY <1>2, <1>3, <2>3, <2>4 DEF s
<1>. QED  BY <1>2, <1>6, <1>7

(* Two answers come in one read, or one in two.                            *)
LEMMA CoalesceWires ==
  ASSUME LendInv, WireType, WiresInv, NEW c \in Conns, Coalesce(c)
  PROVE  WiresInv'
<1>1. /\ UNCHANGED <<req, elem, data, done, tainted>> /\ net[c].down # <<>>
      /\ \A b \in Conns \ {c} : net'[b] = net[b]
      /\ net'[c].up = net[c].up /\ net'[c].job = net[c].job
      /\ Cut(net'[c].down, net[c].down)
  BY CoalesceIs
<1>2. ASSUME NEW x, NEW code, Single(net[c], x, code)
      PROVE  Single(net'[c], x, code)
  BY <1>1, <1>2 DEF Single, Cut
<1>3. Serves(c, None)
  BY <1>1 DEF Serves, Quiet
<1>4. elem[c] \in DOMAIN LoginCode => LogsIn(elem[c], net'[c])
  BY <1>1, <1>2 DEF WiresInv, ConnFits, LogsIn
<1>5. ASSUME NEW k \in Users(c), elem[c] = "CONNECTED", c \notin tainted
      PROVE  Carries(k, req[k], data'[k], net'[c], done') /\ Sized(req[k], data'[k])
  <2>1. k \in Reqs /\ req[k].state \in Active /\ req[k].conn = c
    BY DEF Users
  <2>2. Waits(req[k], "CONNECTED") /\ Sized(req[k], data[k])
        /\ Carries(k, req[k], data[k], net[c], done) /\ req[k].cur # 0
    BY <1>5, <2>1, UserIs DEF Waits
  <2>3. \A a \in ToSet(net'[c].down) : a.of = k
    BY <1>1, <2>2 DEF Carries, Cut
  <2>4. Cmd(req[k]) \in DOMAIN Code
    BY <2>1, <2>2, KeptSame, CmdIs
  <2>5. Code[Cmd(req[k])] # Junk
    BY <2>4, CodesDiffer
  <2>6. CASE Awaits(k, req[k], data[k], net[c], done)
    <3>1. Single(net'[c], [r |-> k, name |-> Cmd(req[k])], Code[Cmd(req[k])])
      BY <1>2, <2>6 DEF Awaits
    <3>2. \A a \in ToSet(net'[c].down) : a.code = Code[Cmd(req[k])] => a \in ToSet(net[c].down)
      BY <1>1, <2>5 DEF Cut
    <3>. QED  BY <1>1, <2>2, <2>3, <2>6, <3>1, <3>2 DEF Awaits, Carries
  <2>7. CASE Moves(k, req[k], data[k], net[c], done)
    <3>1. \A a \in ToSet(net'[c].down) : a.code # Junk => a \in ToSet(net[c].down)
      BY <1>1 DEF Cut
    <3>2. /\ \A a \in ToSet(net'[c].down) : a.code \in {150, 226, 426, Refusal, Junk}
          /\ \A a \in ToSet(net'[c].down) : a.code = 226 => a \in ToSet(net[c].down)
      BY <2>7, <3>1, CodesDiffer DEF Moves
    <3>3. Moves(k, req[k], data'[k], net'[c], done')
      BY <1>1, <2>7, <3>2 DEF Moves
    <3>. QED  BY <1>1, <2>2, <2>3, <3>3 DEF Carries
  <2>. QED  BY <1>1, <2>2, <2>6, <2>7 DEF Carries, Asks
<1>. QED  BY <1>1, <1>3, <1>4, <1>5, ServesWires

(* The data stream comes up; the network breaks.                           *)
LEMMA DataConnectWires ==
  ASSUME WireType, WiresInv, NEW r \in Reqs, DataConnect(r)
  PROVE  WiresInv'
<1>1. /\ UNCHANGED <<req, elem, net, done, tainted>>
      /\ \A k \in Reqs : /\ data'[k].sent = data[k].sent /\ data'[k].got = data[k].got
                         /\ data'[k].fin = data[k].fin
  BY DEF DataConnect, WireType, Stream
<1>2. \A k \in Reqs : ReqFits(k)'
  <2>. SUFFICES ASSUME NEW k \in Reqs PROVE ReqFits(k)'
    OBVIOUS
  <2>1. \A q, n, s : Fits(k, q, data[k], n, s, tainted, done) => Fits(k, q, data'[k], n, s, tainted, done)
    BY <1>1 DEF Fits, Carries, Awaits, Asks, Moves, Through, Still, Sized, Finished
  <2>. QED  BY <1>1, <2>1 DEF ReqFits, WiresInv
<1>3. \A c \in Conns : ConnFits(c)'
  BY <1>1 DEF WiresInv, ConnFits, OfFormer, Former, Users
<1>. QED  BY <1>2, <1>3 DEF WiresInv

LEMMA TcpDisconnectedWires ==
  ASSUME LendInv, WireType, WiresInv, NEW c \in Conns, TcpDisconnected(c)
  PROVE  WiresInv'
<1>1. Open(elem[c]) /\ Disconnected(c) /\ done' = done
  BY DEF TcpDisconnected, Open
<1>. QED  BY <1>1, DisconnectedWires

(***************************************************************************)
(* Every step keeps the invariant                                          *)
(***************************************************************************)

LEMMA InitWires == Init => WiresInv
<1>. SUFFICES ASSUME Init PROVE WiresInv
  OBVIOUS
<1>1. /\ \A c \in Conns : net[c] = NewNet /\ elem[c] = "FREE"
      /\ \A r \in Reqs : req[r] = NewReq /\ data[r].sent = 0 /\ data[r].got = 0 /\ data[r].fin = {}
  BY DEF Init
<1>2. \A c \in Conns : Quiet(net[c]) /\ ToSet(net[c].up) = {} /\ net[c].job = None
  BY <1>1, EmptyIs DEF Quiet, NewNet
<1>3. \A c \in Conns : ConnFits(c)
  BY <1>1, <1>2 DEF ConnFits, OfFormer, LoginCode
<1>4. \A r \in Reqs : ReqFits(r)
  BY <1>1 DEF ReqFits, Fits, NewReq, Still, Active
<1>. QED  BY <1>3, <1>4 DEF WiresInv

LEMMA WiresStep ==
  ASSUME LendInv, WireType, WiresInv, [Next]_vars
  PROVE  WiresInv'
<1>1. CASE UNCHANGED vars
  BY <1>1, SameWires DEF vars
<1>2. CASE Loop
  <2>1. CASE Return \/ WalkStep \/ WalkEnd
    BY <2>1, ReturnWires, WalkStepWires, WalkEndWires
  <2>2. CASE \E c \in Conns : Receive(c) \/ TcpConnected(c) \/ DestroyElem(c)
    BY <2>2, ReceiveWires, TcpConnectedWires, DestroyElemWires
  <2>3. CASE \E r \in Reqs : DataStart(r) \/ DataRecv(r) \/ DataStop(r) \/ DataSent(r)
    BY <2>3, DataStartWires, DataRecvWires, DataStopWires, DataSentWires
  <2>. QED  BY <1>2, <2>1, <2>2, <2>3 DEF Loop
<1>3. CASE Application
  <2>1. CASE \E r \in Reqs : Get(r) \/ Put(r) \/ Size(r) \/ Rename(r) \/ Delete(r) \/ List(r)
    BY <2>1, StartsWires
  <2>2. CASE \E r \in Reqs : Cancel(r)
    BY <2>2, CancelWires
  <2>3. CASE \E kind \in {"cancel", "abort"} : Walk(kind)
    BY <2>3, SameWires DEF Walk
  <2>. QED  BY <1>3, <2>1, <2>2, <2>3 DEF Application
<1>4. CASE Server
  BY <1>4, ServerCmdWires, ServerDataWires, ServerOverWires, DataConnectWires DEF Server
<1>5. CASE Failures
  BY <1>5, TcpDisconnectedWires, ServerOverWires, CoalesceWires DEF Failures
<1>. QED  BY <1>1, <1>2, <1>3, <1>4, <1>5 DEF Next

LEMMA SpecInv == Spec => []IInv
<1>1. Init => IInv
  BY InitLends, InitTyped, InitWires DEF IInv
<1>2. IInv /\ [Next]_vars => IInv'
  BY LendStep, WiresStep DEF IInv
<1>. QED  BY <1>1, <1>2, PTL DEF Spec

(***************************************************************************)
(* Theorems                                                                *)
(***************************************************************************)

(* A connection is lent to one request at a time, for as long as it        *)
(* exists: whatever the number of requests and connections, and in         *)
(* whatever order answers, breaks, cancels and the end of the callbacks    *)
(* come (get_conn_elem, req_destroy, disconnected_cb,                      *)
(* arsdk_ftp_stop_conns).                                                  *)
THEOREM ConnectionsAreLent == Spec => []ConnsLent
<1>1. IInv => ConnsLent
  <2>. SUFFICES ASSUME LendInv, WireType PROVE ConnsLent
    BY DEF IInv
  <2>1. TypeOK
    BY Types DEF LendInv
  <2>2. ConnExclusive
    BY ActiveIs DEF ConnExclusive, LendInv, ListsInv, Owning
  <2>3. NoneOrphaned
    <3>. SUFFICES ASSUME NEW r \in Reqs, req[r].state \in Active
                  PROVE  elem[req[r].conn] \in ConnStates \ {"DISCONNECTED"}
      BY DEF NoneOrphaned
    <3>1. req[r].conn \in Conns /\ Open(elem[req[r].conn])
      BY ActiveIs
    <3>. QED  BY <3>1 DEF Open, LendInv, LendType
  <2>. QED  BY <2>1, <2>2, <2>3 DEF ConnsLent
<1>. QED  BY <1>1, SpecInv, PTL

(* The complete callback of every request is called once, and the request  *)
(* is in the list that cancel_all and stop visit until it has returned     *)
(* (seq_complete_cb, the DONE state of arsdk_ftp_seq.c).                   *)
THEOREM RequestsAreToldOnce == Spec => []CompleteOnce
<1>1. IInv => CompleteOnce
  <2>. SUFFICES ASSUME LendInv, NEW r \in Reqs
                PROVE
      /\ Len(req[r].told) = IF req[r].state \in {"DONE", "FREED"} THEN 1 ELSE 0
      /\ req[r].state \in Active \cup {"DONE"} <=> \E i \in 1..Len(requests) : requests[i] = r
      /\ req[r].state = "DONE" <=> \E i \in 1..Len(stack) : stack[i] = r
    BY DEF CompleteOnce, IInv
  <2>1. requests \in Seq(Reqs) /\ stack \in Seq(Reqs)
    BY DEF LendInv, LendType
  <2>2. /\ r \in ToSet(requests) <=> \E i \in 1..Len(requests) : requests[i] = r
        /\ r \in ToSet(stack) <=> \E i \in 1..Len(stack) : stack[i] = r
    BY <2>1, InSet
  <2>. QED  BY <2>2 DEF LendInv, ToldInv, CountedInv, Owning
<1>. QED  BY <1>1, SpecInv, PTL

(* A request whose complete callback is told OK was carried out by the     *)
(* server, and all of the file was moved: whatever is refused, cut short,  *)
(* cancelled or read in pieces, the 226 and the end of the data stream     *)
(* coming in either order (on_resp_recv and on_data_stream_stop of         *)
(* arsdk_ftp_seq.c, seq_complete_cb).  A connection that a request left    *)
(* with an answer still to come is excepted: its next users may take that  *)
(* answer.                                                                 *)
THEOREM OkIsDone == Spec => []OkMeansDone
<1>1. IInv => OkMeansDone
  <2>. SUFFICES ASSUME WiresInv, NEW r \in Reqs, req[r].state = "DONE", req[r].told = <<"OK">>,
                       req[r].conn \notin tainted
                PROVE
      /\ r \in done
      /\ LastCmd(req[r].kind) \in DataIn \cup DataOut => data[r].got = Total(req[r].kind)
    BY DEF OkMeansDone, IInv
  <2>1. Finished(r, req[r], data[r], done)
    BY DEF WiresInv, ReqFits, Fits
  <2>. QED  BY <2>1, WaysApart DEF Finished
<1>. QED  BY <1>1, SpecInv, PTL
=============================================================================
