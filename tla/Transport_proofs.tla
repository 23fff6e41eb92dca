-------------------------- MODULE Transport_proofs --------------------------
(***************************************************************************)
(* Proofs about Connection, for any controllers, version ranges, number of *)
(* connections and attempts, and about LinkMonitor, for every period,      *)
(* limit and bound on the idle callbacks.                                  *)
(***************************************************************************)
EXTENDS Connection, LinkMonitor, SequenceTheorems, TLAPS

LEMMA SlotFacts ==
  ASSUME NEW k \in Slots
  PROVE  Owner(k) \in Ctrls /\ k # Nobody
  BY DEF Slots, Owner, Nobody

LEMMA AgreedType ==
  ASSUME NEW c \in Ctrls
  PROVE  Agreed(c) \subseteq Nat
  BY VersionAssumption DEF Agreed, VersionRange, Least, Most

LEMMA OneMore ==
  ASSUME NEW S, NEW s \in Seq(S), NEW e \in S
  PROVE  s \o <<e>> \in Seq(S)
  OBVIOUS

Tellings == {"connecting", "connected", "disconnected", "canceled"}

LEMMA ToldController ==
  ASSUME NEW x \in Controller, NEW e \in Tellings
  PROVE  /\ Told(x, <<e>>) \in Controller
         /\ Told(x, <<e>>).log = x.log \o <<e>>
<1>1. x.log \in Seq(Tellings)
  BY DEF Controller, Tellings
<1>2. x.log \o <<e>> \in Seq(Tellings)
  BY <1>1, OneMore
<1>3. Told(x, <<e>>) = [x EXCEPT !.log = x.log \o <<e>>]
  BY DEF Told
<1>4. \A log \in Seq(Tellings) : [x EXCEPT !.log = log] \in Controller
  BY DEF Controller, Tellings
<1>5. Told(x, <<e>>).log = x.log \o <<e>>
  BY <1>3 DEF Controller
<1>. QED
  BY <1>2, <1>3, <1>4, <1>5

LEMMA ControllerUpdate ==
  ASSUME NEW x \in Controller, NEW conn \in Slots \cup {Nobody},
         NEW state \in {"NONE", "CONNECTING_JSON", "JSON_SENT", "CONNECTED"}
  PROVE  /\ [x EXCEPT !.state = state] \in Controller
         /\ [x EXCEPT !.state = state, !.conn = conn] \in Controller
         /\ [x EXCEPT !.conn = conn, !.state = state] \in Controller
         /\ x.state \in {"NONE", "CONNECTING_JSON", "JSON_SENT", "CONNECTED"}
  BY DEF Controller

LEMMA ToldPeer ==
  ASSUME NEW x \in Peer,
         NEW e \in {"added", "connected", "disconnected", "removed"}
  PROVE  /\ Told(x, <<e>>) \in Peer
         /\ Told(x, <<e>>).log = x.log \o <<e>>
  BY DEF Peer, Told

LEMMA DestroyedType ==
  ASSUME NEW x \in Peer
  PROVE  Destroyed(x) \in Peer /\ Destroyed(x).state = "NONE"
<1>1. Told(x, <<"removed">>) \in Peer
  BY ToldPeer
<1>. QED
  BY <1>1 DEF Destroyed, Peer

LEMMA LeftType ==
  ASSUME NEW x \in Tcp, NEW end \in Ends
  PROVE  Left(x, end) \in Tcp
  BY DEF Left, NoTcp, Tcp, Ends, Answer

LEMMA InitType == Init => TypeOK
<1>. SUFFICES ASSUME Init PROVE TypeOK
  OBVIOUS
<1>1. NoConn \in Controller
  BY DEF NoConn, Controller
<1>2. NoPeer \in Peer
  BY DEF NoPeer, Peer
<1>3. NoTcp \in Tcp
  BY DEF NoTcp, Tcp, Ends
<1>. QED
  BY <1>1, <1>2, <1>3 DEF Init, TypeOK

LEMMA NextType ==
  ASSUME TypeOK, [Next]_vars
  PROVE  TypeOK'
<1>. USE DEF TypeOK
<1>a. /\ \A k \in Slots : Owner(k) \in Ctrls /\ k # Nobody
      /\ NoTcp \in Tcp /\ NoPeer \in Peer
  BY SlotFacts DEF NoTcp, Tcp, Ends, NoPeer, Peer
<1>1. CASE StartListen
  BY <1>1 DEF StartListen
<1>2. CASE StopListen
  <2>1. \A k \in Slots : Destroyed(peer[k]) \in Peer
    BY DestroyedType
  <2>2. \A k \in Slots : Left(tcp[k], "server") \in Tcp
    BY LeftType DEF Ends
  <2>. QED
    BY <1>2, <2>1, <2>2 DEF StopListen
<1>3. CASE \E k \in Slots : ServerConnected(k)
  <2>. PICK k \in Slots : ServerConnected(k)
    BY <1>3
  <2>1. Replaced(k) \in [Slots -> Peer]
    BY DestroyedType DEF Replaced
  <2>2. peer' \in [Slots -> Peer]
    BY <2>1 DEF ServerConnected, Peer
  <2>3. \A j \in Slots :
          /\ [tcp[j] EXCEPT !.opened = TRUE] \in Tcp
          /\ [tcp[j] EXCEPT !.closedBy = @ \cup {"server"}] \in Tcp
    BY DEF Tcp, Ends
  <2>4. tcp' \in [Slots -> Tcp]
    BY <2>3 DEF ServerConnected
  <2>. QED
    BY <2>2, <2>4 DEF ServerConnected
<1>4. CASE \E k \in Slots : ServerDisconnected(k)
  <2>. PICK k \in Slots : ServerDisconnected(k)
    BY <1>4
  <2>1. tcp' \in [Slots -> Tcp]
    BY LeftType DEF ServerDisconnected, Ends
  <2>2. peer' \in [Slots -> Peer]
    BY DestroyedType DEF ServerDisconnected, ClearsPending
  <2>. QED
    BY <2>1, <2>2 DEF ServerDisconnected
<1>5. CASE \E k \in Slots, whole \in BOOLEAN : ServerRaw(k, whole)
  <2>. PICK k \in Slots, whole \in BOOLEAN : ServerRaw(k, whole)
    BY <1>5
  <2>1. Agreed(Owner(k)) \subseteq Nat
    BY <1>a, AgreedType
  <2>2. tcp' \in [Slots -> Tcp]
    BY DEF ServerRaw, Tcp
  <2>3. Agreed(Owner(k)) # {} =>
          [state |-> "REQUESTED", log |-> <<"added">>,
           v |-> CHOOSE v \in Agreed(Owner(k)) : TRUE] \in Peer
    BY <2>1 DEF Peer
  <2>4. peer' \in [Slots -> Peer]
    BY <2>3 DEF ServerRaw
  <2>. QED
    BY <2>2, <2>4 DEF ServerRaw
<1>6. CASE \E k \in Slots : Accept(k)
  <2>. PICK k \in Slots : Accept(k)
    BY <1>6
  <2>1. Told(peer[k], <<"connected">>) \in Peer
    BY ToldPeer
  <2>2. peer' \in [Slots -> Peer]
    BY <2>1 DEF Accept, Peer
  <2>3. [accepted |-> TRUE, v |-> peer[k].v] \in Answer
    BY DEF Answer, Peer
  <2>4. tcp' \in [Slots -> Tcp]
    BY <2>3 DEF Accept, Tcp
  <2>. QED
    BY <2>2, <2>4 DEF Accept, NoLongerPending
<1>7. CASE \E k \in Slots : Reject(k)
  <2>. PICK k \in Slots : Reject(k)
    BY <1>7
  <2>1. peer' \in [Slots -> Peer]
    BY DestroyedType DEF Reject
  <2>2. [accepted |-> FALSE, v |-> 0] \in Answer
    BY DEF Answer
  <2>3. tcp' \in [Slots -> Tcp]
    BY <2>2 DEF Reject, Tcp
  <2>. QED
    BY <2>1, <2>3 DEF Reject, NoLongerPending
<1>8. CASE \E k \in Slots : PeerDisconnect(k)
  <2>. PICK k \in Slots : PeerDisconnect(k)
    BY <1>8
  <2>1. Told(peer[k], <<"disconnected">>) \in Peer
    BY ToldPeer
  <2>. QED
    BY <2>1, DestroyedType DEF PeerDisconnect
<1>9. CASE \E k \in Slots, sent \in BOOLEAN : ClientConnected(k, sent)
  <2>. PICK k \in Slots, sent \in BOOLEAN : ClientConnected(k, sent)
    BY <1>9
  <2>1. tcp' \in [Slots -> Tcp]
    BY <1>a DEF ClientConnected, Tcp, Ends
  <2>2. peer' \in [Slots -> Peer]
    BY <1>a DEF ClientConnected
  <2>3. [ctrl[Owner(k)] EXCEPT !.conn = k,
           !.state = IF sent THEN "JSON_SENT" ELSE "CONNECTING_JSON"] \in Controller
    BY <1>a, ControllerUpdate
  <2>4. ctrl' \in [Ctrls -> Controller]
    BY <1>a, <2>3 DEF ClientConnected
  <2>. QED
    BY <2>1, <2>2, <2>4 DEF ClientConnected
<1>10. CASE \E k \in Slots, whole \in BOOLEAN : ClientRaw(k, whole)
  <2>. PICK k \in Slots, whole \in BOOLEAN : ClientRaw(k, whole)
    BY <1>10
  <2>1. tcp' \in [Slots -> Tcp]
    BY DEF ClientRaw, Close, Tcp, Ends
  <2>2. PICK a \in tcp[k].answer :
          ctrl' = [ctrl EXCEPT ![Owner(k)] =
             CASE whole /\ Refused(Owner(k), a) ->
                    [Told(@, <<"canceled">>) EXCEPT !.state = "NONE", !.conn = Nobody]
               [] whole /\ ~Refused(Owner(k), a) ->
                    [Told(@, <<"connected">>) EXCEPT !.state = "CONNECTED", !.v = a.v]
               [] OTHER -> [@ EXCEPT !.state = "CONNECTING_JSON"]]
    BY DEF ClientRaw
  <2>3. a.v \in Nat
    BY DEF Tcp, Answer
  <2>4. /\ Told(ctrl[Owner(k)], <<"canceled">>) \in Controller
        /\ Told(ctrl[Owner(k)], <<"connected">>) \in Controller
    BY <1>a, ToldController DEF Tellings
  <2>5. ctrl' \in [Ctrls -> Controller]
    <3>1. [Told(ctrl[Owner(k)], <<"canceled">>) EXCEPT !.state = "NONE", !.conn = Nobody]
             \in Controller
      BY <2>4 DEF Controller
    <3>2. [Told(ctrl[Owner(k)], <<"connected">>) EXCEPT !.state = "CONNECTED", !.v = a.v]
             \in Controller
      BY <2>3, <2>4 DEF Controller
    <3>3. [ctrl[Owner(k)] EXCEPT !.state = "CONNECTING_JSON"] \in Controller
      BY <1>a, ControllerUpdate
    <3>. QED
      BY <1>a, <2>2, <3>1, <3>2, <3>3
  <2>. QED
    BY <2>1, <2>5 DEF ClientRaw
<1>11. CASE \E k \in Slots : ClientDisconnected(k)
  <2>. PICK k \in Slots : ClientDisconnected(k)
    BY <1>11
  <2>1. tcp' \in [Slots -> Tcp]
    BY LeftType DEF ClientDisconnected, Ends
  <2>2. [ctrl[Owner(k)] EXCEPT !.conn = Nobody, !.state = Retried(ctrl[Owner(k)].state)]
          \in Controller
    BY <1>a, ControllerUpdate DEF Retried
  <2>3. ctrl' \in [Ctrls -> Controller]
    BY <1>a, <2>2 DEF ClientDisconnected
  <2>. QED
    BY <2>1, <2>3 DEF ClientDisconnected
<1>12. CASE \E k \in Slots : Break(k)
  <2>. PICK k \in Slots : Break(k)
    BY <1>12
  <2>1. tcp' \in [Slots -> Tcp]
    BY DEF Break, Tcp
  <2>. QED
    BY <2>1 DEF Break
<1>13. CASE \E c \in Ctrls : Connect(c)
  <2>. PICK c \in Ctrls : Connect(c)
    BY <1>13
  <2>1. Told(ctrl[c], <<"connecting">>) \in Controller
    BY ToldController DEF Tellings
  <2>2. ctrl' \in [Ctrls -> Controller]
    BY <2>1 DEF Connect, Controller
  <2>. QED
    BY <2>2 DEF Connect
<1>14. CASE \E c \in Ctrls : Disconnect(c)
  <2>. PICK c \in Ctrls : Disconnect(c)
    BY <1>14
  <2>1. Told(ctrl[c], Ending(c)) \in Controller
    BY ToldController DEF Ending, Tellings
  <2>2. ctrl' \in [Ctrls -> Controller]
    BY <2>1 DEF Disconnect, Controller
  <2>3. tcp' \in [Slots -> Tcp]
    BY LeftType DEF Disconnect, Ends
  <2>. QED
    BY <2>2, <2>3 DEF Disconnect
<1>15. CASE UNCHANGED vars
  BY <1>15 DEF vars
<1>. QED
  BY <1>1, <1>2, <1>3, <1>4, <1>5, <1>6, <1>7, <1>8, <1>9, <1>10, <1>11,
     <1>12, <1>13, <1>14, <1>15 DEF Next

(* Every variable keeps its type: the records the handlers update, and the *)
(* values they take from one another over the connections.                 *)
THEOREM TypeCorrect == Spec => []TypeOK
  BY InitType, NextType, PTL DEF Spec

-----------------------------------------------------------------------------
(* PeerToldOnce is inductive with two more facts: the pending request is   *)
(* one that was not answered, and the peer of a connection the server has  *)
(* not been told of is new.                                                *)
PeerTold(p) ==
    p.log \in CASE
         p.state = "NONE" ->
           {<<>>, <<"added", "removed">>,
            <<"added", "connected", "disconnected", "removed">>}
         [] p.state = "PENDING" -> {<<>>}
         [] p.state = "REQUESTED" -> {<<"added">>}
         [] p.state = "CONNECTED" -> {<<"added", "connected">>}

Unanswered(p) == p.state \in {"PENDING", "REQUESTED"}
Unopened(x) == "server" \in x.ends /\ ~x.opened

Fits(k, p, conn, x) ==
    /\ p \in Peer /\ PeerTold(p)
    /\ Unanswered(p) <=> conn = k
    /\ Unopened(x) => p = NoPeer

PeerInv == \A k \in Slots : Fits(k, peer[k], listen.conn, tcp[k])

LEMMA PeerInvToldOnce == PeerInv => PeerToldOnce
  BY DEF PeerInv, Fits, PeerToldOnce, PeerTold, Unanswered

LEMMA NoPeerFits ==
  ASSUME NEW k \in Slots, NEW conn, conn # k, NEW x
  PROVE  Fits(k, NoPeer, conn, x)
  BY DEF NoPeer, Fits, PeerTold, Unanswered, Peer

LEMMA Longer ==
  ASSUME NEW S, NEW s \in Seq(S), NEW t \in Seq(S), NEW e \in S,
         Len(t) = Len(s) + 1, t[Len(s) + 1] = e,
         \A i \in 1..Len(s) : t[i] = s[i]
  PROVE  s \o <<e>> = t
<1>1. /\ <<e>> \in Seq(S) /\ Len(<<e>>) = 1 /\ <<e>>[1] = e
      /\ Len(s) \in Nat
  OBVIOUS
<1>2. /\ s \o <<e>> \in Seq(S)
      /\ Len(s \o <<e>>) = Len(s) + 1
      /\ \A i \in 1..Len(s) + 1 :
           (s \o <<e>>)[i] = IF i <= Len(s) THEN s[i] ELSE <<e>>[i - Len(s)]
  BY <1>1, ConcatProperties
<1>3. (s \o <<e>>)[Len(s) + 1] = e
  BY <1>1, <1>2
<1>4. \A i \in 1..Len(s \o <<e>>) : (s \o <<e>>)[i] = t[i]
  BY <1>1, <1>2, <1>3
<1>. QED
  BY <1>2, <1>4, SeqEqual

LEMMA Two ==
  ASSUME NEW a, NEW b
  PROVE  <<a>> \o <<b>> = <<a, b>>
<1>. DEFINE s == <<a>>
            t == <<a, b>>
            S == {a, b}
<1>1. s \in Seq(S) /\ t \in Seq(S) /\ b \in S
  OBVIOUS
<1>2. /\ Len(s) = 1 /\ Len(t) = 2 /\ t[2] = b
      /\ t[1] = s[1]
  OBVIOUS
<1>. HIDE DEF s, t, S
<1>3. Len(t) = Len(s) + 1 /\ t[Len(s) + 1] = b
  BY <1>2
<1>4. \A i \in 1..Len(s) : t[i] = s[i]
  BY <1>2
<1>5. s \o <<b>> = t
  BY <1>1, <1>3, <1>4, Longer
<1>. QED
  BY <1>5 DEF s, t

LEMMA Three ==
  ASSUME NEW a, NEW b, NEW c
  PROVE  <<a, b>> \o <<c>> = <<a, b, c>>
<1>. DEFINE s == <<a, b>>
            t == <<a, b, c>>
            S == {a, b, c}
<1>1. s \in Seq(S) /\ t \in Seq(S) /\ c \in S
  OBVIOUS
<1>2. /\ Len(s) = 2 /\ Len(t) = 3 /\ t[3] = c
      /\ t[1] = s[1] /\ t[2] = s[2]
  OBVIOUS
<1>. HIDE DEF s, t, S
<1>3. Len(t) = Len(s) + 1 /\ t[Len(s) + 1] = c
  BY <1>2
<1>4. \A i \in 1..Len(s) : t[i] = s[i]
  BY <1>2
<1>5. s \o <<c>> = t
  BY <1>1, <1>3, <1>4, Longer
<1>. QED
  BY <1>5 DEF s, t

LEMMA Four ==
  ASSUME NEW a, NEW b, NEW c, NEW d
  PROVE  <<a, b, c>> \o <<d>> = <<a, b, c, d>>
<1>. DEFINE s == <<a, b, c>>
            t == <<a, b, c, d>>
            S == {a, b, c, d}
<1>1. s \in Seq(S) /\ t \in Seq(S) /\ d \in S
  OBVIOUS
<1>2. /\ Len(s) = 3 /\ Len(t) = 4 /\ t[4] = d
      /\ t[1] = s[1] /\ t[2] = s[2] /\ t[3] = s[3]
  OBVIOUS
<1>. HIDE DEF s, t, S
<1>3. Len(t) = Len(s) + 1 /\ t[Len(s) + 1] = d
  BY <1>2
<1>4. \A i \in 1..Len(s) : t[i] = s[i]
  BY <1>2
<1>5. s \o <<d>> = t
  BY <1>1, <1>3, <1>4, Longer
<1>. QED
  BY <1>5 DEF s, t

LEMMA PeerLogs ==
  /\ <<"added">> \o <<"removed">> = <<"added", "removed">>
  /\ <<"added">> \o <<"connected">> = <<"added", "connected">>
  /\ <<"added", "connected">> \o <<"disconnected">>
       = <<"added", "connected", "disconnected">>
  /\ <<"added", "connected", "disconnected">> \o <<"removed">>
       = <<"added", "connected", "disconnected", "removed">>
<1>1. <<"added">> \o <<"removed">> = <<"added", "removed">>
  BY Two, Zenon
<1>2. <<"added">> \o <<"connected">> = <<"added", "connected">>
  BY Two, Zenon
<1>3. <<"added", "connected">> \o <<"disconnected">>
        = <<"added", "connected", "disconnected">>
  BY Three, Zenon
<1>4. <<"added", "connected", "disconnected">> \o <<"removed">>
        = <<"added", "connected", "disconnected", "removed">>
  BY Four, Zenon
<1>. QED
  BY <1>1, <1>2, <1>3, <1>4, Zenon

(* A request that is destroyed, whatever becomes of its connection.        *)
LEMMA DestroyedFits ==
  ASSUME NEW k \in Slots, NEW p \in Peer, PeerTold(p), Unanswered(p),
         NEW conn, conn # k, NEW x, ~Unopened(x)
  PROVE  Fits(k, Destroyed(p), conn, x)
<1>1. CASE p.state = "PENDING"
  <2>1. Destroyed(p) = [p EXCEPT !.state = "NONE"] /\ p.log = <<>>
    BY <1>1 DEF Destroyed, PeerTold
  <2>2. /\ Destroyed(p).state = "NONE"
        /\ Destroyed(p).log = <<>>
    BY <2>1 DEF Peer
  <2>. QED
    BY <2>2, DestroyedType DEF Fits, PeerTold, Unanswered
<1>2. CASE p.state = "REQUESTED"
  <2>1. p.log = <<"added">>
    BY <1>2 DEF PeerTold
  <2>2. Told(p, <<"removed">>).log = <<"added", "removed">>
    BY <2>1, ToldPeer, PeerLogs
  <2>3. Told(p, <<"removed">>) \in Peer
    BY ToldPeer
  <2>4. Destroyed(p) = [Told(p, <<"removed">>) EXCEPT !.state = "NONE"]
    BY <1>2 DEF Destroyed
  <2>5. Destroyed(p).log = <<"added", "removed">>
    BY <2>2, <2>3, <2>4 DEF Peer
  <2>. QED
    BY <2>5, DestroyedType DEF Fits, PeerTold, Unanswered
<1>. QED
  BY <1>1, <1>2 DEF Unanswered
LEMMA InitPeerInv == Init => PeerInv
<1>. SUFFICES ASSUME Init PROVE PeerInv
  OBVIOUS
<1>. SUFFICES ASSUME NEW k \in Slots
              PROVE  Fits(k, NoPeer, Nobody, NoTcp)
  BY DEF Init, PeerInv
<1>. QED
  BY SlotFacts, NoPeerFits

(* A slot whose peer and whose place in listen stay.                       *)
LEMMA SameFits ==
  ASSUME NEW k, NEW p, NEW conn, NEW conn2, NEW x, NEW x2,
         Fits(k, p, conn, x), conn2 = k <=> conn = k, Unopened(x2) => Unopened(x)
  PROVE  Fits(k, p, conn2, x2)
  BY DEF Fits

LEMMA LeftUnopened ==
  ASSUME NEW x \in Tcp, NEW end \in Ends
  PROVE  /\ Unopened(Left(x, end)) => Unopened(x)
         /\ ~Unopened(Left(x, "server"))
  BY DEF Left, Unopened, NoTcp, Tcp, Ends

LEMMA NextPeerInv ==
  ASSUME TypeOK, PeerInv, [Next]_vars
  PROVE  PeerInv'
<1>. USE DEF TypeOK
<1>. DEFINE Kept(k) == /\ peer'[k] = peer[k]
                       /\ listen'.conn = k <=> listen.conn = k
                       /\ Unopened(tcp'[k]) => Unopened(tcp[k])
<1>a. ASSUME NEW k \in Slots, Kept(k)
      PROVE  Fits(k, peer'[k], listen'.conn, tcp'[k])
  BY <1>a, SameFits DEF PeerInv
<1>b. SUFFICES ASSUME NEW k \in Slots
               PROVE  Fits(k, peer'[k], listen'.conn, tcp'[k])
  BY DEF PeerInv
<1>c. Fits(k, peer[k], listen.conn, tcp[k]) /\ k # Nobody
  BY SlotFacts DEF PeerInv
<1>d. /\ peer[k] \in Peer /\ tcp[k] \in Tcp
      /\ Unanswered(peer[k]) => ~Unopened(tcp[k])
  BY <1>c DEF Fits, NoPeer, Unanswered
<1>1. CASE StartListen
  BY <1>1, <1>a DEF StartListen
<1>2. CASE StopListen
  <2>1. listen'.conn = Nobody
    BY <1>2 DEF StopListen
  <2>2. Unopened(tcp'[k]) => Unopened(tcp[k])
    BY <1>2, <1>d, LeftUnopened DEF StopListen, Ends
  <2>3. CASE k = listen.conn
    BY <1>2, <1>c, <1>d, <2>1, <2>2, <2>3, DestroyedFits DEF StopListen, Fits
  <2>4. CASE k # listen.conn
    BY <1>2, <1>a, <1>c, <2>1, <2>2, <2>4 DEF StopListen
  <2>. QED
    BY <2>3, <2>4
<1>3. CASE \E j \in Slots : ServerConnected(j)
  <2>. PICK j \in Slots : ServerConnected(j)
    BY <1>3
  <2>1. listen'.conn = j
    BY DEF ServerConnected
  <2>2. Unopened(tcp[j]) /\ Fits(j, peer[j], listen.conn, tcp[j])
    BY DEF ServerConnected, Unopened, PeerInv
  <2>3. peer[j] = NoPeer /\ listen.conn # j
    BY <2>2 DEF Fits, Unanswered, NoPeer
  <2>4. Unopened(tcp'[k]) => Unopened(tcp[k]) /\ k # j
    BY <1>d DEF ServerConnected, Unopened, Tcp
  <2>5. CASE k = j
    <3>1. peer'[k] = [NoPeer EXCEPT !.state = "PENDING"]
      BY <2>3, <2>5 DEF ServerConnected, Replaced
    <3>2. peer'[k].state = "PENDING" /\ peer'[k].log = <<>>
      BY <3>1 DEF NoPeer
    <3>3. peer'[k] \in Peer
      BY NextType
    <3>4. ~Unopened(tcp'[k])
      BY <2>4, <2>5
    <3>. QED
      BY <2>1, <2>5, <3>2, <3>3, <3>4 DEF Fits, PeerTold, Unanswered
  <2>6. CASE k # j /\ k = listen.conn
    <3>1. peer'[k] = Destroyed(peer[k])
      BY <2>6 DEF ServerConnected, Replaced
    <3>. QED
      BY <1>c, <1>d, <2>1, <2>4, <2>6, <3>1, DestroyedFits DEF Fits
  <2>7. CASE k # j /\ k # listen.conn
    <3>1. peer'[k] = peer[k]
      BY <2>7 DEF ServerConnected, Replaced
    <3>. QED
      BY <1>a, <2>1, <2>4, <2>7, <3>1
  <2>. QED
    BY <2>5, <2>6, <2>7
<1>4. CASE \E j \in Slots : ServerDisconnected(j)
  <2>. PICK j \in Slots : ServerDisconnected(j)
    BY <1>4
  <2>1. Unopened(tcp'[k]) => Unopened(tcp[k])
    BY <1>d, LeftUnopened DEF ServerDisconnected, Ends
  <2>2. CASE listen.conn = j /\ k = j
    <3>1. listen'.conn = Nobody /\ peer'[k] = Destroyed(peer[k])
      BY <2>2 DEF ServerDisconnected, ClearsPending
    <3>. QED
      BY <1>c, <1>d, <2>1, <2>2, <3>1, DestroyedFits DEF Fits
  <2>3. CASE listen.conn = j /\ k # j
    <3>1. listen'.conn = Nobody /\ peer'[k] = peer[k]
      BY <2>3 DEF ServerDisconnected, ClearsPending
    <3>. QED
      BY <1>a, <1>c, <2>1, <2>3, <3>1
  <2>4. CASE listen.conn # j
    BY <1>a, <2>1, <2>4 DEF ServerDisconnected, ClearsPending
  <2>. QED
    BY <2>2, <2>3, <2>4
<1>5. CASE \E j \in Slots, whole \in BOOLEAN : ServerRaw(j, whole)
  <2>. PICK j \in Slots, whole \in BOOLEAN : ServerRaw(j, whole)
    BY <1>5
  <2>1. listen' = listen
    BY DEF ServerRaw
  <2>2. Unopened(tcp'[k]) => Unopened(tcp[k])
    BY <1>d DEF ServerRaw, Unopened, Tcp
  <2>3. CASE peer'[k] = peer[k]
    BY <1>a, <2>1, <2>2, <2>3
  <2>4. CASE peer'[k] # peer[k]
    <3>1. /\ k = j /\ listen.conn = k
          /\ peer'[k].state = "REQUESTED" /\ peer'[k].log = <<"added">>
      BY <2>4 DEF ServerRaw
    <3>2. peer'[k] \in Peer
      BY NextType
    <3>3. ~Unopened(tcp'[k])
      BY <1>c, <1>d, <2>2, <3>1 DEF Fits
    <3>. QED
      BY <2>1, <3>1, <3>2, <3>3 DEF Fits, PeerTold, Unanswered
  <2>. QED
    BY <2>3, <2>4
<1>6. CASE \E j \in Slots : Accept(j)
  <2>. PICK j \in Slots : Accept(j)
    BY <1>6
  <2>1. listen.conn = j /\ listen'.conn = Nobody
    BY DEF Accept, Requested, NoLongerPending
  <2>2. Unopened(tcp'[k]) => Unopened(tcp[k])
    BY <1>d DEF Accept, Unopened, Tcp
  <2>3. CASE k = j
    <3>1. peer[k].log = <<"added">> /\ peer[k].state = "REQUESTED"
      BY <1>c, <2>3 DEF Accept, Requested, Fits, PeerTold
    <3>2. Told(peer[k], <<"connected">>).log = <<"added", "connected">>
      BY <1>d, <3>1, ToldPeer, PeerLogs
    <3>3. Told(peer[k], <<"connected">>) \in Peer
      BY <1>d, ToldPeer
    <3>4. peer'[k] = [Told(peer[k], <<"connected">>) EXCEPT !.state = "CONNECTED"]
      BY <2>3 DEF Accept
    <3>5. peer'[k].log = <<"added", "connected">> /\ peer'[k].state = "CONNECTED"
      BY <3>2, <3>3, <3>4 DEF Peer
    <3>6. peer'[k] \in Peer
      BY NextType
    <3>7. ~Unopened(tcp'[k])
      BY <1>d, <2>2, <3>1 DEF Unanswered
    <3>. QED
      BY <1>c, <2>1, <3>5, <3>6, <3>7 DEF Fits, PeerTold, Unanswered
  <2>4. CASE k # j
    BY <1>a, <1>c, <2>1, <2>2, <2>4 DEF Accept
  <2>. QED
    BY <2>3, <2>4
<1>7. CASE \E j \in Slots : Reject(j)
  <2>. PICK j \in Slots : Reject(j)
    BY <1>7
  <2>1. listen.conn = j /\ listen'.conn = Nobody
    BY DEF Reject, Requested, NoLongerPending
  <2>2. Unopened(tcp'[k]) => Unopened(tcp[k])
    BY <1>d DEF Reject, Unopened, Tcp
  <2>3. CASE k = j
    <3>1. peer'[k] = Destroyed(peer[k])
      BY <2>3 DEF Reject
    <3>2. Unanswered(peer[k]) /\ PeerTold(peer[k])
      BY <1>c, <2>1, <2>3 DEF Fits
    <3>3. ~Unopened(tcp'[k])
      BY <1>d, <2>2, <3>2
    <3>4. listen'.conn # k
      BY <1>c, <2>1
    <3>. QED
      BY <1>d, <3>1, <3>2, <3>3, <3>4, DestroyedFits
  <2>4. CASE k # j
    BY <1>a, <1>c, <2>1, <2>2, <2>4 DEF Reject
  <2>. QED
    BY <2>3, <2>4
<1>8. CASE \E j \in Slots : PeerDisconnect(j)
  <2>. PICK j \in Slots : PeerDisconnect(j)
    BY <1>8
  <2>1. listen' = listen /\ tcp' = tcp
    BY DEF PeerDisconnect
  <2>2. CASE k = j
    <3>. DEFINE gone == Told(peer[k], <<"disconnected">>)
    <3>1. peer[k].state = "CONNECTED" /\ peer[k].log = <<"added", "connected">>
      BY <1>c, <2>2 DEF PeerDisconnect, Fits, PeerTold
    <3>2. gone \in Peer /\ gone.log = <<"added", "connected", "disconnected">>
      BY <1>d, <3>1, ToldPeer, PeerLogs
    <3>3. gone.state = "CONNECTED"
      BY <1>d, <3>1 DEF Told, Peer
    <3>. HIDE DEF gone
    <3>4. Told(gone, <<"removed">>) \in Peer
      BY <3>2, ToldPeer
    <3>5. Told(gone, <<"removed">>).log
            = <<"added", "connected", "disconnected", "removed">>
      BY <3>2, ToldPeer, PeerLogs
    <3>6. Destroyed(gone) = [Told(gone, <<"removed">>) EXCEPT !.state = "NONE"]
      BY <3>3 DEF Destroyed
    <3>7. /\ Destroyed(gone).log = <<"added", "connected", "disconnected", "removed">>
          /\ Destroyed(gone).state = "NONE"
      BY <3>4, <3>5, <3>6 DEF Peer
    <3>8. peer'[k] = Destroyed(gone)
      BY <2>2 DEF PeerDisconnect, gone
    <3>9. peer'[k] \in Peer
      BY NextType
    <3>10. ~Unopened(tcp[k]) /\ listen.conn # k
      BY <1>c, <3>1 DEF Fits, NoPeer, Unanswered
    <3>. QED
      BY <2>1, <3>7, <3>8, <3>9, <3>10 DEF Fits, PeerTold, Unanswered
  <2>3. CASE k # j
    BY <1>a, <2>1, <2>3 DEF PeerDisconnect
  <2>. QED
    BY <2>2, <2>3
<1>9. CASE \E j \in Slots, sent \in BOOLEAN : ClientConnected(j, sent)
  <2>. PICK j \in Slots, sent \in BOOLEAN : ClientConnected(j, sent)
    BY <1>9
  <2>1. listen' = listen
    BY DEF ClientConnected
  <2>2. CASE k = j
    <3>1. peer[k].state = "NONE" /\ peer'[k] = NoPeer
      BY <2>2 DEF ClientConnected, FirstFree, Free
    <3>2. listen.conn # k
      BY <1>c, <3>1 DEF Fits, Unanswered
    <3>. QED
      BY <2>1, <3>1, <3>2, NoPeerFits
  <2>3. CASE k # j
    BY <1>a, <2>1, <2>3 DEF ClientConnected
  <2>. QED
    BY <2>2, <2>3
<1>10. CASE \E j \in Slots, whole \in BOOLEAN : ClientRaw(j, whole)
  <2>. PICK j \in Slots, whole \in BOOLEAN : ClientRaw(j, whole)
    BY <1>10
  <2>1. Unopened(tcp'[k]) => Unopened(tcp[k])
    BY <1>d DEF ClientRaw, Close, Unopened, Tcp
  <2>. QED
    BY <1>a, <2>1 DEF ClientRaw
<1>11. CASE \E j \in Slots : ClientDisconnected(j)
  <2>. PICK j \in Slots : ClientDisconnected(j)
    BY <1>11
  <2>1. Unopened(tcp'[k]) => Unopened(tcp[k])
    BY <1>d, LeftUnopened DEF ClientDisconnected, Ends
  <2>. QED
    BY <1>a, <2>1 DEF ClientDisconnected
<1>12. CASE \E j \in Slots : Break(j)
  <2>. PICK j \in Slots : Break(j)
    BY <1>12
  <2>1. Unopened(tcp'[k]) => Unopened(tcp[k])
    BY <1>d DEF Break, Unopened, Tcp
  <2>. QED
    BY <1>a, <2>1 DEF Break
<1>13. CASE \E c \in Ctrls : Connect(c)
  BY <1>13, <1>a DEF Connect
<1>14. CASE \E c \in Ctrls : Disconnect(c)
  <2>. PICK c \in Ctrls : Disconnect(c)
    BY <1>14
  <2>1. Unopened(tcp'[k]) => Unopened(tcp[k])
    BY <1>d, LeftUnopened DEF Disconnect, Ends
  <2>. QED
    BY <1>a, <2>1 DEF Disconnect
<1>15. CASE UNCHANGED vars
  BY <1>15, <1>a DEF vars
<1>. QED
  BY <1>1, <1>2, <1>3, <1>4, <1>5, <1>6, <1>7, <1>8, <1>9, <1>10, <1>11,
     <1>12, <1>13, <1>14, <1>15 DEF Next

(* Whatever the order of connections, disconnections, answers and stops,   *)
(* each peer the device's application was told of is removed once, after   *)
(* disconnected if it was connected, and no unanswered request is left     *)
(* behind by another one.                                                  *)
THEOREM PeersAreToldOnce == Spec => []PeerToldOnce
<1>1. Spec => []PeerInv
  BY TypeCorrect, InitPeerInv, NextPeerInv, PTL DEF Spec
<1>. QED
  BY <1>1, PeerInvToldOnce, PTL

(* A pending request is given up only when its connection is closed, when  *)
(* it was answered, when a newer one takes its place or when the device    *)
(* stops listening: the late disconnection of another connection does not. *)
THEOREM PendingIsKept == Spec => PendingKept
<1>. DEFINE Kept == \A k \in Slots :
        listen.conn = k /\ listen'.conn # k =>
            \/ "server" \notin tcp'[k].ends /\ tcp[k].closedBy # {}
            \/ tcp'[k].answer # {}
            \/ \E j \in Slots : tcp'[j].opened /\ ~tcp[j].opened
            \/ ~listen'.on
<1>1. TypeOK /\ [Next]_vars => [Kept]_vars
  <2>. SUFFICES ASSUME TypeOK, Next, NEW k \in Slots,
                       listen.conn = k, listen'.conn # k
                PROVE  \/ "server" \notin tcp'[k].ends /\ tcp[k].closedBy # {}
                       \/ tcp'[k].answer # {}
                       \/ \E j \in Slots : tcp'[j].opened /\ ~tcp[j].opened
                       \/ ~listen'.on
    BY DEF vars
  <2>1. CASE StopListen
    BY <2>1 DEF StopListen
  <2>2. ASSUME NEW j \in Slots, ServerConnected(j)
        PROVE  tcp'[j].opened /\ ~tcp[j].opened
    BY <2>2 DEF ServerConnected, TypeOK, Tcp
  <2>3. ASSUME NEW j \in Slots, ServerDisconnected(j)
        PROVE  "server" \notin tcp'[k].ends /\ tcp[k].closedBy # {}
    <3>1. j = k
      BY <2>3 DEF ServerDisconnected, ClearsPending
    <3>. QED
      BY <2>3, <3>1 DEF ServerDisconnected, Left, NoTcp, TypeOK, Tcp
  <2>4. ASSUME NEW j \in Slots, Accept(j) \/ Reject(j)
        PROVE  tcp'[k].answer # {}
    <3>1. listen.conn = j
      BY <2>4 DEF Accept, Reject, Requested
    <3>2. PICK a : tcp' = [tcp EXCEPT ![j].answer = {a}]
      BY <2>4, Zenon DEF Accept, Reject
    <3>. QED
      BY <3>1, <3>2 DEF TypeOK, Tcp
  <2>5. ASSUME NEW j \in Slots, NEW ok \in BOOLEAN,
               \/ ServerRaw(j, ok) \/ ClientConnected(j, ok) \/ ClientRaw(j, ok)
               \/ PeerDisconnect(j) \/ ClientDisconnected(j) \/ Break(j)
        PROVE  FALSE
    BY <2>5 DEF ServerRaw, ClientConnected, ClientRaw, PeerDisconnect,
                ClientDisconnected, Break
  <2>6. ASSUME \/ StartListen
               \/ \E c \in Ctrls : Connect(c) \/ Disconnect(c)
        PROVE  FALSE
    BY <2>6 DEF StartListen, Connect, Disconnect, TypeOK
  <2>. QED
    BY <2>1, <2>2, <2>3, <2>4, <2>5, <2>6 DEF Next
<1>. QED
  BY <1>1, TypeCorrect, PTL DEF Spec, PendingKept

-----------------------------------------------------------------------------
(* A controller reads an answer only on the connection that it still uses, *)
(* while it waits for one: the connections it left it also closed.         *)
Reads(x) == "client" \in x.ends /\ "client" \notin x.closedBy

ReadsOwn ==
    \A k \in Slots :
        Reads(tcp[k]) => ctrl[Owner(k)].conn = k /\ ctrl[Owner(k)].state = "JSON_SENT"

LEMMA InitReads == Init => ReadsOwn
  BY DEF Init, ReadsOwn, Reads, NoTcp

LEMMA LeftReads ==
  ASSUME NEW x \in Tcp, NEW end \in Ends
  PROVE  /\ Reads(Left(x, end)) => Reads(x)
         /\ ~Reads(Left(x, "client"))
  BY DEF Left, Reads, NoTcp, Tcp, Ends

LEMMA NextReads ==
  ASSUME TypeOK, ReadsOwn, [Next]_vars
  PROVE  ReadsOwn'
<1>. USE DEF TypeOK
<1>. SUFFICES ASSUME NEW k \in Slots, Reads(tcp'[k])
              PROVE  /\ ctrl'[Owner(k)].conn = k
                     /\ ctrl'[Owner(k)].state = "JSON_SENT"
  BY DEF ReadsOwn
<1>a. /\ tcp[k] \in Tcp /\ Owner(k) \in Ctrls /\ k # Nobody
      /\ ctrl[Owner(k)] \in Controller
  BY SlotFacts
<1>b. ASSUME Reads(tcp[k]), ctrl'[Owner(k)] = ctrl[Owner(k)]
      PROVE  /\ ctrl'[Owner(k)].conn = k
             /\ ctrl'[Owner(k)].state = "JSON_SENT"
  BY <1>b DEF ReadsOwn
<1>1. CASE StartListen
  BY <1>1, <1>b DEF StartListen
<1>2. CASE StopListen
  BY <1>2, <1>a, <1>b, LeftReads DEF StopListen, Ends
<1>3. ASSUME NEW j \in Slots, ServerConnected(j)
      PROVE  Reads(tcp[k]) /\ ctrl' = ctrl
  BY <1>3, <1>a DEF ServerConnected, Reads, Tcp
<1>4. ASSUME NEW j \in Slots, ServerDisconnected(j)
      PROVE  Reads(tcp[k]) /\ ctrl' = ctrl
  BY <1>4, <1>a, LeftReads DEF ServerDisconnected, Ends
<1>5. ASSUME NEW j \in Slots, NEW whole \in BOOLEAN, ServerRaw(j, whole)
      PROVE  Reads(tcp[k]) /\ ctrl' = ctrl
  BY <1>5, <1>a DEF ServerRaw, Reads, Tcp
<1>6. ASSUME NEW j \in Slots, Accept(j) \/ Reject(j) \/ PeerDisconnect(j)
      PROVE  Reads(tcp[k]) /\ ctrl' = ctrl
  BY <1>6, <1>a DEF Accept, Reject, PeerDisconnect, Reads, Tcp
<1>7. ASSUME NEW j \in Slots, NEW sent \in BOOLEAN, ClientConnected(j, sent)
      PROVE  /\ ctrl'[Owner(k)].conn = k
             /\ ctrl'[Owner(k)].state = "JSON_SENT"
  <2>1. ctrl[Owner(j)] \in Controller /\ Owner(j) \in Ctrls
        /\ ctrl[Owner(j)].conn = Nobody
    BY <1>7, SlotFacts DEF ClientConnected
  <2>2. CASE k = j
    <3>1. sent
      BY <1>7, <1>a, <2>2 DEF ClientConnected, Reads, NoTcp
    <3>2. ctrl'[Owner(k)] = [ctrl[Owner(k)] EXCEPT !.conn = k, !.state = "JSON_SENT"]
      BY <1>7, <1>a, <2>2, <3>1 DEF ClientConnected
    <3>. QED
      BY <1>a, <3>2 DEF Controller
  <2>3. CASE k # j
    <3>1. Reads(tcp[k])
      BY <1>7, <2>3 DEF ClientConnected
    <3>2. Owner(k) # Owner(j)
      BY <1>a, <2>1, <3>1 DEF ReadsOwn
    <3>. QED
      BY <1>7, <1>a, <1>b, <2>1, <3>1, <3>2 DEF ClientConnected
  <2>. QED
    BY <2>2, <2>3
<1>8. ASSUME NEW j \in Slots, NEW whole \in BOOLEAN, ClientRaw(j, whole)
      PROVE  /\ ctrl'[Owner(k)].conn = k
             /\ ctrl'[Owner(k)].state = "JSON_SENT"
  <2>1. k # j /\ Reads(tcp[k])
    BY <1>8, <1>a DEF ClientRaw, Close, Reads, Tcp
  <2>2. Reads(tcp[j])
    BY <1>8 DEF ClientRaw, CanRead, Reads
  <2>3. Owner(k) # Owner(j) /\ Owner(j) \in Ctrls
    BY <2>1, <2>2, SlotFacts DEF ReadsOwn
  <2>4. ctrl'[Owner(k)] = ctrl[Owner(k)]
    BY <1>8, <1>a, <2>3 DEF ClientRaw
  <2>. QED
    BY <1>b, <2>1, <2>4
<1>9. ASSUME NEW j \in Slots, ClientDisconnected(j)
      PROVE  /\ ctrl'[Owner(k)].conn = k
             /\ ctrl'[Owner(k)].state = "JSON_SENT"
  <2>1. k # j /\ Reads(tcp[k])
    BY <1>9, <1>a, LeftReads DEF ClientDisconnected, Ends
  <2>2. Owner(j) \in Ctrls /\ ctrl[Owner(k)].conn = k
    BY <2>1, SlotFacts DEF ReadsOwn
  <2>3. ctrl'[Owner(k)] = ctrl[Owner(k)]
    BY <1>9, <1>a, <2>1, <2>2 DEF ClientDisconnected
  <2>. QED
    BY <1>b, <2>1, <2>3
<1>10. ASSUME NEW j \in Slots, Break(j)
       PROVE  Reads(tcp[k]) /\ ctrl' = ctrl
  BY <1>10, <1>a DEF Break, Reads, Tcp, Ends
<1>11. ASSUME NEW c \in Ctrls, Connect(c)
       PROVE  Reads(tcp[k]) /\ ctrl'[Owner(k)] = ctrl[Owner(k)]
  <2>1. Reads(tcp[k]) /\ ctrl[c].state = "NONE"
    BY <1>11 DEF Connect
  <2>2. Owner(k) # c
    BY <2>1 DEF ReadsOwn
  <2>. QED
    BY <1>11, <1>a, <2>1, <2>2 DEF Connect
<1>12. ASSUME NEW c \in Ctrls, Disconnect(c)
       PROVE  Reads(tcp[k]) /\ ctrl'[Owner(k)] = ctrl[Owner(k)]
  <2>1. Reads(tcp[k]) /\ k # ctrl[c].conn
    BY <1>12, <1>a, LeftReads DEF Disconnect, Ends
  <2>2. Owner(k) # c
    BY <2>1 DEF ReadsOwn
  <2>. QED
    BY <1>12, <1>a, <2>1, <2>2 DEF Disconnect
<1>13. CASE UNCHANGED vars
  BY <1>13, <1>b DEF vars
<1>. QED
  BY <1>b, <1>1, <1>2, <1>3, <1>4, <1>5, <1>6, <1>7, <1>8, <1>9, <1>10,
     <1>11, <1>12, <1>13 DEF Next

(* What the last callback told a controller: a log that is empty is taken  *)
(* for one of an attempt that was canceled.                                *)
LastTold(log) == IF log = <<>> THEN "canceled" ELSE log[Len(log)]
Before(log, i) == IF i = 1 THEN "canceled" ELSE log[i - 1]

Follows(e, before) ==
    /\ e = "connecting" <=> before \in Ended
    /\ e = "disconnected" <=> before = "connected"

InOrder(log) == \A i \in DOMAIN log : Follows(log[i], Before(log, i))

(* The state of a controller is that of its last callback.                 *)
CtrlFits(x) ==
    /\ InOrder(x.log)
    /\ x.state = "NONE" <=> LastTold(x.log) \in Ended
    /\ x.state = "CONNECTED" <=> LastTold(x.log) = "connected"

CtrlInv == \A c \in Ctrls : CtrlFits(ctrl[c])

LEMMA CtrlInvToldOnce == TypeOK /\ CtrlInv => ControllerToldOnce
<1>. SUFFICES ASSUME TypeOK, CtrlInv, NEW c \in Ctrls
              PROVE  /\ InOrder(ctrl[c].log)
                     /\ ctrl[c].state = "NONE" <=>
                          (ctrl[c].log = <<>> \/ Last(ctrl[c].log) \in Ended)
  BY DEF ControllerToldOnce, InOrder, Follows, Before
<1>. QED
  BY DEF CtrlInv, CtrlFits, LastTold, Last, Ended

LEMMA LogGrows ==
  ASSUME NEW log \in Seq(Tellings), InOrder(log), NEW e \in Tellings,
         Follows(e, LastTold(log))
  PROVE  InOrder(log \o <<e>>) /\ LastTold(log \o <<e>>) = e
<1>. DEFINE n == Len(log)
            longer == log \o <<e>>
<1>1. n \in Nat /\ <<e>> \in Seq(Tellings) /\ Len(<<e>>) = 1 /\ <<e>>[1] = e
  OBVIOUS
<1>2. /\ longer \in Seq(Tellings) /\ Len(longer) = n + 1
      /\ \A i \in 1..n + 1 :
           longer[i] = IF i <= n THEN log[i] ELSE <<e>>[i - n]
  BY <1>1, ConcatProperties
<1>3. longer[n + 1] = e /\ \A i \in 1..n : longer[i] = log[i]
  BY <1>1, <1>2
<1>. HIDE DEF longer
<1>4. LastTold(longer) = e
  <2>1. longer # <<>>
    BY <1>1, <1>2, EmptySeq
  <2>. QED
    BY <1>2, <1>3, <2>1 DEF LastTold
<1>5. DOMAIN longer = 1..n + 1 /\ DOMAIN log = 1..n
  BY <1>2, LenProperties
<1>6. ASSUME NEW i \in 1..n + 1
      PROVE  Follows(longer[i], Before(longer, i))
  <2>1. CASE i \in 1..n
    <3>1. longer[i] = log[i] /\ Before(longer, i) = Before(log, i)
      BY <1>1, <1>3, <2>1 DEF Before
    <3>. QED
      BY <1>5, <2>1, <3>1 DEF InOrder
  <2>2. CASE i = n + 1
    <3>1. Before(longer, i) = LastTold(log)
      <4>1. CASE n = 0
        BY <2>2, <4>1, EmptySeq DEF Before, LastTold
      <4>2. CASE n # 0
        <5>1. log # <<>> /\ n \in 1..n /\ i # 1 /\ i - 1 = n
          BY <1>1, <2>2, <4>2
        <5>. QED
          BY <1>3, <5>1 DEF Before, LastTold
      <4>. QED
        BY <4>1, <4>2
    <3>. QED
      BY <1>3, <2>2, <3>1
  <2>. QED
    BY <1>1, <2>1, <2>2
<1>. QED
  BY <1>4, <1>5, <1>6 DEF InOrder, longer

(* A callback that follows the last one, with the state it goes with.      *)
LEMMA ToldFits ==
  ASSUME NEW x \in Controller, CtrlFits(x), NEW e \in Tellings,
         Follows(e, LastTold(x.log)), NEW y \in Controller,
         y.log = Told(x, <<e>>).log,
         y.state = "NONE" <=> e \in Ended, y.state = "CONNECTED" <=> e = "connected"
  PROVE  CtrlFits(y)
<1>1. x.log \in Seq(Tellings) /\ y.log = x.log \o <<e>>
  BY ToldController DEF Controller, Tellings
<1>. QED
  BY <1>1, LogGrows DEF CtrlFits

LEMMA InitCtrlInv == Init => CtrlInv
  BY DEF Init, CtrlInv, CtrlFits, NoConn, InOrder, LastTold, Ended

LEMMA NextCtrlInv ==
  ASSUME TypeOK, TypeOK', ReadsOwn, CtrlInv, [Next]_vars
  PROVE  CtrlInv'
<1>. SUFFICES ASSUME NEW c \in Ctrls PROVE CtrlFits(ctrl'[c])
  BY DEF CtrlInv
<1>. DEFINE x == ctrl[c]
            y == ctrl'[c]
<1>a. x \in Controller /\ y \in Controller /\ CtrlFits(x)
  BY DEF TypeOK, CtrlInv
<1>b. LastTold(x.log) \in Tellings
  <2>1. x.log \in Seq(Tellings)
    BY <1>a DEF Controller, Tellings
  <2>2. CASE x.log = <<>>
    BY <2>2 DEF LastTold, Tellings
  <2>3. CASE x.log # <<>>
    BY <2>1, <2>3 DEF LastTold
  <2>. QED
    BY <2>2, <2>3
<1>1. ASSUME y.log = x.log, y.state = x.state
      PROVE  CtrlFits(y)
  BY <1>a, <1>1 DEF CtrlFits
<1>2. ASSUME y.log = x.log, y.state \notin {"NONE", "CONNECTED"},
             x.state \notin {"NONE", "CONNECTED"}
      PROVE  CtrlFits(y)
  BY <1>a, <1>2 DEF CtrlFits
<1>. HIDE DEF x, y
<1>3. ASSUME NEW k \in Slots, NEW sent \in BOOLEAN, ClientConnected(k, sent)
      PROVE  CtrlFits(y)
  <2>1. CASE c = Owner(k)
    <3>1. /\ y = [x EXCEPT !.conn = k,
                    !.state = IF sent THEN "JSON_SENT" ELSE "CONNECTING_JSON"]
          /\ x.state = "CONNECTING_JSON"
      BY <1>3, <2>1 DEF ClientConnected, TypeOK, x, y
    <3>. QED
      BY <1>2, <1>a, <3>1 DEF Controller
  <2>2. CASE c # Owner(k)
    BY <1>1, <1>3, <2>2, SlotFacts DEF ClientConnected, TypeOK, x, y
  <2>. QED
    BY <2>1, <2>2
<1>4. ASSUME NEW k \in Slots, ClientDisconnected(k)
      PROVE  CtrlFits(y)
  <2>1. CASE y = x
    BY <1>1, <2>1
  <2>2. CASE y # x
    <3>1. y = [x EXCEPT !.conn = Nobody, !.state = Retried(x.state)]
      BY <1>4, <2>2 DEF ClientDisconnected, TypeOK, x, y
    <3>2. y.log = x.log /\ y.state = Retried(x.state)
      BY <1>a, <3>1 DEF Controller
    <3>. QED
      BY <1>1, <1>2, <3>2 DEF Retried
  <2>. QED
    BY <2>1, <2>2
<1>5. ASSUME NEW k \in Slots, NEW whole \in BOOLEAN, ClientRaw(k, whole)
      PROVE  CtrlFits(y)
  <2>1. CASE c # Owner(k)
    BY <1>1, <1>5, <2>1, SlotFacts DEF ClientRaw, TypeOK, x, y
  <2>2. CASE c = Owner(k)
    <3>1. x.state = "JSON_SENT"
      BY <1>5, <2>2 DEF ClientRaw, CanRead, ReadsOwn, Reads, x
    <3>2. LastTold(x.log) = "connecting"
      BY <1>a, <1>b, <3>1 DEF CtrlFits, Tellings, Ended
    <3>3. \/ \E v : y = [Told(x, <<"connected">>) EXCEPT !.state = "CONNECTED", !.v = v]
          \/ y = [Told(x, <<"canceled">>) EXCEPT !.state = "NONE", !.conn = Nobody]
          \/ y = [x EXCEPT !.state = "CONNECTING_JSON"]
      BY <1>5, <2>2 DEF ClientRaw, TypeOK, x, y
    <3>4. \A e \in {"connected", "canceled"} : Follows(e, LastTold(x.log))
      BY <3>2 DEF Follows, Ended
    <3>5. \A e \in {"connected", "canceled"} : Told(x, <<e>>) \in Controller
      BY <1>a, ToldController DEF Tellings
    <3>6. ASSUME NEW v, y = [Told(x, <<"connected">>) EXCEPT !.state = "CONNECTED", !.v = v]
          PROVE  CtrlFits(y)
      <4>1. y.log = Told(x, <<"connected">>).log /\ y.state = "CONNECTED"
        BY <3>5, <3>6 DEF Controller
      <4>. QED
        BY <1>a, <3>4, <4>1, ToldFits DEF Tellings, Ended
    <3>7. CASE y = [Told(x, <<"canceled">>) EXCEPT !.state = "NONE", !.conn = Nobody]
      <4>1. y.log = Told(x, <<"canceled">>).log /\ y.state = "NONE"
        BY <3>5, <3>7 DEF Controller
      <4>. QED
        BY <1>a, <3>4, <4>1, ToldFits DEF Tellings, Ended
    <3>8. CASE y = [x EXCEPT !.state = "CONNECTING_JSON"]
      BY <1>2, <1>a, <3>1, <3>8 DEF Controller
    <3>. QED
      BY <3>3, <3>6, <3>7, <3>8
  <2>. QED
    BY <2>1, <2>2
<1>6. ASSUME NEW d \in Ctrls, Connect(d)
      PROVE  CtrlFits(y)
  <2>1. CASE d # c
    BY <1>1, <1>6, <2>1 DEF Connect, TypeOK, x, y
  <2>2. CASE d = c
    <3>1. /\ x.state = "NONE"
          /\ y = [Told(x, <<"connecting">>) EXCEPT !.state = "CONNECTING_JSON"]
      BY <1>6, <2>2 DEF Connect, TypeOK, x, y
    <3>2. Told(x, <<"connecting">>) \in Controller
      BY <1>a, ToldController DEF Tellings
    <3>3. y.log = Told(x, <<"connecting">>).log /\ y.state = "CONNECTING_JSON"
      BY <3>1, <3>2 DEF Controller
    <3>4. Follows("connecting", LastTold(x.log))
      BY <1>a, <3>1 DEF CtrlFits, Follows, Ended
    <3>. QED
      BY <1>a, <3>3, <3>4, ToldFits DEF Tellings, Ended
  <2>. QED
    BY <2>1, <2>2
<1>7. ASSUME NEW d \in Ctrls, Disconnect(d)
      PROVE  CtrlFits(y)
  <2>1. CASE d # c
    BY <1>1, <1>7, <2>1 DEF Disconnect, TypeOK, x, y
  <2>2. CASE d = c
    <3>. DEFINE e == IF x.state = "CONNECTED" THEN "disconnected" ELSE "canceled"
    <3>1. /\ x.state # "NONE" /\ Ending(c) = <<e>>
          /\ y = [Told(x, <<e>>) EXCEPT !.state = "NONE", !.conn = Nobody]
      BY <1>7, <2>2 DEF Disconnect, Ending, TypeOK, x, y
    <3>2. e \in Tellings /\ e \in Ended /\ Told(x, <<e>>) \in Controller
      BY <1>a, ToldController DEF Tellings, Ended
    <3>3. Follows(e, LastTold(x.log))
      BY <1>a, <1>b, <3>1 DEF CtrlFits, Follows, Ended, Tellings
    <3>. HIDE DEF e
    <3>4. y.log = Told(x, <<e>>).log /\ y.state = "NONE"
      BY <3>1, <3>2 DEF Controller
    <3>. QED
      BY <1>a, <3>2, <3>3, <3>4, ToldFits DEF Ended
  <2>. QED
    BY <2>1, <2>2
<1>8. ASSUME NEW k \in Slots,
             \/ ServerConnected(k) \/ ServerDisconnected(k)
             \/ Accept(k) \/ Reject(k) \/ PeerDisconnect(k) \/ Break(k)
             \/ \E whole \in BOOLEAN : ServerRaw(k, whole)
      PROVE  ctrl' = ctrl
  BY <1>8 DEF ServerConnected, ServerDisconnected, Accept, Reject,
              PeerDisconnect, Break, ServerRaw
<1>9. CASE StartListen \/ StopListen \/ UNCHANGED vars
  BY <1>1, <1>9 DEF StartListen, StopListen, vars, x, y
<1>10. ctrl' = ctrl => CtrlFits(y)
  BY <1>1 DEF x, y
<1>. QED
  BY <1>3, <1>4, <1>5, <1>6, <1>7, <1>8, <1>9, <1>10 DEF Next, y

(* Whatever is lost, refused, broken or late on its connections, an        *)
(* application is told of each of its attempts once, in order, and of      *)
(* exactly one end, which is the right one.                                *)
THEOREM ControllersAreToldOnce == Spec => []ControllerToldOnce
<1>1. Spec => []ReadsOwn
  BY TypeCorrect, InitReads, NextReads, PTL DEF Spec
<1>2. Spec => []CtrlInv
  BY TypeCorrect, <1>1, InitCtrlInv, NextCtrlInv, PTL DEF Spec
<1>. QED
  BY TypeCorrect, <1>2, CtrlInvToldOnce, PTL

(* On both ends each beginning is told once and each end once, for any     *)
(* controllers, versions and bounds.                                       *)
THEOREM EndsAreToldOnce == Spec => []ToldOnce
<1>. QED
  BY TypeCorrect, PeersAreToldOnce, ControllersAreToldOnce, PTL DEF ToldOnce

-----------------------------------------------------------------------------
(* An answer that accepts is that of this connection's peer: one whose     *)
(* application was told, since the connection began, that it is connected. *)
Accepted(p) ==
    \/ p.state = "CONNECTED"
    \/ p.log = <<"added", "connected", "disconnected", "removed">>

Vouched(p, x) == \A a \in x.answer : a.accepted => Accepted(p) /\ a.v = p.v

AnswerFits(k, p, x) ==
    /\ Vouched(p, x)
    /\ Unopened(x) => x.answer = {}
    /\ p.state = "REQUESTED" \/ Accepted(p) => p.v \in Agreed(Owner(k))

AnswerInv == \A k \in Slots : AnswerFits(k, peer[k], tcp[k])

LEMMA AgreedGreatestVersion ==
  ASSUME NEW c \in Ctrls, NEW v \in Agreed(c)
  PROVE  Greatest(c, v)
<1>1. /\ Versions[c].min \in Nat /\ Versions[c].max \in Nat
      /\ DevVersions.min \in Nat /\ DevVersions.max \in Nat
  BY VersionAssumption DEF VersionRange
<1>2. v = Least(Versions[c].max, DevVersions.max)
  BY DEF Agreed
<1>3. Most(Versions[c].min, DevVersions.min) <= v
  BY DEF Agreed
<1>. QED
  BY <1>1, <1>2, <1>3 DEF Least, Most, Greatest

LEMMA AcceptedWasTold ==
  ASSUME NEW p \in Peer, PeerTold(p), Accepted(p)
  PROVE  Contains(p.log, "connected")
<1>0. p.log \in {<<"added", "connected">>,
                 <<"added", "connected", "disconnected", "removed">>}
  BY DEF PeerTold, Accepted
<1>1. p.log[2] = "connected" /\ 2 \in 1..Len(p.log)
  BY <1>0
<1>. QED
  BY <1>1 DEF Contains

(* A peer that is not answered yet was not accepted, and is not when it is *)
(* destroyed.                                                              *)
LEMMA DestroyedUnaccepted ==
  ASSUME NEW p \in Peer, PeerTold(p), Unanswered(p)
  PROVE  ~Accepted(p) /\ ~Accepted(Destroyed(p))
<1>1. Destroyed(p).state = "NONE"
  BY DestroyedType
<1>2. CASE p.state = "PENDING"
  <2>1. p.log = <<>> /\ Destroyed(p).log = <<>>
    BY <1>2 DEF PeerTold, Destroyed, Peer
  <2>. QED
    BY <1>1, <1>2, <2>1 DEF Accepted
<1>3. CASE p.state = "REQUESTED"
  <2>1. p.log = <<"added">>
    BY <1>3 DEF PeerTold
  <2>2. Told(p, <<"removed">>) \in Peer
        /\ Told(p, <<"removed">>).log = <<"added", "removed">>
    BY <2>1, ToldPeer, PeerLogs
  <2>3. Destroyed(p).log = <<"added", "removed">>
    BY <1>3, <2>2 DEF Destroyed, Peer
  <2>. QED
    BY <1>1, <1>3, <2>1, <2>3 DEF Accepted
<1>. QED
  BY <1>2, <1>3 DEF Unanswered

(* What a step may keep of a slot: its peer, and at most its answer.       *)
LEMMA SameAnswer ==
  ASSUME NEW k \in Slots, NEW p, NEW x, NEW x2,
         AnswerFits(k, p, x), x2.answer \subseteq x.answer,
         Unopened(x2) => Unopened(x)
  PROVE  AnswerFits(k, p, x2)
  BY DEF AnswerFits, Vouched

LEMMA NoAnswerFits ==
  ASSUME NEW k \in Slots, NEW p, NEW x, x.answer = {},
         p.state # "REQUESTED", ~Accepted(p)
  PROVE  AnswerFits(k, p, x)
  BY DEF AnswerFits, Vouched

(* A request given up: nothing that was answered can accept it.            *)
LEMMA DestroyedAnswer ==
  ASSUME NEW k \in Slots, NEW p \in Peer, PeerTold(p), Unanswered(p),
         NEW x, NEW x2, AnswerFits(k, p, x), ~Unopened(x2),
         \A a \in x2.answer : a \in x.answer \/ ~a.accepted
  PROVE  AnswerFits(k, Destroyed(p), x2)
<1>1. ~Accepted(p) /\ ~Accepted(Destroyed(p)) /\ Destroyed(p).state = "NONE"
  BY DestroyedUnaccepted, DestroyedType
<1>2. \A a \in x2.answer : ~a.accepted
  BY <1>1 DEF AnswerFits, Vouched
<1>. QED
  BY <1>1, <1>2 DEF AnswerFits, Vouched

LEMMA InitAnswerInv == Init => AnswerInv
<1>. SUFFICES ASSUME Init, NEW k \in Slots
              PROVE  AnswerFits(k, NoPeer, NoTcp)
  BY DEF Init, AnswerInv
<1>1. ~Accepted(NoPeer) /\ NoPeer.state # "REQUESTED" /\ NoTcp.answer = {}
  BY DEF NoPeer, NoTcp, Accepted
<1>. QED
  BY <1>1, NoAnswerFits

LEMMA LeftAnswer ==
  ASSUME NEW x \in Tcp, NEW end \in Ends
  PROVE  Left(x, end).answer \subseteq x.answer
  BY DEF Left, NoTcp, Tcp, Ends

LEMMA NextAnswerInv ==
  ASSUME TypeOK, TypeOK', PeerInv, AnswerInv, [Next]_vars
  PROVE  AnswerInv'
<1>. SUFFICES ASSUME NEW k \in Slots
              PROVE  AnswerFits(k, peer'[k], tcp'[k])
  BY DEF AnswerInv
<1>. DEFINE p == peer[k]
            x == tcp[k]
            p2 == peer'[k]
            x2 == tcp'[k]
<1>a. /\ p \in Peer /\ p2 \in Peer /\ x \in Tcp /\ x2 \in Tcp
      /\ Fits(k, p, listen.conn, x) /\ AnswerFits(k, p, x) /\ k # Nobody
  BY SlotFacts DEF TypeOK, PeerInv, AnswerInv
<1>b. PeerTold(p) /\ (Unanswered(p) <=> listen.conn = k) /\ (Unopened(x) => p = NoPeer)
  BY <1>a DEF Fits
<1>c. Unanswered(p) => ~Unopened(x)
  BY <1>b DEF NoPeer, Unanswered
<1>. HIDE DEF p, x, p2, x2
<1>1. ASSUME p2 = p, x2.answer \subseteq x.answer, Unopened(x2) => Unopened(x)
      PROVE  AnswerFits(k, p2, x2)
  BY <1>1, <1>a, SameAnswer
<1>2. ASSUME p2 = Destroyed(p), Unanswered(p), x2.answer \subseteq x.answer,
             Unopened(x2) => Unopened(x)
      PROVE  AnswerFits(k, p2, x2)
  BY <1>2, <1>a, <1>b, <1>c, DestroyedAnswer
<1>3. ASSUME StopListen
      PROVE  AnswerFits(k, p2, x2)
  <2>1. x2.answer \subseteq x.answer /\ (Unopened(x2) => Unopened(x))
    <3>1. x2 = IF "server" \in x.ends THEN Left(x, "server") ELSE x
      BY <1>3 DEF StopListen, x, x2
    <3>. QED
      BY <1>a, <3>1, LeftAnswer, LeftUnopened DEF Ends
  <2>2. p2 = IF k = listen.conn THEN Destroyed(p) ELSE p
    BY <1>3 DEF StopListen, p, p2
  <2>. QED
    BY <1>1, <1>2, <1>b, <2>1, <2>2
<1>4. ASSUME NEW j \in Slots, ServerConnected(j)
      PROVE  AnswerFits(k, p2, x2)
  <2>1. x2.answer = x.answer /\ (Unopened(x2) => Unopened(x))
    BY <1>4, <1>a DEF ServerConnected, Unopened, Tcp, x, x2
  <2>2. CASE k = j
    <3>1. Unopened(x) /\ p = NoPeer /\ listen.conn # k
      BY <1>4, <1>b, <1>c, <2>2 DEF ServerConnected, Unopened, NoPeer, Unanswered, x
    <3>2. p2 = [p EXCEPT !.state = "PENDING"]
      BY <1>4, <2>2, <3>1 DEF ServerConnected, Replaced, p, p2
    <3>3. p2.state = "PENDING" /\ p2.log = <<>>
      BY <3>1, <3>2 DEF NoPeer
    <3>4. ~Accepted(p2) /\ x2.answer = {}
      BY <1>a, <2>1, <3>1, <3>3 DEF Accepted, AnswerFits
    <3>. QED
      BY <3>3, <3>4, NoAnswerFits
  <2>3. CASE k # j
    <3>1. p2 = IF k = listen.conn THEN Destroyed(p) ELSE p
      BY <1>4, <2>3 DEF ServerConnected, Replaced, p, p2
    <3>. QED
      BY <1>1, <1>2, <1>b, <2>1, <3>1
  <2>. QED
    BY <2>2, <2>3
<1>5. ASSUME NEW j \in Slots, ServerDisconnected(j)
      PROVE  AnswerFits(k, p2, x2)
  <2>1. x2.answer \subseteq x.answer /\ (Unopened(x2) => Unopened(x))
    BY <1>5, <1>a, LeftAnswer, LeftUnopened DEF ServerDisconnected, TypeOK, Ends, x, x2
  <2>2. p2 = p \/ (p2 = Destroyed(p) /\ k = listen.conn)
    BY <1>5 DEF ServerDisconnected, ClearsPending, TypeOK, p, p2
  <2>. QED
    BY <1>1, <1>2, <1>b, <2>1, <2>2
<1>6. ASSUME NEW j \in Slots, NEW whole \in BOOLEAN, ServerRaw(j, whole)
      PROVE  AnswerFits(k, p2, x2)
  <2>1. x2.answer = x.answer /\ (Unopened(x2) => Unopened(x))
    BY <1>6, <1>a DEF ServerRaw, Unopened, TypeOK, Tcp, x, x2
  <2>2. CASE p2 = p
    BY <1>1, <2>1, <2>2
  <2>3. CASE p2 # p
    <3>1. /\ k = j /\ Agreed(Owner(k)) # {} /\ p.state = "PENDING"
          /\ p2 = [state |-> "REQUESTED", log |-> <<"added">>,
                   v |-> CHOOSE v \in Agreed(Owner(k)) : TRUE]
      BY <1>6, <2>3 DEF ServerRaw, TypeOK, p, p2
    <3>2. /\ p2.state = "REQUESTED" /\ p2.log = <<"added">>
          /\ p2.v \in Agreed(Owner(k))
      BY <3>1
    <3>3. ~Accepted(p) /\ ~Accepted(p2)
      BY <1>a, <1>b, <3>1, <3>2, DestroyedUnaccepted DEF Accepted, Unanswered
    <3>. QED
      BY <1>a, <2>1, <3>2, <3>3 DEF AnswerFits, Vouched
  <2>. QED
    BY <2>2, <2>3
<1>7. ASSUME NEW j \in Slots, Accept(j)
      PROVE  AnswerFits(k, p2, x2)
  <2>1. CASE k # j
    <3>1. p2 = p /\ x2 = x
      BY <1>7, <2>1 DEF Accept, TypeOK, p, p2, x, x2
    <3>. QED
      BY <1>1, <3>1
  <2>2. CASE k = j
    <3>1. /\ p.state = "REQUESTED"
          /\ p2 = [Told(p, <<"connected">>) EXCEPT !.state = "CONNECTED"]
          /\ x2 = [x EXCEPT !.answer = {[accepted |-> TRUE, v |-> p.v]}]
      BY <1>7, <2>2 DEF Accept, Requested, TypeOK, p, p2, x, x2
    <3>2. Told(p, <<"connected">>).v = p.v /\ Told(p, <<"connected">>) \in Peer
      BY <1>a, ToldPeer DEF Told, Peer
    <3>3. p2.state = "CONNECTED" /\ p2.v = p.v
      BY <3>1, <3>2 DEF Peer
    <3>4. x2.answer = {[accepted |-> TRUE, v |-> p.v]}
      BY <1>a, <3>1 DEF Tcp
    <3>5. ~Unopened(x2)
      BY <1>a, <1>c, <3>1 DEF Unopened, Unanswered, Tcp
    <3>6. p.v \in Agreed(Owner(k))
      BY <1>a, <3>1 DEF AnswerFits
    <3>. QED
      BY <3>3, <3>4, <3>5, <3>6 DEF AnswerFits, Vouched, Accepted
  <2>. QED
    BY <2>1, <2>2
<1>8. ASSUME NEW j \in Slots, Reject(j)
      PROVE  AnswerFits(k, p2, x2)
  <2>1. CASE k # j
    <3>1. p2 = p /\ x2 = x
      BY <1>8, <2>1 DEF Reject, TypeOK, p, p2, x, x2
    <3>. QED
      BY <1>1, <3>1
  <2>2. CASE k = j
    <3>1. /\ p.state = "REQUESTED" /\ p2 = Destroyed(p)
          /\ x2 = [x EXCEPT !.answer = {[accepted |-> FALSE, v |-> 0]}]
      BY <1>8, <2>2 DEF Reject, Requested, TypeOK, p, p2, x, x2
    <3>2. \A a \in x2.answer : ~a.accepted
      BY <1>a, <3>1 DEF Tcp
    <3>3. Unanswered(p) /\ ~Unopened(x2)
      BY <1>a, <1>c, <3>1 DEF Unopened, Unanswered, Tcp
    <3>. QED
      BY <1>a, <1>b, <3>1, <3>2, <3>3, DestroyedAnswer
  <2>. QED
    BY <2>1, <2>2
<1>9. ASSUME NEW j \in Slots, PeerDisconnect(j)
      PROVE  AnswerFits(k, p2, x2)
  <2>1. x2 = x
    BY <1>9 DEF PeerDisconnect, x, x2
  <2>2. CASE k # j
    BY <1>1, <1>9, <2>1, <2>2 DEF PeerDisconnect, TypeOK, p, p2
  <2>3. CASE k = j
    <3>. DEFINE gone == Told(p, <<"disconnected">>)
    <3>1. p.state = "CONNECTED" /\ p2 = Destroyed(gone)
      BY <1>9, <2>3 DEF PeerDisconnect, TypeOK, p, p2
    <3>2. /\ gone \in Peer /\ gone.state = "CONNECTED" /\ gone.v = p.v
          /\ gone.log = <<"added", "connected", "disconnected">>
      BY <1>a, <1>b, <3>1, ToldPeer, PeerLogs DEF Told, Peer, PeerTold
    <3>. HIDE DEF gone
    <3>3. /\ Told(gone, <<"removed">>) \in Peer
          /\ Told(gone, <<"removed">>).v = gone.v
          /\ Told(gone, <<"removed">>).log
               = <<"added", "connected", "disconnected", "removed">>
      BY <3>2, ToldPeer, PeerLogs DEF Told, Peer
    <3>4. Destroyed(gone) = [Told(gone, <<"removed">>) EXCEPT !.state = "NONE"]
      BY <3>2 DEF Destroyed
    <3>5. /\ p2.log = <<"added", "connected", "disconnected", "removed">>
          /\ p2.v = p.v
      BY <3>1, <3>2, <3>3, <3>4 DEF Peer
    <3>6. Accepted(p) /\ Accepted(p2)
      BY <3>1, <3>5 DEF Accepted
    <3>. QED
      BY <1>a, <2>1, <3>5, <3>6 DEF AnswerFits, Vouched
  <2>. QED
    BY <2>2, <2>3
<1>10. ASSUME NEW j \in Slots, NEW sent \in BOOLEAN, ClientConnected(j, sent)
       PROVE  AnswerFits(k, p2, x2)
  <2>1. CASE k # j
    BY <1>1, <1>10, <2>1 DEF ClientConnected, TypeOK, p, p2, x, x2
  <2>2. CASE k = j
    <3>1. p2 = NoPeer /\ x2.answer = {}
      BY <1>10, <2>2 DEF ClientConnected, TypeOK, NoTcp, p2, x2
    <3>. QED
      BY <3>1, NoAnswerFits DEF NoPeer, Accepted
  <2>. QED
    BY <2>1, <2>2
<1>11. ASSUME NEW j \in Slots, NEW whole \in BOOLEAN, ClientRaw(j, whole)
       PROVE  AnswerFits(k, p2, x2)
  <2>1. x2.answer \subseteq x.answer /\ (Unopened(x2) => Unopened(x))
    BY <1>11, <1>a DEF ClientRaw, Close, Unopened, TypeOK, Tcp, x, x2
  <2>. QED
    BY <1>1, <1>11, <2>1 DEF ClientRaw, p, p2
<1>12. ASSUME NEW j \in Slots, ClientDisconnected(j)
       PROVE  AnswerFits(k, p2, x2)
  <2>1. x2.answer \subseteq x.answer /\ (Unopened(x2) => Unopened(x))
    BY <1>12, <1>a, LeftAnswer, LeftUnopened DEF ClientDisconnected, TypeOK, Ends, x, x2
  <2>. QED
    BY <1>1, <1>12, <2>1 DEF ClientDisconnected, p, p2
<1>13. ASSUME NEW j \in Slots, Break(j)
       PROVE  AnswerFits(k, p2, x2)
  <2>1. x2.answer \subseteq x.answer /\ (Unopened(x2) => Unopened(x))
    BY <1>13, <1>a DEF Break, Unopened, TypeOK, Tcp, x, x2
  <2>. QED
    BY <1>1, <1>13, <2>1 DEF Break, p, p2
<1>14. ASSUME NEW c \in Ctrls, Disconnect(c)
       PROVE  AnswerFits(k, p2, x2)
  <2>1. x2.answer \subseteq x.answer /\ (Unopened(x2) => Unopened(x))
    BY <1>14, <1>a, LeftAnswer, LeftUnopened DEF Disconnect, TypeOK, Ends, x, x2
  <2>. QED
    BY <1>1, <1>14, <2>1 DEF Disconnect, p, p2
<1>15. ASSUME \/ StartListen \/ UNCHANGED vars
              \/ \E c \in Ctrls : Connect(c)
       PROVE  AnswerFits(k, p2, x2)
  BY <1>1, <1>15 DEF StartListen, Connect, vars, p, p2, x, x2
<1>. QED
  BY <1>3, <1>4, <1>5, <1>6, <1>7, <1>8, <1>9, <1>10, <1>11, <1>12, <1>13,
     <1>14, <1>15 DEF Next, p2, x2

(* A controller believes itself connected only to a device whose           *)
(* application was told so of this very connection, at the same version,   *)
(* which is the greatest of both: the invariants above make up for the     *)
(* controller's own check, which never fails.                              *)
THEOREM OnlyConnectedTogether == Spec => ConnectedTogether
<1>. DEFINE Together ==
       \A c \in Ctrls :
         ctrl[c].state # "CONNECTED" /\ ctrl'[c].state = "CONNECTED" =>
            \E k \in Slots :
                /\ k = ctrl[c].conn
                /\ Contains(peer[k].log, "connected")
                /\ ctrl'[c].v = peer[k].v
                /\ Greatest(c, ctrl'[c].v)
<1>1. TypeOK /\ PeerInv /\ ReadsOwn /\ AnswerInv /\ [Next]_vars => [Together]_vars
  <2>. SUFFICES ASSUME TypeOK, PeerInv, ReadsOwn, AnswerInv, Next, NEW c \in Ctrls,
                       ctrl[c].state # "CONNECTED", ctrl'[c].state = "CONNECTED"
                PROVE  \E k \in Slots :
                         /\ k = ctrl[c].conn
                         /\ Contains(peer[k].log, "connected")
                         /\ ctrl'[c].v = peer[k].v
                         /\ Greatest(c, ctrl'[c].v)
    BY DEF vars
  <2>1. ASSUME NEW j \in Slots, NEW sent \in BOOLEAN, ClientConnected(j, sent)
        PROVE  FALSE
    BY <2>1, SlotFacts DEF ClientConnected, TypeOK, Controller
  <2>2. ASSUME NEW j \in Slots, ClientDisconnected(j)
        PROVE  FALSE
    BY <2>2, SlotFacts DEF ClientDisconnected, Retried, TypeOK, Controller
  <2>3. ASSUME NEW d \in Ctrls, Connect(d)
        PROVE  FALSE
    <3>1. d = c
      BY <2>3 DEF Connect, TypeOK
    <3>2. Told(ctrl[c], <<"connecting">>) \in Controller
      BY ToldController DEF TypeOK, Tellings
    <3>. QED
      BY <2>3, <3>1, <3>2 DEF Connect, TypeOK, Controller
  <2>4. ASSUME NEW d \in Ctrls, Disconnect(d)
        PROVE  FALSE
    <3>1. d = c
      BY <2>4 DEF Disconnect, TypeOK
    <3>2. Told(ctrl[c], Ending(c)) \in Controller
      BY ToldController DEF TypeOK, Ending, Tellings
    <3>. QED
      BY <2>4, <3>1, <3>2 DEF Disconnect, TypeOK, Controller
  <2>5. ASSUME NEW k \in Slots,
               \/ ServerConnected(k) \/ ServerDisconnected(k)
               \/ Accept(k) \/ Reject(k) \/ PeerDisconnect(k) \/ Break(k)
               \/ \E whole \in BOOLEAN : ServerRaw(k, whole)
        PROVE  FALSE
    BY <2>5 DEF ServerConnected, ServerDisconnected, Accept, Reject,
                PeerDisconnect, Break, ServerRaw
  <2>6. ASSUME StartListen \/ StopListen
        PROVE  FALSE
    BY <2>6 DEF StartListen, StopListen
  <2>7. PICK k \in Slots, whole \in BOOLEAN : ClientRaw(k, whole)
    BY <2>1, <2>2, <2>3, <2>4, <2>5, <2>6 DEF Next
  <2>8. /\ ctrl[c] \in Controller /\ ctrl[Owner(k)] \in Controller
        /\ peer[k] \in Peer /\ tcp[k] \in Tcp
    BY SlotFacts DEF TypeOK
  <2>9. c = Owner(k)
    BY <2>7, SlotFacts DEF ClientRaw, TypeOK
  <2>10. ctrl[c].conn = k
    BY <2>7, <2>9 DEF ClientRaw, CanRead, ReadsOwn, Reads
  <2>11. PICK a \in tcp[k].answer :
           ctrl'[c] =
             CASE whole /\ Refused(c, a) ->
                    [Told(ctrl[c], <<"canceled">>)
                       EXCEPT !.state = "NONE", !.conn = Nobody]
               [] whole /\ ~Refused(c, a) ->
                    [Told(ctrl[c], <<"connected">>)
                       EXCEPT !.state = "CONNECTED", !.v = a.v]
               [] OTHER -> [ctrl[c] EXCEPT !.state = "CONNECTING_JSON"]
    BY <2>7, <2>9 DEF ClientRaw, TypeOK
  <2>12. /\ Told(ctrl[c], <<"canceled">>) \in Controller
         /\ Told(ctrl[c], <<"connected">>) \in Controller
    BY <2>8, ToldController DEF Tellings
  <2>13. a.accepted /\ ctrl'[c].v = a.v
    <3>1. whole /\ ~Refused(c, a)
      BY <2>8, <2>11, <2>12 DEF Controller
    <3>. QED
      BY <2>11, <2>12, <3>1 DEF Controller, Refused
  <2>14. Accepted(peer[k]) /\ a.v = peer[k].v /\ peer[k].v \in Agreed(c)
    BY <2>9, <2>11, <2>13 DEF AnswerInv, AnswerFits, Vouched
  <2>15. Contains(peer[k].log, "connected")
    BY <2>8, <2>14, AcceptedWasTold DEF PeerInv, Fits
  <2>. QED
    BY <2>10, <2>13, <2>14, <2>15, AgreedGreatestVersion
<1>2. Spec => []PeerInv
  BY TypeCorrect, InitPeerInv, NextPeerInv, PTL DEF Spec
<1>3. Spec => []ReadsOwn
  BY TypeCorrect, InitReads, NextReads, PTL DEF Spec
<1>4. Spec => []AnswerInv
  BY TypeCorrect, <1>2, InitAnswerInv, NextAnswerInv, PTL DEF Spec
<1>. QED
  BY <1>1, <1>2, <1>3, <1>4, TypeCorrect, PTL DEF Spec, ConnectedTogether

-----------------------------------------------------------------------------
(***************************************************************************)
(* The link monitor                                                        *)
(*                                                                         *)
(* Two facts tie the silence of the link to the state of the monitor: with *)
(* E the time since the last expiry that was served,                       *)
(*     failures * Period + E  <=  silent  <=  (failures + 1) * Period + E  *)
(* where the 1 only counts if a ping is running; the upper bound holds as  *)
(* long as the failures have not broken the link.                          *)
(***************************************************************************)
(* Ticks since the last expiry timer_cb has served, or the restart.        *)
Elapsed == (IF due THEN Period ELSE 0) + (Period - timer)

LowerBound == started => failures * Period + Elapsed <= silent

UpperBound ==
    started /\ failures < Limit =>
        silent <= failures * Period + (IF running THEN Period ELSE 0) + Elapsed

BrokenBy == started /\ failures >= Limit => status = "KO"

IInv == LinkTypeOK /\ LowerBound /\ UpperBound /\ BrokenBy

LEMMA CapType == SilentCap \in Nat /\ SilentCap = Limit * Period + Period + Period
  BY PeriodAssumption, LimitAssumption DEF SilentCap

(* LinkTypeOK in parts no prover has to reason about together.                 *)
Flags == /\ started \in BOOLEAN /\ due \in BOOLEAN
         /\ running \in BOOLEAN /\ socketOk \in BOOLEAN
Counts == /\ timer \in 1..Period /\ failures \in 0..Limit
          /\ silent \in 0..SilentCap /\ idle \in 0..IdleCap
Values == status \in Status /\ told \in Status /\ pongs \subseteq Stamps

LEMMA Parts == LinkTypeOK <=> Flags /\ Counts /\ Values
  BY DEF LinkTypeOK, Flags, Counts, Values

LEMMA PartsNext == LinkTypeOK' <=> Flags' /\ Counts' /\ Values'
  BY DEF LinkTypeOK, Flags, Counts, Values

LEMMA CapNat == SilentCap \in Nat
  BY CapType

LEMMA Products ==
  ASSUME NEW f \in Nat
  PROVE  /\ f * Period \in Nat
         /\ (f + 1) * Period = f * Period + Period
         /\ f <= Limit => f * Period <= Limit * Period
  BY PeriodAssumption, LimitAssumption

LEMMA InitIInv == LinkInit => IInv
<1>. SUFFICES ASSUME LinkInit PROVE IInv
  OBVIOUS
<1>1. LinkTypeOK
  <2>1. Flags
    BY DEF LinkInit, Flags
  <2>2. Counts
    BY PeriodAssumption, LimitAssumption, IdleAssumption, CapNat DEF LinkInit, Counts
  <2>3. Values
    BY DEF LinkInit, Values, Status
  <2>. QED  BY <2>1, <2>2, <2>3, Parts
<1>. QED  BY <1>1 DEF LinkInit, IInv, LowerBound, UpperBound, BrokenBy

LEMMA StatusType ==
  ASSUME LinkTypeOK, NEW s \in Status, SetLinkStatus(s)
  PROVE  status' \in Status /\ idle' \in 0..IdleCap
  BY IdleAssumption DEF LinkTypeOK, SetLinkStatus

LEMMA TimerCbIInv ==
  ASSUME IInv, NEW out \in Outcomes, TimerCb(out)
  PROVE  IInv'
<1>. DEFINE f == IF running THEN failures + 1 ELSE failures
            s == IF running /\ Breaks(f) THEN "KO" ELSE status
<1>. USE PeriodAssumption, LimitAssumption
<1>1. /\ f \in Nat /\ failures \in Nat /\ failures <= Limit /\ failures <= f
      /\ AfterSend(s, out) \in Status
      /\ f <= failures + 1
  BY DEF IInv, LinkTypeOK, Status, AfterSend
<1>2. /\ failures' = IF f > Limit THEN Limit ELSE f
      /\ SetLinkStatus(AfterSend(s, out))
      /\ due /\ due' = FALSE /\ running' = TRUE
      /\ started /\ started' /\ timer' = timer /\ silent' = silent
  BY DEF TimerCb, IInv, LinkTypeOK
<1>3. LinkTypeOK'
  <2>1. status' \in Status /\ idle' \in 0..IdleCap
    BY <1>1, <1>2, StatusType DEF IInv
  <2>2. failures' \in 0..Limit
    BY <1>1, <1>2
  <2>3. pongs' \subseteq Stamps /\ socketOk' \in BOOLEAN /\ told' = told
    BY DEF TimerCb, IInv, LinkTypeOK, Stamps
  <2>. QED  BY <1>2, <2>1, <2>2, <2>3 DEF IInv, LinkTypeOK
<1>4. timer \in 1..Period /\ silent \in Nat
  BY CapType DEF IInv, LinkTypeOK
<1>5. Elapsed = Period + (Period - timer) /\ Elapsed' = Period - timer
  BY <1>2, <1>4 DEF Elapsed
<1>6. LowerBound'
  <2>1. failures * Period + Period + (Period - timer) <= silent
    BY <1>1, <1>2, <1>4, <1>5, Products DEF IInv, LowerBound
  <2>2. failures' \in {failures, failures + 1}
    BY <1>1, <1>2
  <2>3. failures' * Period <= failures * Period + Period
    <3>1. /\ (failures + 1) * Period = failures * Period + Period
          /\ failures * Period \in Nat
      BY <1>1, Products
    <3>2. CASE failures' = failures
      BY <3>1, <3>2
    <3>3. CASE failures' = failures + 1
      BY <3>1, <3>3
    <3>. QED  BY <2>2, <3>2, <3>3
  <2>. QED  BY <1>1, <1>2, <1>4, <1>5, <2>1, <2>2, <2>3, Products DEF LowerBound
<1>7. UpperBound'
  <2>. SUFFICES ASSUME failures' < Limit
                PROVE  silent <= failures' * Period + Period + (Period - timer)
    BY <1>2, <1>5 DEF UpperBound
  <2>1. failures' = f /\ failures < Limit
    BY <1>1, <1>2
  <2>2. silent <= failures * Period + (IF running THEN Period ELSE 0)
                    + Period + (Period - timer)
    BY <1>1, <1>2, <1>4, <1>5, <2>1, Products DEF IInv, UpperBound
  <2>3. CASE running
    BY <1>1, <1>5, <2>1, <2>2, <2>3, Products
  <2>4. CASE ~running
    BY <1>1, <1>5, <2>1, <2>2, <2>4, Products
  <2>. QED  BY <2>3, <2>4
<1>8. BrokenBy'
  <2>. SUFFICES ASSUME failures' >= Limit
                PROVE  status' = "KO"
    BY DEF BrokenBy
  <2>1. s = "KO"
    <3>1. CASE running
      BY <1>1, <1>2, <3>1 DEF Breaks
    <3>2. CASE ~running
      BY <1>1, <1>2, <3>2 DEF IInv, BrokenBy
    <3>. QED  BY <3>1, <3>2
  <2>. QED  BY <1>2, <2>1 DEF SetLinkStatus, AfterSend
<1>. QED  BY <1>3, <1>6, <1>7, <1>8 DEF IInv

LEMMA TickIInv ==
  ASSUME IInv, Tick
  PROVE  IInv'
<1>. USE PeriodAssumption, LimitAssumption
<1>1. /\ timer \in 1..Period /\ failures \in Nat /\ failures <= Limit
      /\ silent \in Nat /\ silent <= SilentCap
      /\ failures * Period \in Nat /\ failures * Period <= Limit * Period
      /\ due \in BOOLEAN
  BY CapType, Products DEF IInv, LinkTypeOK
<1>2. LinkTypeOK'
  BY <1>1, CapType DEF Tick, IInv, LinkTypeOK
<1>3. Elapsed \in Nat /\ Elapsed' = Elapsed + 1 /\ Elapsed' < Period + Period
  <2>1. CASE timer = 1
    <3>1. due = FALSE /\ due' = TRUE /\ timer' = Period
      BY <1>1, <2>1 DEF Tick
    <3>. QED  BY <2>1, <3>1 DEF Elapsed
  <2>2. CASE timer # 1
    <3>1. due' = due /\ timer' = timer - 1
      BY <1>1, <2>2 DEF Tick
    <3>. QED  BY <1>1, <2>2, <3>1 DEF Elapsed
  <2>. QED  BY <2>1, <2>2
<1>4. /\ silent' = IF silent < SilentCap THEN silent + 1 ELSE silent
      /\ failures' = failures /\ status' = status /\ running' = running
      /\ started /\ started'
  BY DEF Tick
<1>5. LowerBound'
  BY <1>1, <1>3, <1>4, CapType DEF IInv, LowerBound
<1>6. UpperBound'
  BY <1>1, <1>3, <1>4, CapType DEF IInv, UpperBound
<1>. QED  BY <1>2, <1>4, <1>5, <1>6 DEF IInv, BrokenBy

(* A receipt, or the start, puts everything back.                          *)
LEMMA RestartIInv ==
  ASSUME LinkTypeOK', RestartPing, silent' = 0
  PROVE  IInv'
<1>1. Elapsed' = 0 /\ failures' = 0
  BY PeriodAssumption DEF RestartPing, Elapsed
<1>. QED  BY <1>1, PeriodAssumption, LimitAssumption
          DEF IInv, LowerBound, UpperBound, BrokenBy, LinkTypeOK

(* The remaining steps of a started monitor leave its counts alone, and    *)
(* can break the link but not mend it.                                     *)
LEMMA FrameIInv ==
  ASSUME IInv, LinkTypeOK', status = "KO" => status' = "KO",
         UNCHANGED <<started, timer, due, running, failures, silent>>
  PROVE  IInv'
  BY DEF IInv, LowerBound, UpperBound, BrokenBy, Elapsed

LEMMA NextIInv == IInv /\ [LinkNext]_linkVars => IInv'
<1>. SUFFICES ASSUME IInv, [LinkNext]_linkVars PROVE IInv'
  OBVIOUS
<1>. USE PeriodAssumption, LimitAssumption, IdleAssumption
<1>1. CASE Start
  <2>1. Flags'
    BY <1>1 DEF Start, RestartPing, Flags
  <2>2. Counts'
    BY <1>1, CapNat, Parts DEF Start, RestartPing, IInv, Counts
  <2>3. Values'
    BY <1>1, Parts DEF Start, IInv, Values, Status
  <2>. QED  BY <1>1, <2>1, <2>2, <2>3, PartsNext, RestartIInv DEF Start
<1>2. CASE NotifyLinkStatusIdle
  <2>1. LinkTypeOK'
    BY <1>2 DEF NotifyLinkStatusIdle, IInv, LinkTypeOK
  <2>. QED  BY <1>2, <2>1, FrameIInv DEF NotifyLinkStatusIdle
<1>3. CASE Tick
  BY <1>3, TickIInv
<1>4. ASSUME NEW out \in Outcomes, TimerCb(out)
      PROVE  IInv'
  BY <1>4, TimerCbIInv
<1>5. ASSUME NEW stamp \in Stamps, NEW copy \in BOOLEAN, RecvPong(stamp, copy)
      PROVE  IInv'
  <2>1. status' \in Status /\ idle' \in 0..IdleCap
    BY <1>5, StatusType DEF RecvPong, IInv, LinkTypeOK, Status
  <2>2. Flags'
    BY <1>5, Parts DEF RecvPong, RestartPing, IInv, Flags
  <2>3. Counts'
    BY <1>5, <2>1, CapNat DEF RecvPong, RestartPing, Counts
  <2>4. Values'
    BY <1>5, <2>1, Parts DEF RecvPong, IInv, Values
  <2>. QED  BY <1>5, <2>2, <2>3, <2>4, PartsNext, RestartIInv DEF RecvPong
<1>6. ASSUME NEW stamp \in Stamps, LosePong(stamp)
      PROVE  IInv'
  <2>1. LinkTypeOK'
    BY <1>6 DEF LosePong, IInv, LinkTypeOK
  <2>. QED  BY <1>6, <2>1, FrameIInv DEF LosePong
<1>7. ASSUME NEW out \in Outcomes, RecvOther(out)
      PROVE  IInv'
  <2>1. status' \in Status /\ idle' \in 0..IdleCap
    BY <1>7, StatusType DEF RecvOther, AfterSend, IInv, LinkTypeOK, Status
  <2>2. Flags'
    BY <1>7, Parts DEF RecvOther, RestartPing, IInv, Flags
  <2>3. Counts'
    BY <1>7, <2>1, CapNat DEF RecvOther, RestartPing, Counts
  <2>4. Values'
    BY <1>7, <2>1, Parts DEF RecvOther, IInv, Values
  <2>. QED  BY <1>7, <2>2, <2>3, <2>4, PartsNext, RestartIInv DEF RecvOther
<1>8. ASSUME NEW out \in Outcomes, SendData(out)
      PROVE  IInv'
  <2>0. socketOk' \in BOOLEAN
    BY <1>8 DEF SendData
  <2>1. status' \in Status /\ idle' \in 0..IdleCap
    BY <1>8, StatusType DEF SendData, AfterSend, IInv, LinkTypeOK, Status
  <2>2. LinkTypeOK'
    BY <1>8, <2>0, <2>1 DEF SendData, IInv, LinkTypeOK
  <2>. QED  BY <1>8, <2>2, FrameIInv DEF SendData, SetLinkStatus, AfterSend
<1>9. CASE Stop
  <2>1. Flags'
    BY <1>9, Parts DEF Stop, IInv, Flags
  <2>2. Counts'
    BY <1>9, Parts DEF Stop, IInv, Counts
  <2>3. Values'
    BY <1>9, Parts DEF Stop, IInv, Values
  <2>4. LinkTypeOK'
    BY <2>1, <2>2, <2>3, PartsNext
  <2>. QED  BY <1>9, <2>4 DEF Stop, IInv, LowerBound, UpperBound, BrokenBy
<1>10. CASE UNCHANGED linkVars
  <2>1. LinkTypeOK'
    BY <1>10 DEF linkVars, IInv, LinkTypeOK
  <2>. QED  BY <1>10, <2>1, FrameIInv DEF linkVars
<1>. QED  BY <1>1, <1>2, <1>3, <1>4, <1>5, <1>6, <1>7, <1>8, <1>9, <1>10
          DEF LinkNext, Unstopped

LEMMA SpecIInv == LinkSpec => []IInv
  BY InitIInv, NextIInv, PTL DEF LinkSpec

(* The monitor's counters stay within their bounds.                        *)
THEOREM LinkTypeCorrect == LinkSpec => []LinkTypeOK
  BY SpecIInv, PTL DEF IInv

(* For every period and limit, the link is declared broken at most two     *)
(* periods later than Limit periods of silence.                            *)
THEOREM SilenceIsDetected == LinkSpec => []SilenceDetected
<1>1. IInv => SilenceDetected
  <2>. SUFFICES ASSUME IInv, started, silent > (Limit + 2) * Period - 1, status # "KO"
                PROVE  FALSE
    BY DEF SilenceDetected
  <2>1. failures \in Nat /\ failures + 1 <= Limit /\ timer \in 1..Period
    BY LimitAssumption, PeriodAssumption DEF IInv, LinkTypeOK, BrokenBy
  <2>2. (failures + 1) * Period <= Limit * Period
    BY <2>1, Products
  <2>3. silent <= failures * Period + Period + Period + (Period - timer)
    <3>1. /\ silent <= failures * Period + (IF running THEN Period ELSE 0) + Elapsed
          /\ failures * Period \in Nat /\ silent \in Nat
      BY <2>1, Products, CapNat, LimitAssumption DEF IInv, UpperBound, LinkTypeOK
    <3>2. Elapsed \in Nat /\ Elapsed <= Period + (Period - timer)
      BY <2>1, PeriodAssumption DEF Elapsed
    <3>. QED  BY <2>1, <3>1, <3>2, PeriodAssumption
  <2>4. silent \in Nat /\ (Limit + 2) * Period = Limit * Period + Period + Period
    BY CapType, PeriodAssumption, LimitAssumption DEF IInv, LinkTypeOK, SilentCap
  <2>. QED  BY <2>1, <2>2, <2>3, <2>4, Products, PeriodAssumption, LimitAssumption
<1>. QED  BY <1>1, SpecIInv, PTL

(* For every period and limit, the pings break the link only after Limit   *)
(* whole periods without a receipt.                                        *)
THEOREM BreaksOnlyAfterSilence == LinkSpec => KoAfterSilence
<1>1. IInv /\ [LinkNext]_linkVars =>
        [(started /\ status = "OK" /\ status' = "KO" /\ socketOk')
            => silent >= Limit * Period]_linkVars
  <2>. SUFFICES ASSUME IInv, LinkNext, started, status = "OK", status' = "KO", socketOk'
                PROVE  silent >= Limit * Period
    BY DEF linkVars
  <2>1. PICK out \in Outcomes : TimerCb(out)
    BY DEF LinkNext, Unstopped, Start, NotifyLinkStatusIdle, Tick, RecvPong, RecvOther,
           SendData, LosePong, Stop, SetLinkStatus, AfterSend
  <2>2. failures + 1 >= Limit /\ failures \in Nat /\ due /\ timer \in 1..Period
    <3>. DEFINE f == IF running THEN failures + 1 ELSE failures
                s == IF running /\ Breaks(f) THEN "KO" ELSE status
    <3>1. status' = AfterSend(s, out) /\ socketOk' = (out # "error") /\ due
      BY <2>1 DEF TimerCb, SetLinkStatus
    <3>2. running /\ Breaks(f)
      BY <3>1 DEF AfterSend
    <3>. QED  BY <3>1, <3>2, LimitAssumption DEF Breaks, IInv, LinkTypeOK
  <2>3. failures * Period + Period >= Limit * Period
    <3>1. failures + 1 \in Nat /\ Limit \in Nat
      BY <2>2, LimitAssumption
    <3>2. Limit * Period <= (failures + 1) * Period
      BY <3>1, <2>2, PeriodAssumption
    <3>. QED  BY <3>2, <2>2, Products
  <2>4. failures * Period + Elapsed <= silent
    BY DEF IInv, LowerBound
  <2>5. Elapsed = Period + (Period - timer) /\ silent \in Nat
    BY <2>2, CapType DEF Elapsed, IInv, LinkTypeOK
  <2>. QED  BY <2>2, <2>3, <2>4, <2>5, Products, PeriodAssumption, LimitAssumption
<1>. QED  BY <1>1, SpecIInv, PTL DEF LinkSpec, KoAfterSilence

(* A step that sets the status tells it at once, or leaves a callback that *)
(* will; a change is never taken for told while one is pending.            *)
LEMMA ChangeIsTold ==
  ASSUME LinkTypeOK, ToldStatus, started, NEW s, SetLinkStatus(s), told' = told
  PROVE  ToldStatus'
<1>. SUFFICES ASSUME idle' = 0 PROVE told' = status'
  BY DEF ToldStatus
<1>1. s = status /\ idle = 0
  BY IdleAssumption DEF LinkTypeOK, SetLinkStatus
<1>. QED  BY <1>1 DEF ToldStatus, SetLinkStatus

(* For every bound of pending callbacks, a user with no callback to wait   *)
(* for believes in the present status of the link: no change is dropped,   *)
(* whichever of the timer, a pong or a failed write made it.               *)
THEOREM StatusIsTold == LinkSpec => []ToldStatus
<1>1. LinkInit => ToldStatus
  BY DEF LinkInit, ToldStatus
<1>2. LinkTypeOK /\ ToldStatus /\ [LinkNext]_linkVars => ToldStatus'
  <2>. SUFFICES ASSUME LinkTypeOK, ToldStatus, [LinkNext]_linkVars PROVE ToldStatus'
    OBVIOUS
  <2>1. CASE Start
    BY <2>1 DEF Start, ToldStatus
  <2>2. CASE NotifyLinkStatusIdle
    BY <2>2 DEF NotifyLinkStatusIdle, ToldStatus
  <2>3. CASE Tick
    BY <2>3 DEF Tick, ToldStatus
  <2>4. ASSUME NEW out \in Outcomes, TimerCb(out)
        PROVE  ToldStatus'
    BY <2>4, ChangeIsTold DEF TimerCb
  <2>5. ASSUME NEW stamp \in Stamps, NEW copy \in BOOLEAN, RecvPong(stamp, copy)
        PROVE  ToldStatus'
    BY <2>5, ChangeIsTold DEF RecvPong
  <2>6. ASSUME NEW stamp \in Stamps, LosePong(stamp)
        PROVE  ToldStatus'
    BY <2>6 DEF LosePong, ToldStatus
  <2>7. ASSUME NEW out \in Outcomes, RecvOther(out)
        PROVE  ToldStatus'
    BY <2>7, ChangeIsTold DEF RecvOther
  <2>8. ASSUME NEW out \in Outcomes, SendData(out)
        PROVE  ToldStatus'
    BY <2>8, ChangeIsTold DEF SendData
  <2>9. CASE Stop
    BY <2>9 DEF Stop, ToldStatus
  <2>10. CASE UNCHANGED linkVars
    BY <2>10 DEF linkVars, ToldStatus
  <2>. QED  BY <2>1, <2>2, <2>3, <2>4, <2>5, <2>6, <2>7, <2>8, <2>9, <2>10
            DEF LinkNext, Unstopped
<1>. QED  BY <1>1, <1>2, LinkTypeCorrect, PTL DEF LinkSpec
=============================================================================
