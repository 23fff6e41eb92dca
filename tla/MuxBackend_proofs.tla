-------------------------- MODULE MuxBackend_proofs --------------------------
(***************************************************************************)
(* Proofs about a connection over the multiplexer, for any versions, and   *)
(* any number of connections and of moves of the applications.             *)
(***************************************************************************)
EXTENDS MuxBackendProps, SequenceTheorems, FiniteSetTheorems,
        WellFoundedInduction, TLAPS

\* The sets of which the variables hold values.
CtlSet == [state : {"idle", "pending", "connected"}, range : CtrlRanges,
           v : Versions, chan : BOOLEAN, link : {"OK", "KO"},
           by : Peers \cup {None}, first : 1..(MaxStarts + 1), log : Seq(Events)]
DevSet == [on : BOOLEAN, pending : Peers \cup {None}, chan : Peers \cup {None}]
PeerSet == [state : {"none", "deaf", "pending", "connected", "gone"},
            half : BOOLEAN, started : BOOLEAN, v : Versions,
            link : {"OK", "KO"}, asked : 0..MaxStarts, log : Seq(Events)]
ReqSet == [range : CtrlRanges, asked : 1..MaxStarts]
RespSet == [json : BOOLEAN, v : Versions, by : Peers]

LEMMA TypeParts ==
  TypeOK <=> /\ ctl \in CtlSet /\ dev \in DevSet /\ peer \in [Peers -> PeerSet]
             /\ req \in Seq(ReqSet) /\ resp \in Seq(RespSet)
             /\ starts \in 0..MaxStarts /\ turns \in 0..MaxTurns
  BY DEF TypeOK, CtlSet, DevSet, PeerSet, ReqSet, RespSet

LEMMA TypePartsNext ==
  TypeOK' <=> /\ ctl' \in CtlSet /\ dev' \in DevSet /\ peer' \in [Peers -> PeerSet]
              /\ req' \in Seq(ReqSet) /\ resp' \in Seq(RespSet)
              /\ starts' \in 0..MaxStarts /\ turns' \in 0..MaxTurns
  BY DEF TypeOK, CtlSet, DevSet, PeerSet, ReqSet, RespSet

LEMMA Bounds == MaxStarts \in Nat /\ MaxStarts > 0 /\ MaxTurns \in Nat
  BY RangesAssumption

LEMMA NoneIsNoPeer == None \notin Peers
  BY DEF None, Peers

LEMMA Ranges ==
  ASSUME NEW r \in CtrlRanges
  PROVE  /\ r[1] \in 1..3 /\ r[2] \in 1..3 /\ r[1] <= r[2]
         /\ DevRange[1] \in 1..3 /\ DevRange[2] \in 1..3 /\ DevRange[1] <= DevRange[2]
  BY RangesAssumption DEF Versions

\* A version that is chosen, where there is a common one, is one of both.
LEMMA ChosenIsCommon ==
  ASSUME NEW r \in CtrlRanges, Common(r) # {}
  PROVE  /\ Chosen(r) \in Versions
         /\ Chosen(r) \in r[1]..r[2]
         /\ Chosen(r) \in DevRange[1]..DevRange[2]
<1>1. PICK v : v \in MaxOf(r[1], DevRange[1])..MinOf(r[2], DevRange[2])
  BY DEF Common
<1>. QED
  BY <1>1, Ranges DEF Chosen, MaxOf, MinOf, Versions

-----------------------------------------------------------------------------
\* What the applications are told, one event after another.

LEMMA Logs ==
  ASSUME NEW a, NEW b
  PROVE  Told(<<a>>, <<b>>) = <<a, b>>
<1>. DEFINE log == <<a>> \o <<b>>
<1>1. log \in Seq({a, b}) /\ Len(log) = 2 /\ log[1] = a /\ log[2] = b
  OBVIOUS
<1>. HIDE DEF log
<1>2. log = <<a, b>>
  BY <1>1
<1>. QED  BY <1>2 DEF log, Told

LEMMA Logs3 ==
  ASSUME NEW a, NEW b, NEW c
  PROVE  Told(<<a, b>>, <<c>>) = <<a, b, c>>
<1>. DEFINE log == <<a, b>> \o <<c>>
<1>1. log \in Seq({a, b, c}) /\ Len(log) = 3 /\ log[1] = a /\ log[2] = b /\ log[3] = c
  OBVIOUS
<1>. HIDE DEF log
<1>2. log = <<a, b, c>>
  BY <1>1
<1>. QED  BY <1>2 DEF log, Told

LEMMA Logs4 ==
  ASSUME NEW a, NEW b, NEW c, NEW d
  PROVE  Told(<<a, b, c>>, <<d>>) = <<a, b, c, d>>
<1>. DEFINE log == <<a, b, c>> \o <<d>>
<1>1. /\ log \in Seq({a, b, c, d}) /\ Len(log) = 4
      /\ log[1] = a /\ log[2] = b /\ log[3] = c /\ log[4] = d
  OBVIOUS
<1>. HIDE DEF log
<1>2. log = <<a, b, c, d>>
  BY <1>1
<1>. QED  BY <1>2 DEF log, Told

LEMMA Logs5 ==
  ASSUME NEW a, NEW b, NEW c, NEW d, NEW e
  PROVE  Told(<<a, b, c, d>>, <<e>>) = <<a, b, c, d, e>>
<1>. DEFINE log == <<a, b, c, d>> \o <<e>>
<1>1. /\ log \in Seq({a, b, c, d, e}) /\ Len(log) = 5
      /\ log[1] = a /\ log[2] = b /\ log[3] = c /\ log[4] = d /\ log[5] = e
  OBVIOUS
<1>. HIDE DEF log
<1>2. log = <<a, b, c, d, e>>
  BY <1>1
<1>. QED  BY <1>2 DEF log, Told

LEMMA ToldType ==
  ASSUME NEW log \in Seq(Events), NEW e \in Events
  PROVE  Told(log, <<e>>) \in Seq(Events)
  BY DEF Told

LEMMA EventsAre ==
  {"connecting", "connected", "disconnected", "canceled", "added", "conn_req",
   "removed"} \subseteq Events
  BY DEF Events

LEMMA AbsentType == Absent \in PeerSet
  BY Bounds DEF Absent, PeerSet, Versions

LEMMA FreshType ==
  ASSUME NEW r \in CtrlRanges, NEW n \in 1..(MaxStarts + 1)
  PROVE  FreshCtl(r, n) \in CtlSet
  BY DEF FreshCtl, CtlSet, Versions

LEMMA RemovedIs ==
  ASSUME NEW pr \in PeerSet
  PROVE  /\ Removed(pr) \in PeerSet
         /\ Removed(pr).state = "gone" /\ ~Removed(pr).started
         /\ Removed(pr).log = Told(pr.log, <<"removed">>)
         /\ Removed(pr).v = pr.v /\ Removed(pr).asked = pr.asked
         /\ Removed(pr).link = "KO"
<1>1. Told(pr.log, <<"removed">>) \in Seq(Events)
  BY ToldType, EventsAre DEF PeerSet
<1>2. Removed(pr) = [pr EXCEPT !.state = "gone", !.half = FALSE, !.started = FALSE,
                       !.link = "KO", !.log = Told(pr.log, <<"removed">>)]
  BY DEF Removed
<1>. QED  BY <1>1, <1>2 DEF PeerSet

LEMMA EndedIs ==
  ASSUME NEW pr \in PeerSet
  PROVE  /\ Ended(pr) \in PeerSet
         /\ Ended(pr).state = "gone" /\ ~Ended(pr).started
         /\ Ended(pr).log = Told(Told(pr.log, <<"disconnected">>), <<"removed">>)
         /\ Ended(pr).v = pr.v /\ Ended(pr).asked = pr.asked
         /\ Ended(pr).link = "KO"
<1>. DEFINE told == [pr EXCEPT !.log = Told(@, <<"disconnected">>)]
<1>1. Told(pr.log, <<"disconnected">>) \in Seq(Events)
  BY ToldType, EventsAre DEF PeerSet
<1>2. /\ told \in PeerSet /\ told.v = pr.v /\ told.asked = pr.asked
      /\ told.log = Told(pr.log, <<"disconnected">>)
  BY <1>1 DEF PeerSet
<1>. HIDE DEF told
<1>3. Ended(pr) = Removed(told)
  BY DEF Ended, told
<1>. QED  BY <1>2, <1>3, RemovedIs

-----------------------------------------------------------------------------
\* The device numbers its connections without a gap, and never takes more
\* requests than were made; only the last one may be pending.
Numbered(n) ==
    /\ \A p \in Peers : peer[p].state # "none" <=> p <= n
    /\ n + Len(req) <= starts
    /\ \A p \in Peers : peer[p].state = "pending" => p = n /\ dev.pending = p

NumberInv == \E n \in 0..MaxStarts : Numbered(n)

LEMMA NextPeerIs ==
  ASSUME NEW n \in 0..MaxStarts, Numbered(n)
  PROVE  NextPeer = n + 1
<1>1. {p \in Peers : peer[p].state # "none"} = 1..n
  BY Bounds DEF Numbered, Peers
<1>2. Cardinality(1..n) = n
  BY FS_Interval
<1>. QED  BY <1>1, <1>2 DEF NextPeer

\* What may become of a peer in a step, with what the application is told.
Same(p, q) ==
    /\ q.state = p.state /\ q.log = p.log /\ q.started = p.started
    /\ q.v = p.v /\ q.asked = p.asked

Taken(p, q) ==
    /\ p.state = "none" /\ ~q.started
    /\ \/ q.state = "deaf" /\ q.log = << >>
       \/ q.state = "pending" /\ q.log = <<"added", "conn_req">>

Answered(p, q) ==
    /\ p.state = "pending" /\ q.state = "connected"
    /\ q.log = Told(p.log, <<"connected">>)
    /\ q.v = p.v /\ q.asked = p.asked

Moved(p, q) ==
    \/ Same(p, q) \/ Taken(p, q) \/ Answered(p, q)
    \/ p.state = "pending" /\ q = Removed(p)
    \/ p.state = "connected" /\ q = Ended(p)

PeersMoved == \A p \in Peers : Moved(peer[p], peer'[p])

LEMMA InitType == Init => TypeOK
<1>. SUFFICES ASSUME Init PROVE TypeOK
  OBVIOUS
<1>1. PICK r \in CtrlRanges : ctl = FreshCtl(r, 1)
  BY DEF Init
<1>2. ctl \in CtlSet
  BY <1>1, FreshType, Bounds
<1>3. dev \in DevSet
  BY DEF Init, DevSet
<1>. QED  BY <1>2, <1>3, AbsentType, TypeParts, Bounds DEF Init

LEMMA InitNumber == Init => NumberInv
<1>. SUFFICES ASSUME Init PROVE Numbered(0)
  BY Bounds DEF NumberInv
<1>. QED  BY DEF Init, Numbered, Absent, Peers

LEMMA PeersKept ==
  ASSUME UNCHANGED peer
  PROVE  PeersMoved
  BY DEF PeersMoved, Moved, Same

\* No step but a request's takes a number or makes a connection pending.
LEMMA NumbersKept ==
  ASSUME NumberInv, starts' = starts, Len(req') <= Len(req),
         Len(req) \in Nat, Len(req') \in Nat, starts \in Nat,
         \A p \in Peers : peer'[p].state # "none" <=> peer[p].state # "none",
         \A p \in Peers : peer'[p].state = "pending" =>
             peer[p].state = "pending" /\ dev'.pending = dev.pending
  PROVE  NumberInv'
<1>1. PICK n \in 0..MaxStarts : Numbered(n)
  BY DEF NumberInv
<1>2. \A p \in Peers : peer'[p].state # "none" <=> p <= n
  BY <1>1 DEF Numbered
<1>3. n + Len(req') <= starts'
  BY <1>1, Bounds DEF Numbered
<1>4. ASSUME NEW p \in Peers, peer'[p].state = "pending"
      PROVE  p = n /\ dev'.pending = p
  BY <1>1, <1>4 DEF Numbered
<1>. QED  BY <1>2, <1>3, <1>4 DEF NumberInv, Numbered

LEMMA TailType ==
  ASSUME NEW S, NEW s \in Seq(S), s # << >>
  PROVE  Head(s) \in S /\ Tail(s) \in Seq(S) /\ Len(Tail(s)) = Len(s) - 1
  OBVIOUS

Step == TypeOK' /\ NumberInv' /\ PeersMoved

LEMMA ConnectStep ==
  ASSUME TypeOK, NumberInv, Connect
  PROVE  Step
<1>. USE TypeParts, Bounds
<1>1. ctl' \in CtlSet
  <2>1. FreshCtl(ctl.range, ctl.first) \in CtlSet
    BY FreshType DEF CtlSet
  <2>2. <<"connecting">> \in Seq(Events)
    BY EventsAre
  <2>. QED  BY <2>1, <2>2 DEF Connect, CtlSet
<1>2. req' \in Seq(ReqSet) /\ Len(req') = Len(req) + 1
  <2>1. [range |-> ctl.range, asked |-> starts + 1] \in ReqSet
    BY DEF Connect, CtlSet, ReqSet
  <2>. QED  BY <2>1 DEF Connect
<1>3. starts' = starts + 1 /\ starts' \in 0..MaxStarts
  BY DEF Connect
<1>4. UNCHANGED <<dev, peer, resp, turns>>
  BY DEF Connect
<1>5. TypeOK'
  BY <1>1, <1>2, <1>3, <1>4, TypePartsNext
<1>6. NumberInv'
  <2>1. PICK n \in 0..MaxStarts : Numbered(n)
    BY DEF NumberInv
  <2>2. Numbered(n)'
    BY <1>2, <1>3, <1>4, <2>1 DEF Numbered
  <2>. QED  BY <2>2 DEF NumberInv
<1>. QED  BY <1>4, <1>5, <1>6, PeersKept DEF Step

\* The steps of the controller and of the channel that only change its own
\* state: what is to be shown of them is the type of ctl.
LEMMA CtlStep ==
  ASSUME TypeOK, NumberInv, ctl' \in CtlSet, resp' \in Seq(RespSet),
         turns' \in 0..MaxTurns, UNCHANGED <<dev, peer, req, starts>>
  PROVE  Step
<1>1. TypeOK'
  BY TypeParts, TypePartsNext
<1>2. NumberInv'
  BY DEF NumberInv, Numbered
<1>. QED  BY <1>1, <1>2, PeersKept DEF Step

LEMMA DisconnectStep ==
  ASSUME TypeOK, NumberInv, Disconnect
  PROVE  Step
<1>. DEFINE end == IF ctl.state = "connected" THEN "disconnected" ELSE "canceled"
<1>1. Told(ctl.log, <<end>>) \in Seq(Events)
  BY ToldType, EventsAre, TypeParts DEF CtlSet
<1>2. ctl' = [ctl EXCEPT !.state = "idle", !.chan = FALSE, !.link = "KO",
                !.by = None, !.log = Told(ctl.log, <<end>>)]
  BY DEF Disconnect
<1>3. ctl' \in CtlSet
  BY <1>1, <1>2, TypeParts DEF CtlSet
<1>4. turns' \in 0..MaxTurns
  BY TypeParts, Bounds DEF Disconnect, Turn
<1>. QED  BY <1>3, <1>4, TypeParts, CtlStep DEF Disconnect

LEMMA RxConnRespStep ==
  ASSUME TypeOK, NumberInv, RxConnResp
  PROVE  Step
<1>. DEFINE m == Head(resp)
<1>1. m \in RespSet /\ resp' \in Seq(RespSet)
  BY TailType, TypeParts DEF RxConnResp
<1>2. /\ Told(ctl.log, <<"canceled">>) \in Seq(Events)
      /\ Told(ctl.log, <<"connected">>) \in Seq(Events)
  BY ToldType, EventsAre, TypeParts DEF CtlSet
<1>. HIDE DEF m
<1>3. \/ ctl' = ctl
      \/ ctl' = [ctl EXCEPT !.state = "idle", !.log = Told(ctl.log, <<"canceled">>)]
      \/ ctl' = [ctl EXCEPT !.state = "connected", !.v = m.v, !.by = m.by,
                  !.chan = TRUE, !.link = "OK", !.log = Told(ctl.log, <<"connected">>)]
  BY DEF RxConnResp, m
<1>4. ctl' \in CtlSet
  BY <1>1, <1>2, <1>3, TypeParts DEF CtlSet, RespSet
<1>. QED  BY <1>1, <1>4, TypeParts, CtlStep DEF RxConnResp

LEMMA CtrlLinkStep ==
  ASSUME TypeOK, NumberInv, CtrlLinkLost \/ CtrlLinkBack
  PROVE  Step
<1>1. PICK status \in {"OK", "KO"} : ctl' = [ctl EXCEPT !.link = status]
  BY DEF CtrlLinkLost, CtrlLinkBack, CtrlLink
<1>2. ctl' \in CtlSet
  BY <1>1, TypeParts DEF CtlSet
<1>3. UNCHANGED <<dev, peer, req, resp, starts, turns>>
  BY DEF CtrlLinkLost, CtrlLinkBack, CtrlLink
<1>. QED  BY <1>2, <1>3, TypeParts, CtlStep

LEMMA ListenStep ==
  ASSUME TypeOK, NumberInv, StartListen \/ StopListen
  PROVE  Step
<1>1. dev' \in DevSet /\ dev'.pending = dev.pending
  BY TypeParts DEF StartListen, StopListen, DevSet
<1>2. turns' \in 0..MaxTurns
  BY TypeParts, Bounds DEF StartListen, StopListen, Turn
<1>3. UNCHANGED <<ctl, peer, req, resp, starts>>
  BY DEF StartListen, StopListen
<1>4. TypeOK'
  BY <1>1, <1>2, <1>3, TypeParts, TypePartsNext
<1>5. NumberInv'
  BY <1>1, <1>3 DEF NumberInv, Numbered
<1>. QED  BY <1>3, <1>4, <1>5, PeersKept DEF Step

LEMMA RxConnReqStep ==
  ASSUME TypeOK, NumberInv, RxConnReq
  PROVE  Step
<1>. USE TypeParts, Bounds
<1>. DEFINE r == Head(req).range
            asked == Head(req).asked
            p == NextPeer
<1>1. /\ req # << >> /\ req' = Tail(req)
      /\ UNCHANGED <<ctl, resp, starts, turns>>
  BY DEF RxConnReq
<1>2. /\ req' \in Seq(ReqSet) /\ Len(req') = Len(req) - 1 /\ Len(req) \in Nat
      /\ Len(req) > 0 /\ r \in CtrlRanges /\ asked \in 1..MaxStarts
  <2>1. req \in Seq(ReqSet)
    OBVIOUS
  <2>2. Head(req) \in ReqSet /\ Tail(req) \in Seq(ReqSet) /\ Len(Tail(req)) = Len(req) - 1
    BY <1>1, <2>1, TailType
  <2>3. Len(req) \in Nat /\ Len(req) > 0
    BY <1>1, <2>1, EmptySeq
  <2>. QED  BY <1>1, <2>2, <2>3 DEF ReqSet
<1>3. CASE UNCHANGED <<dev, peer>>
  <2>1. TypeOK'
    BY <1>1, <1>2, <1>3, TypePartsNext
  <2>2. NumberInv'
    BY <1>1, <1>2, <1>3, NumbersKept
  <2>. QED  BY <1>3, <2>1, <2>2, PeersKept DEF Step
<1>4. CASE ~UNCHANGED <<dev, peer>>
  <2>. DEFINE new == IF Common(r) = {} THEN [Absent EXCEPT !.state = "deaf"]
                     ELSE [Absent EXCEPT !.state = "pending", !.v = Chosen(r),
                             !.asked = asked, !.log = <<"added", "conn_req">>]
  <2>1. /\ dev.pending = None
        /\ dev' = [dev EXCEPT !.pending = p] /\ peer' = [peer EXCEPT ![p] = new]
    BY <1>4 DEF RxConnReq
  <2>2. PICK n \in 0..MaxStarts : Numbered(n)
    BY DEF NumberInv
  <2>3. p = n + 1 /\ p \in Peers
    BY <1>2, <2>2, NextPeerIs DEF Numbered, Peers
  <2>4. new \in PeerSet
    <3>1. <<"added", "conn_req">> \in Seq(Events)
      BY EventsAre
    <3>2. [Absent EXCEPT !.state = "deaf"] \in PeerSet
      BY AbsentType DEF PeerSet
    <3>3. ASSUME Common(r) # {}
          PROVE  [Absent EXCEPT !.state = "pending", !.v = Chosen(r),
                    !.asked = asked, !.log = <<"added", "conn_req">>] \in PeerSet
      <4>1. Chosen(r) \in Versions /\ asked \in 0..MaxStarts
        BY <1>2, <3>3, ChosenIsCommon
      <4>. HIDE DEF r, asked
      <4>. QED  BY <3>1, <4>1, AbsentType DEF PeerSet
    <3>. QED  BY <3>2, <3>3
  <2>5. Taken(peer[p], new) /\ new.state \in {"deaf", "pending"}
    <3>1. peer[p].state = "none"
      BY <2>2, <2>3 DEF Numbered
    <3>2. CASE Common(r) = {}
      BY <3>1, <3>2 DEF Taken, Absent
    <3>3. CASE Common(r) # {}
      BY <3>1, <3>3 DEF Taken, Absent
    <3>. QED  BY <3>2, <3>3
  <2>. HIDE DEF new, p, r, asked
  <2>6. TypeOK'
    <3>1. dev' \in DevSet
      BY <2>1, <2>3 DEF DevSet
    <3>. QED  BY <1>1, <1>2, <2>1, <2>4, <3>1, TypePartsNext
  <2>7. NumberInv'
    <3>1. dev'.pending = p
      BY <2>1 DEF DevSet
    <3>2. \A k \in Peers : peer[k].state # "pending"
      BY <2>1, NoneIsNoPeer DEF NumberInv, Numbered
    <3>3. Numbered(n + 1)'
      BY <1>1, <1>2, <2>1, <2>2, <2>3, <2>5, <3>1, <3>2 DEF Numbered, Peers
    <3>4. n + 1 \in 0..MaxStarts
      BY <2>3 DEF Peers
    <3>. QED  BY <3>3, <3>4 DEF NumberInv
  <2>8. PeersMoved
    BY <2>1, <2>5 DEF PeersMoved, Moved, Same
  <2>. QED  BY <2>6, <2>7, <2>8 DEF Step
<1>. QED  BY <1>3, <1>4

LEMMA AcceptIs ==
  ASSUME TypeOK, NEW p \in Peers, Accept(p)
  PROVE  /\ peer[p].state = "pending" /\ dev.pending = p
         /\ dev' \in DevSet /\ dev'.pending = None
         /\ dev'.chan = IF dev.chan = None THEN p ELSE dev.chan
         /\ peer' \in [Peers -> PeerSet]
         /\ \A k \in Peers : k # p => peer'[k] = peer[k]
         /\ Answered(peer[p], peer'[p])
         /\ peer'[p].started <=> dev.chan = None
<1>1. peer[p] \in PeerSet /\ dev \in DevSet
  BY TypeParts
<1>. DEFINE new == [peer[p] EXCEPT !.state = "connected", !.half = FALSE,
                      !.started = (dev.chan = None), !.link = "OK",
                      !.log = Told(peer[p].log, <<"connected">>)]
<1>2. Told(peer[p].log, <<"connected">>) \in Seq(Events)
  BY <1>1, ToldType, EventsAre DEF PeerSet
<1>3. peer' = [peer EXCEPT ![p] = new]
  BY TypeParts DEF Accept, PeerSet
<1>4. /\ new \in PeerSet /\ new.state = "connected"
      /\ new.log = Told(peer[p].log, <<"connected">>)
      /\ new.v = peer[p].v /\ new.asked = peer[p].asked
      /\ new.started <=> dev.chan = None
  BY <1>1, <1>2 DEF PeerSet
<1>. HIDE DEF new
<1>5. peer[p].state = "pending" /\ dev.pending = p
  BY DEF Accept, IsPending
<1>6. dev' = [dev EXCEPT !.pending = None, !.chan = IF dev.chan = None THEN p ELSE dev.chan]
  BY DEF Accept
<1>7. /\ dev' \in DevSet /\ dev'.pending = None
      /\ dev'.chan = IF dev.chan = None THEN p ELSE dev.chan
  BY <1>1, <1>6 DEF DevSet
<1>8. /\ peer' \in [Peers -> PeerSet] /\ peer'[p] = new
      /\ \A k \in Peers : k # p => peer'[k] = peer[k]
  BY <1>3, <1>4, TypeParts
<1>. QED  BY <1>4, <1>5, <1>7, <1>8 DEF Answered

LEMMA AcceptStep ==
  ASSUME TypeOK, NumberInv, NEW p \in Peers, Accept(p)
  PROVE  Step
<1>. USE TypeParts, Bounds
<1>1. UNCHANGED <<ctl, req, starts, turns>>
  BY DEF Accept
<1>2. resp' \in Seq(RespSet)
  <2>1. [json |-> TRUE, v |-> peer[p].v, by |-> p] \in RespSet
    BY DEF RespSet, PeerSet
  <2>. QED  BY <2>1 DEF Accept
<1>3. TypeOK'
  BY <1>1, <1>2, AcceptIs, TypePartsNext
<1>4. NumberInv'
  <2>1. PICK n \in 0..MaxStarts : Numbered(n)
    BY DEF NumberInv
  <2>2. \A k \in Peers : peer'[k].state # "none" <=> peer[k].state # "none"
    BY AcceptIs DEF Answered
  <2>3. \A k \in Peers : peer'[k].state # "pending"
    BY <2>1, AcceptIs DEF Answered, Numbered
  <2>4. Numbered(n)'
    BY <1>1, <2>1, <2>2, <2>3 DEF Numbered
  <2>. QED  BY <2>4 DEF NumberInv
<1>5. PeersMoved
  BY AcceptIs DEF PeersMoved, Moved, Same
<1>. QED  BY <1>3, <1>4, <1>5 DEF Step

LEMMA AcceptFailsStep ==
  ASSUME TypeOK, NumberInv, NEW p \in Peers, AcceptFails(p)
  PROVE  Step
<1>. USE TypeParts, Bounds
<1>1. /\ UNCHANGED <<ctl, dev, req, resp, starts>>
      /\ turns' \in 0..MaxTurns /\ peer' = [peer EXCEPT ![p].half = TRUE]
  BY DEF AcceptFails, Turn
<1>2. peer' \in [Peers -> PeerSet]
  BY <1>1 DEF PeerSet
<1>3. \A k \in Peers : Same(peer[k], peer'[k])
  BY <1>1 DEF Same, PeerSet
<1>4. TypeOK'
  BY <1>1, <1>2, TypePartsNext
<1>5. NumberInv'
  BY <1>1, <1>3, NumbersKept DEF Same
<1>. QED  BY <1>3, <1>4, <1>5 DEF Step, PeersMoved, Moved

LEMMA RejectStep ==
  ASSUME TypeOK, NumberInv, NEW p \in Peers, Reject(p)
  PROVE  Step
<1>. USE TypeParts, Bounds
<1>1. /\ UNCHANGED <<ctl, req, starts, turns>>
      /\ dev' = [dev EXCEPT !.pending = None]
      /\ peer' = [peer EXCEPT ![p] = Removed(peer[p])]
      /\ peer[p].state = "pending"
  BY DEF Reject, IsPending
<1>2. peer' \in [Peers -> PeerSet] /\ dev' \in DevSet
  BY <1>1, RemovedIs DEF DevSet
<1>3. resp' \in Seq(RespSet)
  <2>1. Refusal(p) \in RespSet
    BY DEF Refusal, RespSet, Versions
  <2>. QED  BY <2>1 DEF Reject
<1>4. TypeOK'
  BY <1>1, <1>2, <1>3, TypePartsNext
<1>5. NumberInv'
  <2>1. PICK n \in 0..MaxStarts : Numbered(n)
    BY DEF NumberInv
  <2>2. \A k \in Peers : peer'[k].state # "none" <=> peer[k].state # "none"
    BY <1>1, RemovedIs
  <2>3. \A k \in Peers : peer'[k].state # "pending"
    BY <1>1, <2>1, RemovedIs DEF Numbered
  <2>4. Numbered(n)'
    BY <1>1, <2>1, <2>2, <2>3 DEF Numbered
  <2>. QED  BY <2>4 DEF NumberInv
<1>6. PeersMoved
  BY <1>1 DEF PeersMoved, Moved, Same
<1>. QED  BY <1>4, <1>5, <1>6 DEF Step

LEMMA PeerDisconnectStep ==
  ASSUME TypeOK, NumberInv, NEW p \in Peers, PeerDisconnect(p)
  PROVE  Step
<1>. USE TypeParts, Bounds
<1>1. /\ UNCHANGED <<ctl, req, resp, starts>> /\ turns' \in 0..MaxTurns
      /\ dev' = [dev EXCEPT !.chan = Closed(dev.chan, {p})]
      /\ peer' = [peer EXCEPT ![p] = Ended(peer[p])]
      /\ peer[p].state = "connected"
  BY DEF PeerDisconnect, Turn
<1>2. peer' \in [Peers -> PeerSet] /\ dev' \in DevSet /\ dev'.pending = dev.pending
  BY <1>1, EndedIs DEF DevSet, Closed
<1>3. TypeOK'
  BY <1>1, <1>2, TypePartsNext
<1>4. \A k \in Peers : /\ peer'[k].state # "none" <=> peer[k].state # "none"
                       /\ peer'[k].state = "pending" => peer[k].state = "pending"
  BY <1>1, EndedIs
<1>5. NumberInv'
  BY <1>1, <1>2, <1>4, NumbersKept
<1>6. PeersMoved
  BY <1>1 DEF PeersMoved, Moved, Same
<1>. QED  BY <1>3, <1>5, <1>6 DEF Step

LEMMA DestroyedAre ==
  ASSUME TypeOK, NEW p \in Peers
  PROVE  /\ PeersDestroyed[p] \in PeerSet
         /\ PeersDestroyed[p] = CASE peer[p].state = "connected" -> Ended(peer[p])
                                  [] peer[p].state = "pending" -> Removed(peer[p])
                                  [] OTHER -> peer[p]
         /\ PeersDestroyed[p].state \notin {"connected", "pending"}
         /\ PeersDestroyed[p].state = "none" <=> peer[p].state = "none"
<1>1. peer[p] \in PeerSet
  BY TypeParts
<1>2. PeersDestroyed[p] = CASE peer[p].state = "connected" -> Ended(peer[p])
                            [] peer[p].state = "pending" -> Removed(peer[p])
                            [] OTHER -> peer[p]
  BY DEF PeersDestroyed
<1>3. CASE peer[p].state = "connected"
  BY <1>1, <1>2, <1>3, EndedIs
<1>4. CASE peer[p].state = "pending"
  BY <1>1, <1>2, <1>4, RemovedIs
<1>5. CASE peer[p].state \notin {"connected", "pending"}
  BY <1>1, <1>2, <1>5
<1>. QED  BY <1>3, <1>4, <1>5

LEMMA BackendRenewStep ==
  ASSUME TypeOK, NumberInv, BackendRenew
  PROVE  Step
<1>. USE TypeParts, Bounds
<1>1. /\ UNCHANGED <<ctl, starts>> /\ turns' \in 0..MaxTurns
      /\ peer' = PeersDestroyed /\ req' \in {req, << >>}
      /\ dev' = [on |-> FALSE, pending |-> None, chan |-> Closed(dev.chan, Connected)]
  BY DEF BackendRenew, Turn
<1>2. /\ req' \in Seq(ReqSet) /\ Len(req') <= Len(req)
      /\ Len(req') \in Nat /\ Len(req) \in Nat
  <2>1. req \in Seq(ReqSet) /\ Len(req) \in Nat
    OBVIOUS
  <2>2. CASE req' = req
    BY <2>1, <2>2
  <2>3. CASE req' = << >>
    BY <2>1, <2>3
  <2>. QED  BY <1>1, <2>2, <2>3
<1>3. peer' \in [Peers -> PeerSet]
  BY <1>1, DestroyedAre DEF PeersDestroyed
<1>4. dev' \in DevSet
  BY <1>1 DEF DevSet, Closed
<1>5. resp' \in Seq(RespSet)
  <2>1. CASE \E p \in Peers : IsPending(p)
    <3>1. dev.pending \in Peers
      BY <2>1 DEF IsPending
    <3>2. Refusal(dev.pending) \in RespSet
      BY <3>1 DEF Refusal, RespSet, Versions
    <3>. QED  BY <2>1, <3>2 DEF BackendRenew
  <2>2. CASE ~\E p \in Peers : IsPending(p)
    BY <2>2 DEF BackendRenew
  <2>. QED  BY <2>1, <2>2
<1>6. TypeOK'
  BY <1>1, <1>2, <1>3, <1>4, <1>5, TypePartsNext
<1>7. NumberInv'
  BY <1>1, <1>2, DestroyedAre, NumbersKept
<1>8. PeersMoved
  BY <1>1, DestroyedAre DEF PeersMoved, Moved, Same
<1>. QED  BY <1>6, <1>7, <1>8 DEF Step

LEMMA ResetStep ==
  ASSUME TypeOK, NumberInv, NEW c \in CtlSet, ResetOf(c), turns' \in 0..MaxTurns
  PROVE  Step
<1>. USE TypeParts, Bounds
<1>1. /\ ctl' = c /\ UNCHANGED starts /\ req' = << >> /\ resp' = << >>
      /\ dev' = [dev EXCEPT !.chan = None]
      /\ \A p \in Peers : peer'[p] = IF p # dev.chan THEN peer[p]
                                     ELSE [peer[p] EXCEPT !.link = "KO"]
      /\ DOMAIN peer' = Peers /\ peer' = [p \in Peers |-> peer'[p]]
  BY DEF ResetOf, LinkReset
<1>2. dev' \in DevSet /\ dev'.pending = dev.pending
  BY <1>1 DEF DevSet
<1>3. ASSUME NEW p \in Peers
      PROVE  peer'[p] \in PeerSet /\ Same(peer[p], peer'[p])
  <2>1. peer[p] \in PeerSet
    OBVIOUS
  <2>2. peer'[p] = peer[p] \/ peer'[p] = [peer[p] EXCEPT !.link = "KO"]
    BY <1>1
  <2>. QED  BY <2>1, <2>2 DEF PeerSet, Same
<1>4. req' \in Seq(ReqSet) /\ resp' \in Seq(RespSet) /\ Len(req') = 0 /\ Len(req) \in Nat
  BY <1>1
<1>5. TypeOK'
  BY <1>1, <1>2, <1>3, <1>4, TypePartsNext
<1>6. NumberInv'
  BY <1>1, <1>2, <1>3, <1>4, NumbersKept DEF Same
<1>. QED  BY <1>3, <1>5, <1>6 DEF Step, PeersMoved, Moved

LEMMA ResetsAre ==
  ASSUME TypeOK, NumberInv, Reset \/ CtrlRestart
  PROVE  Step
<1>. USE TypeParts, Bounds
<1>1. turns' \in 0..MaxTurns
  BY DEF Reset, CtrlRestart, Turn
<1>2. CASE Reset
  <2>. DEFINE c == [ctl EXCEPT !.chan = FALSE,
                      !.link = IF ctl.chan THEN LinkReset(ctl.link) ELSE ctl.link]
  <2>1. c \in CtlSet
    BY DEF CtlSet, LinkReset
  <2>2. ResetOf(c)
    BY <1>2 DEF Reset
  <2>. QED  BY <1>1, <2>1, <2>2, ResetStep
<1>3. CASE CtrlRestart
  <2>1. PICK r \in CtrlRanges : ResetOf(FreshCtl(r, starts + 1))
    BY <1>3 DEF CtrlRestart
  <2>2. FreshCtl(r, starts + 1) \in CtlSet
    BY FreshType
  <2>. QED  BY <1>1, <2>1, <2>2, ResetStep
<1>. QED  BY <1>2, <1>3

LEMMA PeerLinkStep ==
  ASSUME TypeOK, NumberInv, NEW p \in Peers, PeerLinkLost(p) \/ PeerLinkBack(p)
  PROVE  Step
<1>. USE TypeParts, Bounds
<1>1. PICK status \in {"OK", "KO"} : peer' = [peer EXCEPT ![p].link = status]
  BY DEF PeerLinkLost, PeerLinkBack, PeerLink
<1>2. UNCHANGED <<ctl, dev, req, resp, starts, turns>>
  BY DEF PeerLinkLost, PeerLinkBack, PeerLink
<1>3. \A k \in Peers : peer'[k] \in PeerSet /\ Same(peer[k], peer'[k])
  BY <1>1 DEF PeerSet, Same
<1>4. peer' \in [Peers -> PeerSet]
  BY <1>1, <1>3
<1>5. TypeOK'
  BY <1>2, <1>4, TypePartsNext
<1>6. NumberInv'
  BY <1>2, <1>3, NumbersKept DEF Same
<1>. QED  BY <1>3, <1>5, <1>6 DEF Step, PeersMoved, Moved

LEMMA EveryStep == TypeOK /\ NumberInv /\ [Next]_vars => Step
<1>. SUFFICES ASSUME TypeOK, NumberInv, [Next]_vars PROVE Step
  OBVIOUS
<1>1. CASE UNCHANGED vars
  <2>1. UNCHANGED <<ctl, dev, peer, req, resp, starts, turns>>
    BY <1>1 DEF vars
  <2>. QED  BY <2>1, CtlStep, TypeParts
<1>. QED
  BY <1>1, ConnectStep, DisconnectStep, RxConnRespStep, CtrlLinkStep, ListenStep,
     RxConnReqStep, AcceptStep, AcceptFailsStep, RejectStep, PeerDisconnectStep,
     BackendRenewStep, ResetsAre, PeerLinkStep DEF Next, Decide

LEMMA SpecTypes == Spec => [](TypeOK /\ NumberInv)
<1>1. TypeOK /\ NumberInv /\ [Next]_vars => (TypeOK /\ NumberInv)'
  BY EveryStep DEF Step
<1>. QED  BY InitType, InitNumber, <1>1, PTL DEF Spec

-----------------------------------------------------------------------------
LEMMA PeerTold ==
  ASSUME TypeOK, PeerToldOnce, PeersMoved
  PROVE  PeerToldOnce'
<1>. SUFFICES ASSUME NEW k \in Peers
              PROVE  CASE peer'[k].state = "pending" ->
                            peer'[k].log = <<"added", "conn_req">>
                       [] peer'[k].state = "connected" ->
                            peer'[k].log = <<"added", "conn_req", "connected">>
                       [] peer'[k].state = "gone" ->
                            peer'[k].log \in {<<"added", "conn_req", "removed">>,
                              <<"added", "conn_req", "connected", "disconnected",
                                "removed">>}
                       [] OTHER -> peer'[k].log = << >>
  BY DEF PeerToldOnce
<1>. DEFINE p == peer[k]
            q == peer'[k]
<1>1. Moved(p, q) /\ p \in PeerSet
  BY TypeParts DEF PeersMoved
<1>2. CASE Same(p, q) \/ Taken(p, q)
  BY <1>2 DEF Same, Taken, PeerToldOnce
<1>3. CASE Answered(p, q)
  <2>1. p.log = <<"added", "conn_req">>
    BY <1>3 DEF Answered, PeerToldOnce
  <2>2. q.state = "connected" /\ q.log = <<"added", "conn_req", "connected">>
    BY <1>3, <2>1, Logs3 DEF Answered
  <2>. QED  BY <2>2
<1>4. CASE p.state = "pending" /\ q = Removed(p)
  <2>1. p.log = <<"added", "conn_req">>
    BY <1>4 DEF PeerToldOnce
  <2>2. q.state = "gone" /\ q.log = <<"added", "conn_req", "removed">>
    <3>1. Told(p.log, <<"removed">>) = <<"added", "conn_req", "removed">>
      BY <2>1, Logs3
    <3>. QED  BY <1>1, <1>4, <3>1, RemovedIs
  <2>. QED  BY <2>2
<1>5. CASE p.state = "connected" /\ q = Ended(p)
  <2>1. p.log = <<"added", "conn_req", "connected">>
    BY <1>5 DEF PeerToldOnce
  <2>2. Told(p.log, <<"disconnected">>)
          = <<"added", "conn_req", "connected", "disconnected">>
    BY <2>1, Logs4
  <2>3. /\ q.state = "gone"
        /\ q.log = <<"added", "conn_req", "connected", "disconnected", "removed">>
    BY <1>1, <1>5, <2>2, EndedIs, Logs5
  <2>. QED  BY <2>3
<1>. QED  BY <1>1, <1>2, <1>3, <1>4, <1>5 DEF Moved

LEMMA CtrlTold ==
  ASSUME TypeOK, CtrlToldOnce, [Next]_vars
  PROVE  CtrlToldOnce'
<1>0. ctl \in CtlSet
  BY TypeParts
<1>1. ASSUME ctl'.state = ctl.state, ctl'.log = ctl.log
      PROVE  CtrlToldOnce'
  BY <1>1 DEF CtrlToldOnce
<1>2. ASSUME ctl'.state = "idle",
             ctl'.log \in {<< >>, <<"connecting", "canceled">>,
                           <<"connecting", "connected", "disconnected">>}
      PROVE  CtrlToldOnce'
  BY <1>2 DEF CtrlToldOnce
<1>3. CASE Connect
  <2>1. FreshCtl(ctl.range, ctl.first) \in CtlSet
    BY <1>0, FreshType DEF CtlSet
  <2>2. ctl'.state = "pending" /\ ctl'.log = <<"connecting">>
    BY <1>3, <2>1 DEF Connect, CtlSet
  <2>. QED  BY <2>2 DEF CtrlToldOnce
<1>4. CASE Disconnect
  <2>1. ctl' = [ctl EXCEPT !.state = "idle", !.chan = FALSE, !.link = "KO", !.by = None,
                  !.log = Told(ctl.log, IF ctl.state = "connected"
                                        THEN <<"disconnected">> ELSE <<"canceled">>)]
    BY <1>4 DEF Disconnect
  <2>2. CASE ctl.state = "connected"
    <3>1. ctl.log = <<"connecting", "connected">>
      BY <2>2 DEF CtrlToldOnce
    <3>2. ctl'.state = "idle" /\ ctl'.log = <<"connecting", "connected", "disconnected">>
      BY <1>0, <2>1, <2>2, <3>1, Logs3 DEF CtlSet
    <3>. QED  BY <1>2, <3>2
  <2>3. CASE ctl.state = "pending"
    <3>1. ctl.log = <<"connecting">>
      BY <2>3 DEF CtrlToldOnce
    <3>2. ctl'.state = "idle" /\ ctl'.log = <<"connecting", "canceled">>
      BY <1>0, <2>1, <2>3, <3>1, Logs DEF CtlSet
    <3>. QED  BY <1>2, <3>2
  <2>. QED  BY <1>0, <1>4, <2>2, <2>3 DEF Disconnect, CtlSet
<1>5. CASE RxConnResp
  <2>1. CASE ~Awaited
    BY <1>1, <1>5, <2>1 DEF RxConnResp
  <2>2. CASE Awaited
    <3>1. ctl.log = <<"connecting">>
      BY <2>2 DEF Awaited, CtrlToldOnce
    <3>2. \/ ctl' = [ctl EXCEPT !.state = "idle", !.log = Told(ctl.log, <<"canceled">>)]
          \/ \E v, by : ctl' = [ctl EXCEPT !.state = "connected", !.v = v, !.by = by,
                !.chan = TRUE, !.link = "OK", !.log = Told(ctl.log, <<"connected">>)]
      <4>. DEFINE m == Head(resp)
      <4>1. ctl' = IF ~m.json
                   THEN [ctl EXCEPT !.state = "idle", !.log = Told(ctl.log, <<"canceled">>)]
                   ELSE [ctl EXCEPT !.state = "connected", !.v = m.v, !.by = m.by,
                           !.chan = TRUE, !.link = "OK",
                           !.log = Told(ctl.log, <<"connected">>)]
        BY <1>5, <2>2 DEF RxConnResp
      <4>. QED  BY <4>1
    <3>3. /\ Told(ctl.log, <<"canceled">>) = <<"connecting", "canceled">>
          /\ Told(ctl.log, <<"connected">>) = <<"connecting", "connected">>
      BY <3>1, Logs
    <3>4. \/ ctl'.state = "idle" /\ ctl'.log = <<"connecting", "canceled">>
          \/ ctl'.state = "connected" /\ ctl'.log = <<"connecting", "connected">>
      BY <1>0, <3>2, <3>3 DEF CtlSet
    <3>. QED  BY <3>4 DEF CtrlToldOnce
  <2>. QED  BY <2>1, <2>2
<1>6. CASE Reset
  BY <1>0, <1>1, <1>6 DEF Reset, ResetOf, CtlSet
<1>7. CASE CtrlRestart
  BY <1>2, <1>7 DEF CtrlRestart, ResetOf, FreshCtl
<1>8. CASE CtrlLinkLost \/ CtrlLinkBack
  BY <1>0, <1>1, <1>8 DEF CtrlLinkLost, CtrlLinkBack, CtrlLink, CtlSet
<1>9. ASSUME NEW p \in Peers,
             \/ Accept(p) \/ Reject(p) \/ AcceptFails(p) \/ PeerDisconnect(p)
             \/ PeerLinkLost(p) \/ PeerLinkBack(p)
      PROVE  CtrlToldOnce'
  BY <1>1, <1>9 DEF Accept, Reject, AcceptFails, PeerDisconnect, PeerLinkLost,
                    PeerLinkBack, PeerLink
<1>10. ASSUME StartListen \/ StopListen \/ RxConnReq \/ BackendRenew \/ UNCHANGED vars
       PROVE  CtrlToldOnce'
  BY <1>1, <1>10 DEF StartListen, StopListen, RxConnReq, BackendRenew, vars
<1>. QED  BY <1>3, <1>4, <1>5, <1>6, <1>7, <1>8, <1>9, <1>10 DEF Next, Decide

\* Whatever requests and responses are stale, late or lost, and whoever ends a
\* connection, each application is told of its beginning and of its end once,
\* in order; and each variable keeps its type.
THEOREM EndsAreToldOnce == Spec => []ToldOnce
<1>1. Init => CtrlToldOnce /\ PeerToldOnce
  BY DEF Init, FreshCtl, Absent, CtrlToldOnce, PeerToldOnce
<1>2. /\ TypeOK /\ NumberInv /\ CtrlToldOnce /\ PeerToldOnce /\ [Next]_vars
      => (CtrlToldOnce /\ PeerToldOnce)'
  BY EveryStep, PeerTold, CtrlTold DEF Step
<1>. QED  BY <1>1, <1>2, SpecTypes, PTL DEF Spec, ToldOnce

-----------------------------------------------------------------------------
\* Only connected peers have started their transports, and the channel is that
\* of the last of them, if it is anyone's: one that a late stop of an older
\* transport closes is therefore that of a newer peer.
ChannelInv ==
    \A p \in Peers :
      peer[p].started =>
        peer[p].state = "connected" /\ (dev.chan = None \/ p <= dev.chan)

PeerKnows(p) ==
    peer[p].started /\ peer[p].link = "OK" /\ dev.chan # p
      => \E q \in Peers : q < p /\ peer[q].state = "gone"

PeersKnow == \A p \in Peers : PeerKnows(p)

CtrlKnows == ctl.state = "connected" /\ ctl.link = "OK" => ctl.chan

LEMMA CtrlKnowsStep ==
  ASSUME TypeOK, CtrlKnows, [Next]_vars
  PROVE  CtrlKnows'
<1>0. ctl \in CtlSet
  BY TypeParts
<1>1. ASSUME ctl' = ctl \/ ctl'.state # "connected" \/ ctl'.link = "KO" \/ ctl'.chan
      PROVE  CtrlKnows'
  BY <1>1 DEF CtrlKnows
<1>2. CASE Connect
  <2>1. FreshCtl(ctl.range, ctl.first) \in CtlSet
    BY <1>0, FreshType DEF CtlSet
  <2>. QED  BY <1>1, <1>2, <2>1 DEF Connect, CtlSet
<1>3. CASE Disconnect
  BY <1>0, <1>1, <1>3 DEF Disconnect, CtlSet
<1>4. CASE RxConnResp
  <2>. DEFINE m == Head(resp)
  <2>1. \/ ctl' = ctl
        \/ ctl' = [ctl EXCEPT !.state = "idle", !.log = Told(ctl.log, <<"canceled">>)]
        \/ ctl' = [ctl EXCEPT !.state = "connected", !.v = m.v, !.by = m.by,
                     !.chan = TRUE, !.link = "OK",
                     !.log = Told(ctl.log, <<"connected">>)]
    BY <1>4 DEF RxConnResp
  <2>. HIDE DEF m
  <2>. QED  BY <1>0, <1>1, <2>1 DEF CtlSet
<1>5. CASE Reset
  <2>1. ctl' = [ctl EXCEPT !.chan = FALSE, !.link = IF ctl.chan THEN "KO" ELSE ctl.link]
    BY <1>5 DEF Reset, ResetOf, LinkReset
  <2>2. ctl'.state = ctl.state /\ ctl'.link = IF ctl.chan THEN "KO" ELSE ctl.link
    BY <1>0, <2>1 DEF CtlSet
  <2>. QED  BY <2>2 DEF CtrlKnows
<1>6. CASE CtrlRestart
  BY <1>1, <1>6 DEF CtrlRestart, ResetOf, FreshCtl
<1>7. CASE CtrlLinkLost \/ CtrlLinkBack
  <2>1. PICK status : ctl' = [ctl EXCEPT !.link = status] /\ ctl.chan
    BY <1>7 DEF CtrlLinkLost, CtrlLinkBack, CtrlLink
  <2>. QED  BY <1>0, <1>1, <2>1 DEF CtlSet
<1>8. ASSUME NEW p \in Peers,
             \/ Accept(p) \/ Reject(p) \/ AcceptFails(p) \/ PeerDisconnect(p)
             \/ PeerLinkLost(p) \/ PeerLinkBack(p)
      PROVE  CtrlKnows'
  BY <1>1, <1>8 DEF Accept, Reject, AcceptFails, PeerDisconnect, PeerLinkLost,
                    PeerLinkBack, PeerLink
<1>9. ASSUME StartListen \/ StopListen \/ RxConnReq \/ BackendRenew \/ UNCHANGED vars
      PROVE  CtrlKnows'
  BY <1>1, <1>9 DEF StartListen, StopListen, RxConnReq, BackendRenew, vars
<1>. QED  BY <1>2, <1>3, <1>4, <1>5, <1>6, <1>7, <1>8, <1>9 DEF Next, Decide

\* A step that leaves the channel, and every peer or its link and nothing more
\* of it unless it comes or goes.
LEMMA ChannelKept ==
  ASSUME ChannelInv, PeersKnow, dev'.chan = dev.chan,
         \A p \in Peers :
           \/ /\ peer'[p].state = peer[p].state /\ peer'[p].started = peer[p].started
              /\ peer'[p].link \in {peer[p].link, "KO"} \/ dev.chan = p
           \/ ~peer'[p].started /\ peer[p].state # "gone"
  PROVE  ChannelInv' /\ PeersKnow'
  BY DEF ChannelInv, PeersKnow, PeerKnows

LEMMA AcceptChannel ==
  ASSUME TypeOK, NumberInv, ChannelInv, PeersKnow, NEW p \in Peers, Accept(p)
  PROVE  ChannelInv' /\ PeersKnow'
<1>1. PICK n \in 0..MaxStarts : Numbered(n)
  BY DEF NumberInv
<1>2. p = n
  BY <1>1, AcceptIs DEF Numbered
<1>3. \A k \in Peers : k # p => peer'[k] = peer[k]
  BY AcceptIs
<1>4. /\ peer[p].state = "pending" /\ peer'[p].state = "connected"
      /\ peer'[p].started <=> dev.chan = None
      /\ dev'.chan = IF dev.chan = None THEN p ELSE dev.chan
  BY AcceptIs DEF Answered
<1>5. \A k \in Peers : peer[k].started => k <= p
  <2>. SUFFICES ASSUME NEW k \in Peers, peer[k].started PROVE k <= p
    OBVIOUS
  <2>1. peer[k].state # "none"
    BY DEF ChannelInv
  <2>. QED  BY <1>1, <1>2, <2>1 DEF Numbered
<1>6. p # None
  BY NoneIsNoPeer
<1>7. ChannelInv'
  BY <1>3, <1>4, <1>5 DEF ChannelInv, Peers
<1>8. PeersKnow'
  <2>. SUFFICES ASSUME NEW k \in Peers PROVE PeerKnows(k)'
    BY DEF PeersKnow
  <2>1. \A q \in Peers : peer[q].state = "gone" => peer'[q].state = "gone"
    BY <1>3, <1>4
  <2>2. CASE k = p
    BY <1>4, <2>2 DEF PeerKnows
  <2>3. CASE k # p
    BY <1>3, <1>4, <2>1, <2>3, NoneIsNoPeer DEF PeersKnow, PeerKnows
  <2>. QED  BY <2>2, <2>3
<1>. QED  BY <1>7, <1>8

LEMMA PeerDisconnectChannel ==
  ASSUME TypeOK, ChannelInv, PeersKnow, NEW p \in Peers, PeerDisconnect(p)
  PROVE  ChannelInv' /\ PeersKnow'
<1>1. /\ dev' = [dev EXCEPT !.chan = Closed(dev.chan, {p})]
      /\ peer' = [peer EXCEPT ![p] = Ended(peer[p])]
      /\ dev \in DevSet /\ peer \in [Peers -> PeerSet]
  BY TypeParts DEF PeerDisconnect
<1>2. dev'.chan = IF peer[p].started THEN None ELSE dev.chan
  BY <1>1 DEF DevSet, Closed
<1>3. /\ peer'[p].state = "gone" /\ ~peer'[p].started
      /\ \A k \in Peers : k # p => peer'[k] = peer[k]
  BY <1>1, EndedIs
<1>4. ChannelInv'
  BY <1>2, <1>3 DEF ChannelInv
<1>5. PeersKnow'
  <2>. SUFFICES ASSUME NEW k \in Peers, peer'[k].started, peer'[k].link = "OK",
                       dev'.chan # k
                PROVE  \E q \in Peers : q < k /\ peer'[q].state = "gone"
    BY DEF PeersKnow, PeerKnows
  <2>1. k # p /\ peer'[k] = peer[k]
    BY <1>3
  <2>2. \A q \in Peers : peer[q].state = "gone" => peer'[q].state = "gone"
    BY <1>3
  <2>3. CASE dev.chan # k
    BY <2>1, <2>2, <2>3 DEF PeersKnow, PeerKnows
  <2>4. CASE dev.chan = k
    <3>1. peer[p].started
      BY <1>2, <2>4
    <3>2. p <= k
      BY <2>4, <3>1, NoneIsNoPeer DEF ChannelInv
    <3>. QED  BY <1>3, <2>1, <3>2 DEF Peers
  <2>. QED  BY <2>3, <2>4
<1>. QED  BY <1>4, <1>5

LEMMA ResetChannel ==
  ASSUME TypeOK, ChannelInv, PeersKnow, NEW c, ResetOf(c)
  PROVE  ChannelInv' /\ PeersKnow'
<1>1. /\ dev' = [dev EXCEPT !.chan = None]
      /\ \A p \in Peers : peer'[p] = IF p # dev.chan THEN peer[p]
                                     ELSE [peer[p] EXCEPT !.link = "KO"]
      /\ dev \in DevSet /\ peer \in [Peers -> PeerSet]
  BY TypeParts DEF ResetOf, LinkReset
<1>2. dev'.chan = None
  BY <1>1 DEF DevSet
<1>3. ASSUME NEW p \in Peers
      PROVE  /\ peer'[p].started = peer[p].started /\ peer'[p].state = peer[p].state
             /\ peer'[p].link = IF p = dev.chan THEN "KO" ELSE peer[p].link
  <2>1. peer[p] \in PeerSet
    BY <1>1
  <2>2. CASE p # dev.chan
    BY <1>1, <2>2
  <2>3. CASE p = dev.chan
    <3>1. peer'[p] = [peer[p] EXCEPT !.link = "KO"]
      BY <1>1, <2>3
    <3>. QED  BY <2>1, <2>3, <3>1 DEF PeerSet
  <2>. QED  BY <2>2, <2>3
<1>. QED  BY <1>2, <1>3 DEF ChannelInv, PeersKnow, PeerKnows

LEMMA ChannelStep ==
  ASSUME TypeOK, NumberInv, ChannelInv, PeersKnow, [Next]_vars
  PROVE  ChannelInv' /\ PeersKnow'
<1>0. dev \in DevSet /\ peer \in [Peers -> PeerSet]
  BY TypeParts
<1>1. ASSUME UNCHANGED peer, dev'.chan = dev.chan
      PROVE  ChannelInv' /\ PeersKnow'
  BY <1>1 DEF ChannelInv, PeersKnow, PeerKnows
<1>2. CASE StartListen \/ StopListen
  BY <1>0, <1>1, <1>2 DEF StartListen, StopListen, DevSet
<1>3. CASE RxConnReq
  <2>1. CASE UNCHANGED <<dev, peer>>
    BY <1>1, <2>1
  <2>2. CASE ~UNCHANGED <<dev, peer>>
    <3>1. PICK new : /\ dev' = [dev EXCEPT !.pending = NextPeer]
                     /\ peer' = [peer EXCEPT ![NextPeer] = new]
      <4>. DEFINE r == Head(req).range
                  new == IF Common(r) = {} THEN [Absent EXCEPT !.state = "deaf"]
                         ELSE [Absent EXCEPT !.state = "pending", !.v = Chosen(r),
                                 !.asked = Head(req).asked,
                                 !.log = <<"added", "conn_req">>]
      <4>1. /\ dev' = [dev EXCEPT !.pending = NextPeer]
            /\ peer' = [peer EXCEPT ![NextPeer] = new]
        BY <1>3, <2>2 DEF RxConnReq
      <4>. QED  BY <4>1
    <3>2. dev'.chan = dev.chan
      BY <1>0, <3>1 DEF DevSet
    <3>3. PeersMoved
      BY <1>3, EveryStep DEF Step
    <3>4. ASSUME NEW p \in Peers
          PROVE  \/ peer'[p] = peer[p]
                 \/ ~peer'[p].started /\ peer[p].state # "gone"
      <4>1. CASE p # NextPeer
        BY <1>0, <3>1, <4>1
      <4>2. CASE p = NextPeer
        <5>1. PICK n \in 0..MaxStarts : Numbered(n)
          BY DEF NumberInv
        <5>2. p = n + 1
          BY <4>2, <5>1, NextPeerIs
        <5>3. peer[p].state = "none"
          BY <5>1, <5>2 DEF Numbered, Peers
        <5>4. Same(peer[p], peer'[p]) \/ Taken(peer[p], peer'[p])
          BY <3>3, <5>3 DEF PeersMoved, Moved, Answered
        <5>. QED  BY <5>3, <5>4 DEF Same, Taken, ChannelInv
      <4>. QED  BY <4>1, <4>2
    <3>. QED  BY <3>2, <3>4, ChannelKept
  <2>. QED  BY <2>1, <2>2
<1>4. ASSUME NEW p \in Peers, Accept(p)
      PROVE  ChannelInv' /\ PeersKnow'
  BY <1>4, AcceptChannel
<1>5. ASSUME NEW p \in Peers, AcceptFails(p)
      PROVE  ChannelInv' /\ PeersKnow'
  <2>1. /\ dev' = dev
        /\ \A k \in Peers : /\ peer'[k].state = peer[k].state
                            /\ peer'[k].started = peer[k].started
                            /\ peer'[k].link = peer[k].link
    BY <1>0, <1>5 DEF AcceptFails, PeerSet
  <2>. QED  BY <2>1, ChannelKept
<1>6. ASSUME NEW p \in Peers, Reject(p)
      PROVE  ChannelInv' /\ PeersKnow'
  <2>1. dev'.chan = dev.chan
    BY <1>0, <1>6 DEF Reject, DevSet
  <2>2. /\ peer[p].state = "pending" /\ ~peer'[p].started
        /\ \A k \in Peers : k # p => peer'[k] = peer[k]
    BY <1>0, <1>6, RemovedIs DEF Reject, IsPending
  <2>3. \A k \in Peers : \/ peer'[k] = peer[k]
                         \/ ~peer'[k].started /\ peer[k].state # "gone"
    BY <2>2
  <2>. QED  BY <2>1, <2>3, ChannelKept
<1>7. ASSUME NEW p \in Peers, PeerDisconnect(p)
      PROVE  ChannelInv' /\ PeersKnow'
  BY <1>7, PeerDisconnectChannel
<1>8. CASE BackendRenew
  <2>1. \A p \in Peers : ~peer'[p].started
    <3>. SUFFICES ASSUME NEW p \in Peers PROVE ~PeersDestroyed[p].started
      BY <1>8 DEF BackendRenew
    <3>. QED  BY <1>0, DestroyedAre, RemovedIs, EndedIs DEF ChannelInv
  <2>. QED  BY <2>1 DEF ChannelInv, PeersKnow, PeerKnows
<1>9. CASE Reset \/ CtrlRestart
  BY <1>9, ResetChannel DEF Reset, CtrlRestart
<1>10. ASSUME NEW p \in Peers, PeerLinkLost(p) \/ PeerLinkBack(p)
       PROVE  ChannelInv' /\ PeersKnow'
  <2>1. PICK status \in {"OK", "KO"} : /\ peer' = [peer EXCEPT ![p].link = status]
                                       /\ status = "OK" => dev.chan = p
    BY <1>10 DEF PeerLinkLost, PeerLinkBack, PeerLink, Heard
  <2>2. dev' = dev
    BY <1>10 DEF PeerLinkLost, PeerLinkBack, PeerLink
  <2>3. \A k \in Peers : /\ peer'[k].state = peer[k].state
                         /\ peer'[k].started = peer[k].started
                         /\ peer'[k].link \in {peer[k].link, "KO"} \/ dev.chan = k
    BY <1>0, <2>1 DEF PeerSet
  <2>. QED  BY <2>2, <2>3, ChannelKept
<1>11. ASSUME Connect \/ Disconnect \/ RxConnResp \/ CtrlLinkLost \/ CtrlLinkBack
              \/ UNCHANGED vars
       PROVE  ChannelInv' /\ PeersKnow'
  BY <1>1, <1>11 DEF Connect, Disconnect, RxConnResp, CtrlLinkLost, CtrlLinkBack,
                     CtrlLink, vars
<1>. QED  BY <1>2, <1>3, <1>4, <1>5, <1>6, <1>7, <1>8, <1>9, <1>10, <1>11
          DEF Next, Decide

\* No side goes on believing in a link it has lost, but for a peer whose
\* channel an older connection, that ended later, has closed.
THEOREM NoLinkIsBlind == Spec => []NoBlindLink
<1>1. Init => ChannelInv /\ PeersKnow /\ CtrlKnows
  BY DEF Init, ChannelInv, PeersKnow, PeerKnows, CtrlKnows, Absent, FreshCtl
<1>2. /\ TypeOK /\ NumberInv /\ ChannelInv /\ PeersKnow /\ CtrlKnows /\ [Next]_vars
      => (ChannelInv /\ PeersKnow /\ CtrlKnows)'
  BY ChannelStep, CtrlKnowsStep
<1>3. PeersKnow /\ CtrlKnows => NoBlindLink
  BY DEF PeersKnow, PeerKnows, CtrlKnows, NoBlindLink
<1>. QED  BY <1>1, <1>2, <1>3, SpecTypes, PTL DEF Spec

-----------------------------------------------------------------------------
WasAccepted(p) ==
    \/ p.state = "connected"
    \/ p.log = <<"added", "conn_req", "connected", "disconnected", "removed">>

\* A response that is not a refusal is that of a peer that was accepted, and
\* so is the one the controller's connection came of.
ResponsesHonest ==
    \A i \in 1..Len(resp) :
      resp[i].json => /\ WasAccepted(peer[resp[i].by])
                      /\ resp[i].v = peer[resp[i].by].v

ConnectionHonest ==
    ctl.state = "connected" =>
      ctl.by \in Peers /\ WasAccepted(peer[ctl.by]) /\ ctl.v = peer[ctl.by].v

\* The requests of this controller ask for its versions, and the peers that
\* come of them have one of these; all of them have one of the device's.
RequestsHonest ==
    \A i \in 1..Len(req) :
      /\ req[i].asked <= starts
      /\ req[i].asked >= ctl.first => req[i].range = ctl.range

VersionFits(p) ==
    p.state \in {"pending", "connected", "gone"} =>
      /\ p.v \in DevRange[1]..DevRange[2]
      /\ p.asked <= starts
      /\ p.asked >= ctl.first => p.v \in ctl.range[1]..ctl.range[2]

VersionsFit == \A p \in Peers : VersionFits(peer[p])

LEMMA HonestAccepted ==
  TypeOK /\ PeerToldOnce /\ ConnectionHonest /\ VersionsFit => Accepted
<1>. SUFFICES ASSUME TypeOK, PeerToldOnce, ConnectionHonest, VersionsFit,
                     ctl.state = "connected"
              PROVE  ConnectedAccepted /\ CommonVersion
  BY DEF Accepted, ConnectedAccepted, CommonVersion
<1>. DEFINE p == peer[ctl.by]
<1>1. /\ ctl.by \in Peers /\ p \in PeerSet /\ WasAccepted(p) /\ ctl.v = p.v
  BY TypeParts DEF ConnectionHonest
<1>2. p.log \in {<<"added", "conn_req", "connected">>,
        <<"added", "conn_req", "connected", "disconnected", "removed">>}
  BY <1>1 DEF WasAccepted, PeerToldOnce
<1>3. 3 \in DOMAIN p.log /\ p.log[3] = "connected"
  BY <1>2
<1>4. p.state \in {"connected", "gone"}
  <2>1. CASE p.log = <<"added", "conn_req", "connected">>
    BY <1>1, <2>1 DEF WasAccepted
  <2>2. CASE p.log = <<"added", "conn_req", "connected", "disconnected", "removed">>
    <3>1. Len(p.log) = 5
      BY <2>2
    <3>2. p.state \notin {"none", "deaf", "pending"}
      <4>1. p.state \in {"none", "deaf"} => p.log = << >>
        BY <1>1 DEF PeerToldOnce
      <4>2. p.state = "pending" => p.log = <<"added", "conn_req">>
        BY <1>1 DEF PeerToldOnce
      <4>. HIDE DEF p
      <4>. QED  BY <3>1, <4>1, <4>2
    <3>. QED  BY <1>1, <3>2 DEF PeerSet
  <2>. QED  BY <1>2, <2>1, <2>2
<1>5. VersionFits(p)
  BY <1>1 DEF VersionsFit
<1>. QED  BY <1>1, <1>3, <1>4, <1>5 DEF VersionFits, ConnectedAccepted, CommonVersion

LEMMA AcceptedStays ==
  ASSUME TypeOK, PeerToldOnce, PeersMoved, NEW k \in Peers, WasAccepted(peer[k])
  PROVE  WasAccepted(peer'[k]) /\ peer'[k].v = peer[k].v
<1>. DEFINE p == peer[k]
            q == peer'[k]
<1>1. Moved(p, q) /\ p \in PeerSet
  BY TypeParts DEF PeersMoved
<1>2. p.state \notin {"none", "pending"}
  BY DEF WasAccepted, PeerToldOnce
<1>3. CASE Same(p, q)
  BY <1>3 DEF Same, WasAccepted
<1>4. CASE p.state = "connected" /\ q = Ended(p)
  <2>1. p.log = <<"added", "conn_req", "connected">>
    BY <1>4 DEF PeerToldOnce
  <2>2. Told(p.log, <<"disconnected">>)
          = <<"added", "conn_req", "connected", "disconnected">>
    BY <2>1, Logs4
  <2>3. Told(Told(p.log, <<"disconnected">>), <<"removed">>)
          = <<"added", "conn_req", "connected", "disconnected", "removed">>
    BY <2>2, Logs5
  <2>. QED  BY <1>1, <1>4, <2>3, EndedIs DEF WasAccepted
<1>. QED  BY <1>1, <1>2, <1>3, <1>4 DEF Moved, Taken, Answered

LEMMA ResponsesKept ==
  ASSUME TypeOK, PeerToldOnce, PeersMoved, ResponsesHonest,
         \A i \in 1..Len(resp') :
           ~resp'[i].json \/ \E j \in 1..Len(resp) : resp'[i] = resp[j]
  PROVE  ResponsesHonest'
<1>. SUFFICES ASSUME NEW i \in 1..Len(resp'), resp'[i].json
              PROVE  /\ WasAccepted(peer'[resp'[i].by])
                     /\ resp'[i].v = peer'[resp'[i].by].v
  BY DEF ResponsesHonest
<1>1. PICK j \in 1..Len(resp) : resp'[i] = resp[j]
  OBVIOUS
<1>2. resp[j].by \in Peers
  <2>1. resp[j] \in RespSet
    BY TypeParts
  <2>. QED  BY <2>1 DEF RespSet
<1>3. WasAccepted(peer[resp[j].by]) /\ resp[j].v = peer[resp[j].by].v
  BY <1>1 DEF ResponsesHonest
<1>4. WasAccepted(peer'[resp[j].by]) /\ peer'[resp[j].by].v = peer[resp[j].by].v
  BY <1>2, <1>3, AcceptedStays
<1>. QED  BY <1>1, <1>3, <1>4

LEMMA ResponsesStep ==
  ASSUME TypeOK, NumberInv, PeerToldOnce, PeersMoved, ResponsesHonest, [Next]_vars
  PROVE  ResponsesHonest'
<1>0. resp \in Seq(RespSet) /\ Len(resp) \in Nat
  BY TypeParts
<1>1. ASSUME resp' = resp \/ resp' = << >>
      PROVE  ResponsesHonest'
  <2>1. CASE resp' = resp
    BY <2>1, ResponsesKept
  <2>2. CASE resp' = << >>
    BY <2>2 DEF ResponsesHonest
  <2>. QED  BY <1>1, <2>1, <2>2
<1>2. ASSUME NEW m, m \in RespSet, ~m.json, resp' = Append(resp, m)
      PROVE  ResponsesHonest'
  <2>1. \A i \in 1..Len(resp') : resp'[i] = m \/ \E j \in 1..Len(resp) : resp'[i] = resp[j]
    BY <1>0, <1>2
  <2>. QED  BY <1>2, <2>1, ResponsesKept
<1>3. CASE RxConnResp
  <2>1. resp # << >> /\ resp' = Tail(resp)
    BY <1>3 DEF RxConnResp
  <2>2. \A i \in 1..Len(resp') : resp'[i] = resp[i + 1] /\ i + 1 \in 1..Len(resp)
    BY <1>0, <2>1
  <2>. QED  BY <2>2, ResponsesKept
<1>4. ASSUME NEW p \in Peers, Accept(p)
      PROVE  ResponsesHonest'
  <2>. DEFINE m == [json |-> TRUE, v |-> peer[p].v, by |-> p]
  <2>1. resp' = Append(resp, m)
    BY <1>4 DEF Accept
  <2>2. WasAccepted(peer'[p]) /\ peer'[p].v = peer[p].v
    BY <1>4, AcceptIs DEF Answered, WasAccepted
  <2>3. m.by = p /\ m.v = peer[p].v
    OBVIOUS
  <2>. HIDE DEF m
  <2>4. \A i \in 1..Len(resp') : resp'[i] = m \/ \E j \in 1..Len(resp) : resp'[i] = resp[j]
    BY <1>0, <2>1
  <2>5. \A j \in 1..Len(resp) : resp[j].json =>
            /\ WasAccepted(peer'[resp[j].by])
            /\ resp[j].v = peer'[resp[j].by].v
    <3>. SUFFICES ASSUME NEW j \in 1..Len(resp), resp[j].json
                  PROVE  /\ WasAccepted(peer'[resp[j].by])
                         /\ resp[j].v = peer'[resp[j].by].v
      OBVIOUS
    <3>1. resp[j].by \in Peers
      <4>1. resp[j] \in RespSet
        BY <1>0
      <4>. QED  BY <4>1 DEF RespSet
    <3>2. WasAccepted(peer[resp[j].by]) /\ resp[j].v = peer[resp[j].by].v
      BY DEF ResponsesHonest
    <3>. QED  BY <3>1, <3>2, AcceptedStays
  <2>. QED  BY <2>2, <2>3, <2>4, <2>5 DEF ResponsesHonest
<1>5. ASSUME NEW p \in Peers, Reject(p)
      PROVE  ResponsesHonest'
  <2>1. resp' = Append(resp, Refusal(p)) /\ Refusal(p) \in RespSet /\ ~Refusal(p).json
    BY <1>5 DEF Reject, Refusal, RespSet, Versions
  <2>. QED  BY <1>2, <2>1
<1>6. CASE BackendRenew
  <2>1. CASE \E p \in Peers : IsPending(p)
    <3>1. dev.pending \in Peers
      BY <2>1 DEF IsPending
    <3>2. /\ resp' = Append(resp, Refusal(dev.pending))
          /\ Refusal(dev.pending) \in RespSet /\ ~Refusal(dev.pending).json
      BY <1>6, <2>1, <3>1 DEF BackendRenew, Refusal, RespSet, Versions
    <3>. QED  BY <1>2, <3>2
  <2>2. CASE ~\E p \in Peers : IsPending(p)
    BY <1>1, <1>6, <2>2 DEF BackendRenew
  <2>. QED  BY <2>1, <2>2
<1>7. ASSUME NEW p \in Peers,
             \/ AcceptFails(p) \/ PeerDisconnect(p) \/ PeerLinkLost(p) \/ PeerLinkBack(p)
      PROVE  ResponsesHonest'
  BY <1>1, <1>7 DEF AcceptFails, PeerDisconnect, PeerLinkLost, PeerLinkBack, PeerLink
<1>8. ASSUME \/ Connect \/ Disconnect \/ StartListen \/ StopListen \/ RxConnReq
             \/ Reset \/ CtrlRestart \/ CtrlLinkLost \/ CtrlLinkBack \/ UNCHANGED vars
      PROVE  ResponsesHonest'
  BY <1>1, <1>8 DEF Connect, Disconnect, StartListen, StopListen, RxConnReq, Reset,
       CtrlRestart, ResetOf, CtrlLinkLost, CtrlLinkBack, CtrlLink, vars
<1>. QED  BY <1>3, <1>4, <1>5, <1>6, <1>7, <1>8 DEF Next, Decide

\* What a step makes of the controller's own record, but for its log: it keeps
\* its connection, has none, or takes that of a response.
LEMMA CtlIs ==
  ASSUME TypeOK, [Next]_vars
  PROVE  /\ CtrlRestart \/ (ctl'.range = ctl.range /\ ctl'.first = ctl.first)
         /\ \/ ctl'.state = ctl.state /\ ctl'.by = ctl.by /\ ctl'.v = ctl.v
            \/ ctl'.state # "connected"
            \/ resp # << >> /\ Head(resp).json /\ ctl'.by = Head(resp).by
                 /\ ctl'.v = Head(resp).v
<1>0. ctl \in CtlSet
  BY TypeParts
<1>1. CASE Connect
  <2>1. /\ FreshCtl(ctl.range, ctl.first) \in CtlSet
        /\ FreshCtl(ctl.range, ctl.first).range = ctl.range
        /\ FreshCtl(ctl.range, ctl.first).first = ctl.first
    BY <1>0, FreshType DEF CtlSet, FreshCtl
  <2>. QED  BY <1>1, <2>1 DEF Connect, CtlSet
<1>2. CASE Disconnect
  BY <1>0, <1>2 DEF Disconnect, CtlSet
<1>3. CASE RxConnResp
  <2>. DEFINE m == Head(resp)
  <2>1. \/ ctl' = ctl
        \/ ctl' = [ctl EXCEPT !.state = "idle", !.log = Told(ctl.log, <<"canceled">>)]
        \/ m.json /\ ctl' = [ctl EXCEPT !.state = "connected", !.v = m.v, !.by = m.by,
                               !.chan = TRUE, !.link = "OK",
                               !.log = Told(ctl.log, <<"connected">>)]
    BY <1>3 DEF RxConnResp
  <2>2. resp # << >>
    BY <1>3 DEF RxConnResp
  <2>. HIDE DEF m
  <2>3. /\ ctl'.range = ctl.range /\ ctl'.first = ctl.first
        /\ \/ ctl'.state = ctl.state /\ ctl'.by = ctl.by /\ ctl'.v = ctl.v
           \/ ctl'.state # "connected"
           \/ m.json /\ ctl'.by = m.by /\ ctl'.v = m.v
    BY <1>0, <2>1 DEF CtlSet
  <2>. QED  BY <2>2, <2>3 DEF m
<1>4. CASE Reset
  <2>1. ctl' = [ctl EXCEPT !.chan = FALSE,
                  !.link = IF ctl.chan THEN LinkReset(ctl.link) ELSE ctl.link]
    BY <1>4 DEF Reset, ResetOf
  <2>. QED  BY <1>0, <2>1 DEF CtlSet
<1>5. CASE CtrlRestart
  <2>1. PICK r \in CtrlRanges : ctl' = FreshCtl(r, starts + 1)
    BY <1>5 DEF CtrlRestart, ResetOf
  <2>2. ctl'.state = "idle"
    BY <2>1 DEF FreshCtl
  <2>. QED  BY <1>5, <2>2
<1>6. CASE CtrlLinkLost \/ CtrlLinkBack
  BY <1>0, <1>6 DEF CtrlLinkLost, CtrlLinkBack, CtrlLink, CtlSet
<1>7. ASSUME NEW p \in Peers,
             \/ Accept(p) \/ Reject(p) \/ AcceptFails(p) \/ PeerDisconnect(p)
             \/ PeerLinkLost(p) \/ PeerLinkBack(p)
      PROVE  ctl' = ctl
  BY <1>7 DEF Accept, Reject, AcceptFails, PeerDisconnect, PeerLinkLost,
              PeerLinkBack, PeerLink
<1>8. ASSUME StartListen \/ StopListen \/ RxConnReq \/ BackendRenew \/ UNCHANGED vars
      PROVE  ctl' = ctl
  BY <1>8 DEF StartListen, StopListen, RxConnReq, BackendRenew, vars
<1>. QED  BY <1>1, <1>2, <1>3, <1>4, <1>5, <1>6, <1>7, <1>8 DEF Next, Decide

LEMMA ConnectionStep ==
  ASSUME TypeOK, PeerToldOnce, PeersMoved, ResponsesHonest, ConnectionHonest, [Next]_vars
  PROVE  ConnectionHonest'
<1>. SUFFICES ASSUME ctl'.state = "connected"
              PROVE  /\ ctl'.by \in Peers /\ WasAccepted(peer'[ctl'.by])
                     /\ ctl'.v = peer'[ctl'.by].v
  BY DEF ConnectionHonest
<1>1. CASE ctl'.state = ctl.state /\ ctl'.by = ctl.by /\ ctl'.v = ctl.v
  <2>1. ctl.by \in Peers /\ WasAccepted(peer[ctl.by]) /\ ctl.v = peer[ctl.by].v
    BY <1>1 DEF ConnectionHonest
  <2>. QED  BY <1>1, <2>1, AcceptedStays
<1>2. CASE resp # << >> /\ Head(resp).json /\ ctl'.by = Head(resp).by
             /\ ctl'.v = Head(resp).v
  <2>1. resp \in Seq(RespSet) /\ 1 \in 1..Len(resp) /\ Head(resp) = resp[1]
    BY <1>2, TypeParts
  <2>2. resp[1].by \in Peers
    <3>1. resp[1] \in RespSet
      BY <2>1
    <3>. QED  BY <3>1 DEF RespSet
  <2>3. WasAccepted(peer[resp[1].by]) /\ resp[1].v = peer[resp[1].by].v
    BY <1>2, <2>1 DEF ResponsesHonest
  <2>. QED  BY <1>2, <2>1, <2>2, <2>3, AcceptedStays
<1>. QED  BY <1>1, <1>2, CtlIs

LEMMA RequestsStep ==
  ASSUME TypeOK, RequestsHonest, [Next]_vars
  PROVE  RequestsHonest'
<1>0. req \in Seq(ReqSet) /\ Len(req) \in Nat /\ starts \in Nat /\ ctl \in CtlSet
  BY TypeParts, Bounds
<1>1. ASSUME req' = << >>
      PROVE  RequestsHonest'
  BY <1>1 DEF RequestsHonest
<1>2. ASSUME req' = req, starts' = starts, ~CtrlRestart
      PROVE  RequestsHonest'
  BY <1>2, CtlIs DEF RequestsHonest
<1>3. CASE Connect
  <2>. DEFINE m == [range |-> ctl.range, asked |-> starts + 1]
  <2>1. /\ req' = Append(req, m) /\ starts' = starts + 1
        /\ ctl'.range = ctl.range /\ ctl'.first = ctl.first
    <3>1. ~CtrlRestart \/ req' = << >>
      BY DEF CtrlRestart, ResetOf
    <3>2. req' = Append(req, m) /\ starts' = starts + 1
      BY <1>3 DEF Connect
    <3>. QED  BY <1>0, <3>1, <3>2, CtlIs
  <2>2. m.range = ctl.range /\ m.asked = starts + 1
    OBVIOUS
  <2>. HIDE DEF m
  <2>3. \A i \in 1..Len(req') : req'[i] = m \/ (i \in 1..Len(req) /\ req'[i] = req[i])
    BY <1>0, <2>1
  <2>4. \A i \in 1..Len(req) : req[i] \in ReqSet /\ req[i].asked \in Nat
    <3>1. \A i \in 1..Len(req) : req[i] \in ReqSet
      BY <1>0
    <3>. QED  BY <3>1 DEF ReqSet
  <2>5. ASSUME NEW i \in 1..Len(req'), i \in 1..Len(req), req'[i] = req[i]
        PROVE  /\ req'[i].asked <= starts'
               /\ req'[i].asked >= ctl'.first => req'[i].range = ctl'.range
    <3>1. /\ req[i].asked <= starts
          /\ req[i].asked >= ctl.first => req[i].range = ctl.range
      BY <2>5 DEF RequestsHonest
    <3>2. req[i].asked <= starts + 1
      BY <1>0, <2>4, <2>5, <3>1
    <3>. QED  BY <2>1, <2>5, <3>1, <3>2
  <2>6. ASSUME NEW i \in 1..Len(req'), req'[i] = m
        PROVE  /\ req'[i].asked <= starts'
               /\ req'[i].asked >= ctl'.first => req'[i].range = ctl'.range
    BY <1>0, <2>1, <2>2, <2>6
  <2>. QED  BY <2>3, <2>5, <2>6 DEF RequestsHonest
<1>4. CASE RxConnReq
  <2>1. req # << >> /\ req' = Tail(req) /\ starts' = starts /\ ctl' = ctl
    BY <1>4 DEF RxConnReq
  <2>2. \A i \in 1..Len(req') : req'[i] = req[i + 1] /\ i + 1 \in 1..Len(req)
    BY <1>0, <2>1
  <2>. QED  BY <2>1, <2>2 DEF RequestsHonest
<1>5. CASE CtrlRestart \/ Reset
  <2>1. req' = << >>
    BY <1>5 DEF CtrlRestart, Reset, ResetOf
  <2>. QED  BY <1>1, <2>1
<1>6. CASE BackendRenew
  <2>1. req' = req \/ req' = << >>
    BY <1>6 DEF BackendRenew
  <2>2. starts' = starts /\ ctl' = ctl
    BY <1>6 DEF BackendRenew
  <2>3. CASE req' = req
    BY <2>2, <2>3 DEF RequestsHonest
  <2>. QED  BY <1>1, <2>1, <2>3
<1>7. ASSUME NEW p \in Peers,
             \/ Accept(p) \/ Reject(p) \/ AcceptFails(p) \/ PeerDisconnect(p)
             \/ PeerLinkLost(p) \/ PeerLinkBack(p)
      PROVE  RequestsHonest'
  <2>1. UNCHANGED <<req, starts, ctl>>
    BY <1>7 DEF Accept, Reject, AcceptFails, PeerDisconnect, PeerLinkLost,
                PeerLinkBack, PeerLink
  <2>. QED  BY <2>1 DEF RequestsHonest
<1>8. ASSUME \/ Disconnect \/ RxConnResp \/ StartListen \/ StopListen
             \/ CtrlLinkLost \/ CtrlLinkBack \/ UNCHANGED vars
      PROVE  RequestsHonest'
  <2>1. req' = req /\ starts' = starts
    BY <1>8 DEF Disconnect, RxConnResp, StartListen, StopListen, CtrlLinkLost,
                CtrlLinkBack, CtrlLink, vars
  <2>. QED  BY <1>2, <1>5, <2>1
<1>. QED  BY <1>3, <1>4, <1>5, <1>6, <1>7, <1>8 DEF Next, Decide

\* Only a request makes a peer.
LEMMA NoNewPeer ==
  ASSUME TypeOK, [Next]_vars, ~RxConnReq, NEW k \in Peers, peer[k].state = "none"
  PROVE  peer'[k].state = "none"
<1>0. peer \in [Peers -> PeerSet]
  BY TypeParts
<1>1. ASSUME NEW p \in Peers, IsPending(p), NEW q, peer' = [peer EXCEPT ![p] = q]
      PROVE  peer'[k].state = "none"
  BY <1>0, <1>1 DEF IsPending
<1>2. ASSUME NEW p \in Peers, Accept(p)
      PROVE  peer'[k].state = "none"
  <2>. DEFINE new == [peer[p] EXCEPT !.state = "connected", !.half = FALSE,
                        !.started = (dev.chan = None), !.link = "OK",
                        !.log = Told(peer[p].log, <<"connected">>)]
  <2>1. peer' = [peer EXCEPT ![p] = new] /\ IsPending(p)
    BY <1>0, <1>2, AcceptIs DEF Accept
  <2>. QED  BY <1>1, <2>1
<1>3. ASSUME NEW p \in Peers, Reject(p)
      PROVE  peer'[k].state = "none"
  <2>1. peer' = [peer EXCEPT ![p] = Removed(peer[p])] /\ IsPending(p)
    BY <1>3 DEF Reject
  <2>. QED  BY <1>1, <2>1
<1>4. ASSUME NEW p \in Peers, PeerDisconnect(p)
      PROVE  peer'[k].state = "none"
  <2>1. peer' = [peer EXCEPT ![p] = Ended(peer[p])] /\ peer[p].state = "connected"
    BY <1>4 DEF PeerDisconnect
  <2>. QED  BY <1>0, <2>1
<1>5. ASSUME NEW p \in Peers, AcceptFails(p) \/ PeerLinkLost(p) \/ PeerLinkBack(p)
      PROVE  peer'[k].state = "none"
  <2>1. CASE AcceptFails(p)
    <3>1. peer' = [peer EXCEPT ![p] = [peer[p] EXCEPT !.half = TRUE]] /\ IsPending(p)
      BY <2>1 DEF AcceptFails
    <3>. QED  BY <1>1, <3>1
  <2>2. CASE PeerLinkLost(p) \/ PeerLinkBack(p)
    <3>1. \E status \in {"OK", "KO"} : peer' = [peer EXCEPT ![p].link = status]
      BY <2>2 DEF PeerLinkLost, PeerLinkBack, PeerLink
    <3>. QED  BY <1>0, <3>1 DEF PeerSet
  <2>. QED  BY <1>5, <2>1, <2>2
<1>6. CASE BackendRenew
  BY <1>6 DEF BackendRenew, PeersDestroyed
<1>7. CASE Reset \/ CtrlRestart
  <2>1. peer' = [p \in Peers |-> IF p # dev.chan THEN peer[p]
                              ELSE [peer[p] EXCEPT !.link = LinkReset(@)]]
    BY <1>7 DEF Reset, CtrlRestart, ResetOf
  <2>. QED  BY <1>0, <2>1 DEF PeerSet
<1>8. ASSUME \/ Connect \/ Disconnect \/ RxConnResp \/ StartListen \/ StopListen
             \/ CtrlLinkLost \/ CtrlLinkBack \/ UNCHANGED vars
      PROVE  peer'[k].state = "none"
  BY <1>8 DEF Connect, Disconnect, RxConnResp, StartListen, StopListen,
              CtrlLinkLost, CtrlLinkBack, CtrlLink, vars
<1>. QED  BY <1>2, <1>3, <1>4, <1>5, <1>6, <1>7, <1>8 DEF Next, Decide

\* What a request's peer has is what it asked for.
LEMMA NewPeerFits ==
  ASSUME TypeOK, RequestsHonest, RxConnReq, NEW k \in Peers,
         peer[k].state = "none", peer'[k].state # "none"
  PROVE  VersionFits(peer[k])'
<1>. DEFINE m == Head(req)
            r == m.range
<1>1. /\ m \in ReqSet /\ m.asked <= starts
      /\ m.asked >= ctl.first => r = ctl.range
  <2>1. req # << >> /\ req \in Seq(ReqSet)
    BY TypeParts DEF RxConnReq
  <2>2. 1 \in 1..Len(req) /\ m = req[1] /\ m \in ReqSet
    BY <2>1
  <2>. QED  BY <2>2 DEF RequestsHonest
<1>2. r \in CtrlRanges
  BY <1>1 DEF ReqSet
<1>3. UNCHANGED <<ctl, starts>>
  BY DEF RxConnReq
<1>4. /\ peer \in [Peers -> PeerSet]
      /\ peer'[k] = IF Common(r) = {} THEN [Absent EXCEPT !.state = "deaf"]
                    ELSE [Absent EXCEPT !.state = "pending", !.v = Chosen(r),
                            !.asked = m.asked, !.log = <<"added", "conn_req">>]
  BY TypeParts DEF RxConnReq
<1>. HIDE DEF m, r
<1>5. CASE Common(r) = {}
  <2>1. peer'[k].state = "deaf"
    BY <1>4, <1>5 DEF Absent
  <2>. QED  BY <2>1 DEF VersionFits
<1>6. CASE Common(r) # {}
  <2>1. peer'[k].v = Chosen(r) /\ peer'[k].asked = m.asked
    BY <1>4, <1>6 DEF Absent
  <2>2. Chosen(r) \in r[1]..r[2] /\ Chosen(r) \in DevRange[1]..DevRange[2]
    BY <1>2, <1>6, ChosenIsCommon
  <2>. QED  BY <1>1, <1>3, <2>1, <2>2 DEF VersionFits
<1>. QED  BY <1>5, <1>6

LEMMA VersionsStep ==
  ASSUME TypeOK, PeersMoved, RequestsHonest, VersionsFit, [Next]_vars
  PROVE  VersionsFit'
<1>. SUFFICES ASSUME NEW k \in Peers
              PROVE  VersionFits(peer[k])'
  BY DEF VersionsFit
<1>0. peer[k] \in PeerSet /\ starts \in Nat /\ ctl \in CtlSet
  BY TypeParts, Bounds
<1>1. CASE peer[k].state = "none"
  <2>1. CASE RxConnReq /\ peer'[k].state # "none"
    BY <1>1, <2>1, NewPeerFits
  <2>2. CASE peer'[k].state = "none"
    BY <2>2 DEF VersionFits
  <2>. QED  BY <1>1, <2>1, <2>2, NoNewPeer
<1>2. CASE peer[k].state # "none"
  <2>1. /\ peer'[k].v = peer[k].v /\ peer'[k].asked = peer[k].asked
        /\ peer'[k].state \in {"pending", "connected", "gone"} =>
             peer[k].state \in {"pending", "connected", "gone"}
    <3>1. Moved(peer[k], peer'[k]) /\ ~Taken(peer[k], peer'[k])
      BY <1>2 DEF PeersMoved, Taken
    <3>. QED  BY <1>0, <3>1, RemovedIs, EndedIs DEF Moved, Same, Answered
  <2>2. ASSUME starts' >= starts, starts' \in Nat,
               \/ ctl'.first = ctl.first /\ ctl'.range = ctl.range
               \/ ctl'.first = starts + 1
        PROVE  VersionFits(peer[k])'
    <3>1. peer[k].asked \in Nat /\ VersionFits(peer[k])
      BY <1>0 DEF PeerSet, VersionsFit
    <3>. QED  BY <1>0, <2>1, <2>2, <3>1 DEF VersionFits
  <2>3. CASE CtrlRestart
    <3>1. ctl'.first = starts + 1 /\ starts' = starts
      BY <2>3 DEF CtrlRestart, ResetOf, FreshCtl
    <3>. QED  BY <1>0, <2>2, <3>1
  <2>4. CASE ~CtrlRestart
    <3>1. starts' = starts \/ starts' = starts + 1
      BY DEF Next, Connect, Disconnect, RxConnResp, StartListen, StopListen, RxConnReq,
        Decide, Accept, Reject, AcceptFails, PeerDisconnect, BackendRenew, Reset,
        CtrlRestart, ResetOf, CtrlLinkLost, CtrlLinkBack, CtrlLink, PeerLinkLost,
        PeerLinkBack, PeerLink, vars
    <3>. QED  BY <1>0, <2>2, <2>4, <3>1, CtlIs
  <2>. QED  BY <2>3, <2>4
<1>. QED  BY <1>1, <1>2

\* A controller that is connected was accepted by a peer whose application was
\* told so, and uses its version: one of the device's, and one of its own but
\* if the request was of a controller that crashed since.
THEOREM ConnectedWereAccepted == Spec => []Accepted
<1>. DEFINE Inv == ResponsesHonest /\ ConnectionHonest /\ RequestsHonest /\ VersionsFit
<1>1. Init => Inv
  BY DEF Init, ResponsesHonest, ConnectionHonest, RequestsHonest, VersionsFit,
         VersionFits, Absent, FreshCtl
<1>2. TypeOK /\ NumberInv /\ PeerToldOnce /\ Inv /\ [Next]_vars => Inv'
  BY EveryStep, ResponsesStep, ConnectionStep, RequestsStep, VersionsStep DEF Step
<1>3. TypeOK /\ PeerToldOnce /\ Inv => Accepted
  BY HonestAccepted
<1>4. ToldOnce => PeerToldOnce
  BY DEF ToldOnce
<1>. HIDE DEF Inv
<1>. QED  BY <1>1, <1>2, <1>3, <1>4, SpecTypes, EndsAreToldOnce, PTL DEF Spec

(***************************************************************************)
(* Counting up to a bound                                                  *)
(***************************************************************************)

LEMMA LeastOf ==
  ASSUME NEW S \in SUBSET Nat, S # {}
  PROVE  \E x \in S : \A y \in S : x <= y
<1>1. \E x \in S : \A y \in S : ~(<<y, x>> \in OpToRel(<, Nat))
  BY NatLessThanWellFounded, WFMin, Zenon
<1>2. PICK x \in S : \A y \in S : ~(<<y, x>> \in OpToRel(<, Nat))
  BY <1>1
<1>3. ASSUME NEW y \in S
      PROVE  x <= y
  <2>1. ~(y < x)
    BY <1>2, <1>3 DEF OpToRel
  <2>. QED  BY <2>1
<1>. QED  BY <1>3

LEMMA CountUp ==
  ASSUME NEW N \in Nat, NEW T, 0 \in T,
         \A k \in 1..N : k - 1 \in T => k \in T
  PROVE  \A k \in 0..N : k \in T
<1>. DEFINE F == {k \in 0..N : k \notin T}
<1>1. SUFFICES ASSUME F # {}
               PROVE  FALSE
  OBVIOUS
<1>2. F \in SUBSET Nat
  OBVIOUS
<1>3. PICK k \in F : \A j \in F : k <= j
  BY <1>1, <1>2, LeastOf
<1>4. k # 0 /\ k \in 1..N
  BY <1>3
<1>5. k - 1 \notin F
  BY <1>3, <1>4
<1>. QED  BY <1>3, <1>4, <1>5

(***************************************************************************)
(* Commands and frames are read as they were written                       *)
(***************************************************************************)

(* What v is after i of n shifts.                                          *)
Shifts(f, v, k) == f = [i \in 0..k |-> IF i = 0 THEN v ELSE f[i - 1] \div 256]

LEMMA ShiftsIs ==
  ASSUME NEW v, NEW n \in Nat
  PROVE  \E f : Shifts(f, v, n)
<1>. DEFINE T == {k \in 0..n : \E f : Shifts(f, v, k)}
<1>1. 0 \in T
  <2>. DEFINE f == [i \in 0..0 |-> v]
  <2>1. Shifts(f, v, 0)
    BY DEF Shifts
  <2>. QED  BY <2>1
<1>2. ASSUME NEW k \in 1..n, k - 1 \in T
      PROVE  k \in T
  <2>1. PICK g : Shifts(g, v, k - 1)
    BY <1>2
  <2>. DEFINE f == [i \in 0..k |-> IF i = k THEN g[k - 1] \div 256 ELSE g[i]]
  <2>2. \A i \in 0..(k - 1) : g[i] = IF i = 0 THEN v ELSE g[i - 1] \div 256
    BY <2>1 DEF Shifts
  <2>3. \A i \in 0..k : f[i] = IF i = 0 THEN v ELSE f[i - 1] \div 256
    BY <2>2
  <2>4. Shifts(f, v, k)
    <3>1. f = [i \in 0..k |-> f[i]]
      OBVIOUS
    <3>. HIDE DEF f
    <3>. QED  BY <2>3, <3>1 DEF Shifts
  <2>. QED  BY <2>4
<1>. HIDE DEF T
<1>3. n \in T
  BY <1>1, <1>2, CountUp
<1>. QED  BY <1>3 DEF T

LEMMA RestsAre ==
  ASSUME NEW v, NEW n \in Nat
  PROVE  /\ Rests(v, n)[0] = v
         /\ \A i \in 1..n : Rests(v, n)[i] = Rests(v, n)[i - 1] \div 256
<1>. DEFINE f == CHOOSE g : Shifts(g, v, n)
<1>1. Rests(v, n) = f
  BY DEF Rests, Shifts
<1>2. Shifts(f, v, n)
  BY ShiftsIs
<1>. HIDE DEF f
<1>3. \A i \in 0..n : f[i] = IF i = 0 THEN v ELSE f[i - 1] \div 256
  BY <1>2 DEF Shifts
<1>. QED  BY <1>1, <1>3

Bytes8 == 0..255

LEMMA Widths ==
  ASSUME NEW type \in DOMAIN Width
  PROVE  Width[type] \in {1, 2, 4, 8}
  BY DEF Width

LEMMA RestsType ==
  ASSUME NEW v \in Int, NEW n \in Nat
  PROVE  \A i \in 0..n : Rests(v, n)[i] \in Int
<1>. DEFINE r == Rests(v, n)
            T == {k \in 0..n : r[k] \in Int}
<1>1. 0 \in T
  BY RestsAre
<1>2. ASSUME NEW k \in 1..n, k - 1 \in T
      PROVE  k \in T
  <2>1. r[k] = r[k - 1] \div 256
    BY RestsAre
  <2>. HIDE DEF r
  <2>2. r[k - 1] \div 256 \in Int
    BY <1>2
  <2>. QED  BY <2>1, <2>2
<1>. HIDE DEF T
<1>3. \A k \in 0..n : k \in T
  BY <1>1, <1>2, CountUp
<1>. QED  BY <1>3 DEF T

LEMMA FixedIs ==
  ASSUME NEW v \in Int, NEW n \in Nat
  PROVE  \A i \in 1..n : Fixed(v, n)[i] = Rests(v, n)[i - 1] % 256
<1>. DEFINE r == Rests(v, n)
<1>1. Fixed(v, n) = [i \in 1..n |-> r[i - 1] % 256]
  BY DEF Fixed
<1>. HIDE DEF r
<1>2. \A i \in 1..n : Fixed(v, n)[i] = r[i - 1] % 256
  BY <1>1
<1>. QED  BY <1>2 DEF r

LEMMA FixedType ==
  ASSUME NEW v \in Int, NEW n \in Nat
  PROVE  Fixed(v, n) \in Seq(Bytes8) /\ Len(Fixed(v, n)) = n
<1>. DEFINE r == Rests(v, n)
<1>1. \A i \in 1..n : r[i - 1] % 256 \in Bytes8
  <2>. SUFFICES ASSUME NEW i \in 1..n
                PROVE  r[i - 1] % 256 \in Bytes8
    OBVIOUS
  <2>1. r[i - 1] \in Int
    BY RestsType
  <2>. HIDE DEF r
  <2>. QED  BY <2>1 DEF Bytes8
<1>2. Fixed(v, n) = [i \in 1..n |-> r[i - 1] % 256]
  BY DEF Fixed
<1>. HIDE DEF r
<1>3. [i \in 1..n |-> r[i - 1] % 256] \in Seq(Bytes8)
  BY <1>1
<1>. QED  BY <1>2, <1>3, LenProperties

(* A part of a sequence that is another sequence.                          *)
LEMMA SubSeqIs ==
  ASSUME NEW S, NEW b \in Seq(S), NEW v \in Seq(S), NEW off \in Nat,
         off + Len(v) <= Len(b),
         \A i \in 1..Len(v) : b[off + i] = v[i]
  PROVE  SubSeq(b, off + 1, off + Len(v)) = v
<1>. DEFINE l == Len(v)
            m == off + 1
            n == off + l
            s == SubSeq(b, m, n)
<1>1. l \in Nat /\ Len(b) \in Nat /\ m \in Int /\ n \in Int
  BY LenProperties
<1>2. off + l <= Len(b)
  OBVIOUS
<1>. HIDE DEF l
<1>3. \A i \in m..n : b[i] \in S
  <2>1. \A i \in m..n : i \in 1..Len(b)
    BY <1>1, <1>2
  <2>. QED  BY <2>1, ElementOfSeq
<1>4. n - m + 1 = l /\ (m <= n \/ l = 0) /\ (m <= n <=> l # 0)
  BY <1>1
<1>. HIDE DEF m, n
<1>5. /\ s \in Seq(S) /\ Len(s) = IF m <= n THEN n - m + 1 ELSE 0
      /\ \A i \in 1..(n - m + 1) : s[i] = b[m + i - 1]
  BY <1>1, <1>3, SubSeqProperties
<1>. HIDE DEF s
<1>6. Len(s) = l
  BY <1>4, <1>5
<1>7. \A i \in 1..l : s[i] = v[i]
  <2>1. \A i \in 1..l : m + i - 1 = off + i
    BY <1>1 DEF m
  <2>2. \A i \in 1..l : b[off + i] = v[i]
    BY DEF l
  <2>. QED  BY <1>4, <1>5, <2>1, <2>2
<1>8. s = v
  BY <1>5, <1>6, <1>7, SeqEqual DEF l
<1>. QED  BY <1>8 DEF s, m, n, l

(* What decoder_read_* has read after i more bytes, from the highest.      *)
Reads(f, type, b, off, n, k) ==
    f = [i \in 0..k |->
           IF i = 0 THEN (IF type \in Signed /\ b[off + n] >= 128 THEN b[off + n] - 256
                          ELSE b[off + n])
           ELSE 256 * f[i - 1] + b[off + n - i]]

LEMMA ReadsIs ==
  ASSUME NEW type, NEW b, NEW off, NEW n, NEW m \in Nat
  PROVE  \E f : Reads(f, type, b, off, n, m)
<1>. DEFINE T == {k \in 0..m : \E f : Reads(f, type, b, off, n, k)}
            top == IF type \in Signed /\ b[off + n] >= 128 THEN b[off + n] - 256
                   ELSE b[off + n]
<1>1. 0 \in T
  <2>. DEFINE f == [i \in 0..0 |-> top]
  <2>1. Reads(f, type, b, off, n, 0)
    BY DEF Reads
  <2>. QED  BY <2>1
<1>2. ASSUME NEW k \in 1..m, k - 1 \in T
      PROVE  k \in T
  <2>1. PICK g : Reads(g, type, b, off, n, k - 1)
    BY <1>2
  <2>. DEFINE f == [i \in 0..k |-> IF i = k THEN 256 * g[k - 1] + b[off + n - k] ELSE g[i]]
  <2>2. \A i \in 0..(k - 1) : g[i] = IF i = 0 THEN top ELSE 256 * g[i - 1] + b[off + n - i]
    BY <2>1 DEF Reads
  <2>. HIDE DEF top
  <2>3. \A i \in 0..k : f[i] = IF i = 0 THEN top ELSE 256 * f[i - 1] + b[off + n - i]
    BY <2>2
  <2>4. Reads(f, type, b, off, n, k)
    <3>1. f = [i \in 0..k |-> f[i]]
      OBVIOUS
    <3>2. f = [i \in 0..k |-> IF i = 0 THEN top ELSE 256 * f[i - 1] + b[off + n - i]]
      <4>. HIDE DEF f
      <4>. QED  BY <2>3, <3>1
    <3>. HIDE DEF f
    <3>. QED  BY <3>2 DEF Reads, top
  <2>. QED  BY <2>4
<1>. HIDE DEF T
<1>3. m \in T
  BY <1>1, <1>2, CountUp
<1>. QED  BY <1>3 DEF T

LEMMA ReadFixedFits ==
  ASSUME NEW type \in DOMAIN Width, NEW v, FitsIn(type, v),
         NEW b, NEW off \in Nat, Len(b) \in Nat, off + Width[type] <= Len(b),
         \A p \in 1..Width[type] : b[off + p] = Fixed(v, Width[type])[p]
  PROVE  ReadFixed(type, b, off) = {[val |-> v, off |-> off + Width[type]]}
<1>. DEFINE n == Width[type]
            r == Rests(v, n)
            low == IF type \in Signed THEN -128 ELSE 0
            f == CHOOSE g : Reads(g, type, b, off, n, n - 1)
<1>1. n \in Nat /\ n >= 1
  BY Widths
<1>2. v \in Int /\ r[n - 1] \in low..(low + 255)
  BY DEF FitsIn
<1>3. /\ r[0] = v
      /\ \A i \in 1..n : r[i] = r[i - 1] \div 256
      /\ \A i \in 0..n : r[i] \in Int
  BY <1>1, <1>2, RestsAre, RestsType
<1>4. \A p \in 1..n : b[off + p] = r[p - 1] % 256
  <2>1. \A p \in 1..n : Fixed(v, n)[p] = r[p - 1] % 256
    <3>1. v \in Int /\ n \in Nat
      BY <1>1, <1>2
    <3>. HIDE DEF n
    <3>. QED  BY <3>1, FixedIs
  <2>2. \A p \in 1..n : b[off + p] = Fixed(v, n)[p]
    OBVIOUS
  <2>. HIDE DEF n, r
  <2>. QED  BY <2>1, <2>2
<1>5. ReadFixed(type, b, off) = {[val |-> f[n - 1], off |-> off + n]}
  BY <1>1 DEF ReadFixed, Got, Reads
<1>6. Reads(f, type, b, off, n, n - 1)
  <2>1. n - 1 \in Nat
    BY <1>1
  <2>. HIDE DEF n
  <2>. QED  BY <2>1, ReadsIs
<1>. HIDE DEF n, r, f
<1>. DEFINE T == {k \in 0..(n - 1) : f[k] = r[n - 1 - k]}
<1>7. 0 \in T
  <2>1. f[0] = IF type \in Signed /\ b[off + n] >= 128 THEN b[off + n] - 256 ELSE b[off + n]
    BY <1>1, <1>6 DEF Reads
  <2>2. b[off + n] = r[n - 1] % 256 /\ r[n - 1] \in Int
    BY <1>1, <1>3, <1>4
  <2>3. f[0] = r[n - 1]
    BY <1>2, <2>1, <2>2
  <2>4. n - 1 - 0 = n - 1 /\ 0 \in 0..(n - 1)
    BY <1>1
  <2>. QED  BY <2>3, <2>4
<1>8. ASSUME NEW k \in 1..(n - 1), k - 1 \in T
      PROVE  k \in T
  <2>1. f[k] = 256 * f[k - 1] + b[off + n - k]
    BY <1>1, <1>6 DEF Reads
  <2>. DEFINE q == n - k
  <2>2. q \in 1..n /\ off + n - k = off + q /\ n - 1 - (k - 1) = q /\ n - 1 - k = q - 1
    BY <1>1
  <2>. HIDE DEF q
  <2>3. f[k - 1] = r[q]
    BY <1>8, <2>2
  <2>4. r[q] = r[q - 1] \div 256 /\ r[q - 1] \in Int /\ b[off + q] = r[q - 1] % 256
    BY <1>1, <1>3, <1>4, <2>2
  <2>5. f[k] = r[q - 1]
    BY <2>1, <2>2, <2>3, <2>4
  <2>. QED  BY <2>2, <2>5
<1>9. n - 1 \in 0..(n - 1) /\ n - 1 - (n - 1) = 0 /\ n - 1 \in Nat
  BY <1>1
<1>. HIDE DEF T
<1>10. n - 1 \in T
  BY <1>7, <1>8, <1>9, CountUp
<1>11. f[n - 1] = v
  BY <1>3, <1>9, <1>10 DEF T
<1>. QED  BY <1>5, <1>11 DEF n

(* Where the bytes of an argument are.                                     *)
LEMMA WrittenType ==
  ASSUME NEW type \in ArgTypes, NEW v, Fits(type, v)
  PROVE  Written(type, v) \in Seq(Bytes8) /\ Len(Written(type, v)) \in Nat \ {0}
<1>1. CASE type = "STRING"
  <2>1. v \in Seq(1..255) /\ Written(type, v) = Append(v, 0)
    BY <1>1 DEF Fits, Written
  <2>2. v \in Seq(Bytes8) /\ 0 \in Bytes8
    <3>1. 1..255 \subseteq Bytes8
      BY DEF Bytes8
    <3>. QED  BY <2>1, <3>1 DEF Bytes8
  <2>. QED  BY <2>1, <2>2, AppendProperties, LenProperties
<1>2. CASE type = "BINARY"
  <2>1. /\ v \in Seq(Bytes8) /\ FitsIn("U32", Len(v))
        /\ Written(type, v) = Fixed(Len(v), 4) \o v
    BY <1>2 DEF Fits, Written, Bytes8
  <2>2. Len(v) \in Int /\ Len(v) \in Nat
    BY <2>1, LenProperties
  <2>. DEFINE size == Fixed(Len(v), 4)
              w == Written(type, v)
  <2>3. size \in Seq(Bytes8) /\ Len(size) = 4
    BY <2>2, FixedType
  <2>4. w = size \o v
    BY <2>1
  <2>. HIDE DEF size, w
  <2>5. v \in Seq(Bytes8)
    BY <2>1
  <2>6. w \in Seq(Bytes8) /\ Len(w) = Len(size) + Len(v)
    BY <2>3, <2>4, <2>5, ConcatProperties
  <2>. QED  BY <2>2, <2>3, <2>6 DEF w
<1>3. CASE type \notin {"STRING", "BINARY"}
  <2>1. type \in DOMAIN Width /\ FitsIn(type, v) /\ Written(type, v) = Fixed(v, Width[type])
    BY <1>3 DEF Fits, Written, ArgTypes
  <2>2. v \in Int /\ Width[type] \in Nat \ {0}
    BY <2>1, Widths DEF FitsIn
  <2>. QED  BY <2>1, <2>2, FixedType
<1>. QED  BY <1>1, <1>2, <1>3

(* The bytes of an argument are read back, and the first of them are not.  *)
LEMMA ReadArgWhole ==
  ASSUME NEW type \in ArgTypes, NEW v, Fits(type, v),
         NEW b \in Seq(Bytes8), NEW off \in Nat,
         off + Len(Written(type, v)) <= Len(b),
         \A p \in 1..Len(Written(type, v)) : b[off + p] = Written(type, v)[p]
  PROVE  ReadArg(type, b, off) = {[val |-> v, off |-> off + Len(Written(type, v))]}
<1>. DEFINE w == Written(type, v)
<1>1. Len(b) \in Nat /\ Len(w) \in Nat \ {0}
  BY LenProperties, WrittenType
<1>2. CASE type = "STRING"
  <2>1. v \in Seq(1..255) /\ w = Append(v, 0)
    BY <1>2 DEF Fits, Written
  <2>2. /\ Len(v) \in Nat /\ Len(w) = Len(v) + 1 /\ w[Len(v) + 1] = 0
        /\ \A p \in 1..Len(v) : w[p] = v[p] /\ v[p] \in 1..255
    BY <2>1, AppendProperties, LenProperties, ElementOfSeq
  <2>3. off + Len(w) <= Len(b) /\ \A p \in 1..Len(w) : b[off + p] = w[p]
    OBVIOUS
  <2>. HIDE DEF w
  <2>. DEFINE nulls == {p \in (off + 1)..Len(b) : b[p] = 0}
              end == CHOOSE p \in nulls : \A q \in nulls : p <= q
              z == off + Len(v) + 1
  <2>4. z \in nulls
    <3>1. z \in (off + 1)..Len(b)
      BY <1>1, <2>2, <2>3
    <3>2. Len(v) + 1 \in 1..Len(w) /\ z = off + (Len(v) + 1)
      BY <2>2
    <3>3. b[z] = 0
      <4>. HIDE DEF z
      <4>. QED  BY <2>2, <2>3, <3>2
    <3>. QED  BY <3>1, <3>3
  <2>5. \A q \in nulls : z <= q
    <3>1. SUFFICES ASSUME NEW q \in nulls, ~(z <= q)
                   PROVE  FALSE
      OBVIOUS
    <3>. DEFINE p == q - off
    <3>2. p \in 1..Len(v) /\ p \in 1..Len(w) /\ off + p = q
      BY <1>1, <2>2, <3>1
    <3>. HIDE DEF p
    <3>3. w[p] = v[p] /\ v[p] \in 1..255
      BY <2>2, <3>2
    <3>4. b[off + p] = w[p]
      BY <2>3, <3>2
    <3>5. b[q] = 0
      BY <3>1
    <3>6. b[q] = v[p]
      BY <3>2, <3>3, <3>4
    <3>7. \A x \in 1..255 : x # 0
      OBVIOUS
    <3>8. v[p] # 0
      BY <3>3, <3>7, Zenon
    <3>. QED  BY <3>5, <3>6, <3>8, Zenon
  <2>6. z \in Int /\ \A q \in nulls : q \in Int
    BY <1>1, <2>2
  <2>. HIDE DEF nulls, z
  <2>7. end = z
    <3>1. end \in nulls /\ \A q \in nulls : end <= q
      BY <2>4, <2>5
    <3>. HIDE DEF end
    <3>. QED  BY <2>4, <2>5, <2>6, <3>1
  <2>8. ReadArg(type, b, off) = {[val |-> SubSeq(b, off + 1, end - 1), off |-> end]}
    BY <1>2, <2>4 DEF ReadArg, ReadCstr, Got, nulls
  <2>. HIDE DEF end
  <2>9. SubSeq(b, off + 1, z - 1) = v
    <3>1. z - 1 = off + Len(v) /\ off + Len(v) <= Len(b)
      BY <1>1, <2>2, <2>3 DEF z
    <3>2. \A i \in 1..Len(v) : b[off + i] = v[i]
      <4>1. \A i \in 1..Len(v) : i \in 1..Len(w)
        BY <1>1, <2>2
      <4>. QED  BY <2>2, <2>3, <4>1
    <3>3. v \in Seq(Bytes8)
      <4>1. \A i \in 1..Len(v) : v[i] \in Bytes8
        BY <2>2 DEF Bytes8
      <4>2. v = [i \in 1..Len(v) |-> v[i]]
        BY <2>1
      <4>. QED  BY <2>2, <4>1, <4>2
    <3>4. SubSeq(b, off + 1, off + Len(v)) = v
      BY <3>1, <3>2, <3>3, SubSeqIs
    <3>. QED  BY <3>1, <3>4
  <2>10. off + Len(w) = z
    BY <1>1, <2>2 DEF z
  <2>11. ReadArg(type, b, off) = {[val |-> v, off |-> off + Len(w)]}
    BY <2>7, <2>8, <2>9, <2>10
  <2>. QED  BY <2>11 DEF w
<1>3. CASE type \notin {"STRING", "BINARY"}
  <2>1. type \in DOMAIN Width /\ FitsIn(type, v) /\ w = Fixed(v, Width[type])
    BY <1>3 DEF Fits, Written, ArgTypes
  <2>2. v \in Int /\ Width[type] \in Nat \ {0}
    BY <2>1, Widths DEF FitsIn
  <2>3. Len(w) = Width[type]
    BY <2>1, <2>2, FixedType
  <2>4. ReadArg(type, b, off) = ReadFixed(type, b, off)
    BY <1>3 DEF ReadArg
  <2>5. off + Width[type] <= Len(b) /\ \A p \in 1..Width[type] : b[off + p] = Fixed(v, Width[type])[p]
    BY <2>1, <2>3
  <2>6. ReadFixed(type, b, off) = {[val |-> v, off |-> off + Width[type]]}
    BY <1>1, <2>1, <2>5, ReadFixedFits
  <2>. QED  BY <2>3, <2>4, <2>6
<1>4. CASE type = "BINARY"
  <2>. DEFINE l == Len(v)
              size == Fixed(l, 4)
  <2>1. v \in Seq(Bytes8) /\ FitsIn("U32", l) /\ w = size \o v
    BY <1>4 DEF Fits, Written, Bytes8
  <2>2. l \in Int /\ l \in Nat
    BY <2>1, LenProperties
  <2>3. size \in Seq(Bytes8) /\ Len(size) = 4
    BY <2>2, FixedType
  <2>5. off + Len(w) <= Len(b) /\ \A p \in 1..Len(w) : b[off + p] = w[p]
    OBVIOUS
  <2>. HIDE DEF l, w, size
  <2>4. /\ Len(w) = 4 + l
        /\ \A i \in 1..(4 + l) : w[i] = IF i <= 4 THEN size[i] ELSE v[i - 4]
    <3>1. v \in Seq(Bytes8) /\ w = size \o v
      BY <2>1
    <3>2. /\ Len(w) = Len(size) + Len(v)
          /\ \A i \in 1..(Len(size) + Len(v)) :
               w[i] = IF i <= Len(size) THEN size[i] ELSE v[i - Len(size)]
      <4>1. v \in Seq(Bytes8) /\ size \in Seq(Bytes8)
        BY <2>3, <3>1
      <4>2. /\ Len(size \o v) = Len(size) + Len(v)
            /\ \A i \in 1..(Len(size) + Len(v)) :
                 (size \o v)[i] = IF i <= Len(size) THEN size[i] ELSE v[i - Len(size)]
        BY <4>1, ConcatProperties
      <4>. QED  BY <3>1, <4>2, Zenon
    <3>3. Len(size) = 4 /\ Len(v) = l
      <4>1. Len(size) = 4
        BY <2>3
      <4>2. Len(v) = l
        BY DEF l
      <4>. QED  BY <4>1, <4>2
    <3>4. Len(w) = 4 + l
      BY <3>2, <3>3
    <3>5. \A i \in 1..(4 + l) : w[i] = IF i <= 4 THEN size[i] ELSE v[i - 4]
      <4>1. \A i \in 1..(Len(size) + Len(v)) :
               w[i] = IF i <= Len(size) THEN size[i] ELSE v[i - Len(size)]
        BY <3>2
      <4>. QED  BY <3>3, <4>1
    <3>. QED  BY <3>4, <3>5
  <2>6. "U32" \in DOMAIN Width /\ Width["U32"] = 4
    BY DEF Width
  <2>7. ReadFixed("U32", b, off) = {[val |-> l, off |-> off + 4]}
    <3>. DEFINE n == Width["U32"]
    <3>1. off + n <= Len(b)
      BY <1>1, <2>2, <2>4, <2>5, <2>6
    <3>2. \A p \in 1..4 : p \in 1..Len(w) /\ w[p] = size[p]
      BY <2>2, <2>4
    <3>3. \A p \in 1..4 : b[off + p] = size[p]
      BY <2>5, <3>2
    <3>4. \A p \in 1..n : b[off + p] = Fixed(l, n)[p]
      BY <2>6, <3>3 DEF size
    <3>5. FitsIn("U32", l)
      BY <2>1
    <3>6. ReadFixed("U32", b, off) = {[val |-> l, off |-> off + n]}
      <4>1. "U32" \in DOMAIN Width /\ Len(b) \in Nat
        BY <1>1, <2>6
      <4>. HIDE DEF n
      <4>. QED  BY <3>1, <3>4, <3>5, <4>1, ReadFixedFits DEF n
    <3>. QED  BY <2>6, <3>6
  <2>8. ReadArg(type, b, off) =
          {[val |-> SubSeq(b, (off + 4) + 1, (off + 4) + l), off |-> (off + 4) + l]}
    <3>1. ~((off + 4) + l > Len(b))
      BY <1>1, <2>2, <2>4, <2>5
    <3>2. ReadArg(type, b, off) =
            UNION {IF len.off + len.val > Len(b) THEN {}
                   ELSE Got(SubSeq(b, len.off + 1, len.off + len.val), len.off + len.val) :
                     len \in {[val |-> l, off |-> off + 4]}}
      BY <1>4, <2>7 DEF ReadArg, ReadBinary
    <3>. QED  BY <3>1, <3>2 DEF Got
  <2>9. SubSeq(b, (off + 4) + 1, (off + 4) + l) = v
    <3>2. \A i \in 1..l : b[(off + 4) + i] = v[i]
      <4>. SUFFICES ASSUME NEW i \in 1..l
                    PROVE  b[(off + 4) + i] = v[i]
        OBVIOUS
      <4>. DEFINE j == i + 4
      <4>1. j \in 1..(4 + l) /\ ~(j <= 4) /\ j - 4 = i /\ (off + 4) + i = off + j
        BY <2>2
      <4>. HIDE DEF j
      <4>. QED  BY <2>4, <2>5, <4>1
    <3>3. (off + 4) + l <= Len(b) /\ off + 4 \in Nat
      BY <1>1, <2>2, <2>4, <2>5
    <3>. QED  BY <2>1, <3>2, <3>3, SubSeqIs DEF l
  <2>10. off + Len(w) = (off + 4) + l
    BY <2>2, <2>4
  <2>11. ReadArg(type, b, off) = {[val |-> v, off |-> off + Len(w)]}
    BY <2>8, <2>9, <2>10
  <2>. QED  BY <2>11 DEF w
<1>. QED  BY <1>2, <1>3, <1>4

LEMMA ReadArgPart ==
  ASSUME NEW type \in ArgTypes, NEW v, Fits(type, v),
         NEW b \in Seq(Bytes8), NEW off \in Nat, off <= Len(b),
         Len(b) < off + Len(Written(type, v)),
         \A p \in 1..(Len(b) - off) : b[off + p] = Written(type, v)[p]
  PROVE  ReadArg(type, b, off) = {}
<1>. DEFINE w == Written(type, v)
<1>1. Len(b) \in Nat /\ Len(w) \in Nat \ {0}
  BY LenProperties, WrittenType
<1>2. Len(b) < off + Len(w) /\ \A p \in 1..(Len(b) - off) : b[off + p] = w[p]
  OBVIOUS
<1>3. CASE type = "STRING"
  <2>1. v \in Seq(1..255) /\ w = Append(v, 0)
    BY <1>3 DEF Fits, Written
  <2>. HIDE DEF w
  <2>2. /\ Len(v) \in Nat /\ Len(w) = Len(v) + 1
        /\ \A p \in 1..Len(v) : w[p] = v[p] /\ v[p] \in 1..255
    BY <2>1, AppendProperties, LenProperties, ElementOfSeq
  <2>. DEFINE nulls == {p \in (off + 1)..Len(b) : b[p] = 0}
  <2>3. nulls = {}
    <3>1. SUFFICES ASSUME NEW q \in nulls
                   PROVE  FALSE
      OBVIOUS
    <3>. DEFINE p == q - off
    <3>2. p \in 1..Len(v) /\ p \in 1..(Len(b) - off) /\ off + p = q
      BY <1>1, <1>2, <2>2
    <3>3. b[q] = 0
      OBVIOUS
    <3>. HIDE DEF p, nulls
    <3>4. w[p] = v[p] /\ v[p] \in 1..255
      BY <2>2, <3>2
    <3>5. b[off + p] = w[p]
      BY <1>2, <3>2
    <3>6. b[q] = v[p]
      BY <3>2, <3>4, <3>5, Zenon
    <3>7. \A x \in 1..255 : x # 0
      OBVIOUS
    <3>. QED  BY <3>3, <3>4, <3>6, <3>7, Zenon
  <2>. QED  BY <1>3, <2>3 DEF ReadArg, ReadCstr
<1>4. CASE type \notin {"STRING", "BINARY"}
  <2>1. type \in DOMAIN Width /\ FitsIn(type, v) /\ w = Fixed(v, Width[type])
    BY <1>4 DEF Fits, Written, ArgTypes
  <2>2. v \in Int /\ Width[type] \in Nat \ {0}
    BY <2>1, Widths DEF FitsIn
  <2>3. Len(w) = Width[type]
    BY <2>1, <2>2, FixedType
  <2>4. ReadArg(type, b, off) = ReadFixed(type, b, off)
    BY <1>4 DEF ReadArg
  <2>5. off + Width[type] > Len(b)
    BY <1>1, <1>2, <2>2, <2>3
  <2>. QED  BY <2>4, <2>5 DEF ReadFixed
<1>5. CASE type = "BINARY"
  <2>. DEFINE l == Len(v)
              size == Fixed(l, 4)
  <2>1. v \in Seq(Bytes8) /\ FitsIn("U32", l) /\ w = size \o v
    BY <1>5 DEF Fits, Written, Bytes8
  <2>2. l \in Int /\ l \in Nat
    BY <2>1, LenProperties
  <2>3. size \in Seq(Bytes8) /\ Len(size) = 4
    BY <2>2, FixedType
  <2>4. v \in Seq(Bytes8) /\ w = size \o v
    BY <2>1
  <2>. HIDE DEF l, w, size
  <2>5. /\ Len(size \o v) = Len(size) + Len(v)
        /\ \A i \in 1..(Len(size) + Len(v)) :
             (size \o v)[i] = IF i <= Len(size) THEN size[i] ELSE v[i - Len(size)]
    BY <2>3, <2>4, ConcatProperties
  <2>6. Len(w) = 4 + l
    <3>1. Len(v) = l
      BY DEF l
    <3>. QED  BY <2>3, <2>4, <2>5, <3>1
  <2>7. "U32" \in DOMAIN Width /\ Width["U32"] = 4
    BY DEF Width
  <2>8. CASE off + 4 > Len(b)
    <3>1. ReadFixed("U32", b, off) = {}
      BY <2>7, <2>8 DEF ReadFixed
    <3>. QED  BY <1>5, <3>1 DEF ReadArg, ReadBinary
  <2>9. CASE off + 4 <= Len(b)
    <3>. DEFINE n == Width["U32"]
    <3>1. \A p \in 1..4 : p \in 1..(Len(b) - off) /\ p \in 1..(Len(size) + Len(v)) /\ p <= Len(size)
      <4>1. Len(v) \in Nat
        BY <2>2 DEF l
      <4>. QED  BY <1>1, <2>3, <2>9, <4>1
    <3>2. \A p \in 1..4 : b[off + p] = size[p]
      BY <1>2, <2>4, <2>5, <3>1
    <3>3. \A p \in 1..n : b[off + p] = Fixed(l, n)[p]
      BY <2>7, <3>2 DEF size
    <3>4. FitsIn("U32", l) /\ off + n <= Len(b)
      BY <2>1, <2>7, <2>9
    <3>5. ReadFixed("U32", b, off) = {[val |-> l, off |-> off + n]}
      <4>1. "U32" \in DOMAIN Width /\ Len(b) \in Nat
        BY <1>1, <2>7
      <4>. HIDE DEF n
      <4>. QED  BY <3>3, <3>4, <4>1, ReadFixedFits DEF n
    <3>6. ReadFixed("U32", b, off) = {[val |-> l, off |-> off + 4]}
      BY <2>7, <3>5
    <3>7. (off + 4) + l > Len(b)
      BY <1>1, <1>2, <2>2, <2>6
    <3>8. ReadArg(type, b, off) =
            UNION {IF len.off + len.val > Len(b) THEN {}
                   ELSE Got(SubSeq(b, len.off + 1, len.off + len.val), len.off + len.val) :
                     len \in {[val |-> l, off |-> off + 4]}}
      BY <1>5, <3>6 DEF ReadArg, ReadBinary
    <3>. QED  BY <3>7, <3>8
  <2>10. off + 4 \in Int /\ Len(b) \in Int
    BY <1>1
  <2>. QED  BY <2>8, <2>9, <2>10
<1>. QED  BY <1>3, <1>4, <1>5

(* A command's bytes after each argument.                                  *)
Encodes(f, d, argv, k) ==
    f = [i \in 0..k |-> IF i = 0 THEN <<d.prj, d.cls>> \o Fixed(d.cmd, 2)
                        ELSE f[i - 1] \o Written(argv[i].type, argv[i].val)]

LEMMA EncodesIs ==
  ASSUME NEW d, NEW argv, NEW m \in Nat
  PROVE  \E f : Encodes(f, d, argv, m)
<1>. DEFINE T == {k \in 0..m : \E f : Encodes(f, d, argv, k)}
            top == <<d.prj, d.cls>> \o Fixed(d.cmd, 2)
            W(i) == Written(argv[i].type, argv[i].val)
<1>1. 0 \in T
  <2>. DEFINE f == [i \in 0..0 |-> top]
  <2>1. Encodes(f, d, argv, 0)
    BY DEF Encodes
  <2>. QED  BY <2>1
<1>2. ASSUME NEW k \in 1..m, k - 1 \in T
      PROVE  k \in T
  <2>1. PICK g : Encodes(g, d, argv, k - 1)
    BY <1>2
  <2>. DEFINE f == [i \in 0..k |-> IF i = k THEN g[k - 1] \o W(k) ELSE g[i]]
  <2>2. \A i \in 0..(k - 1) : g[i] = IF i = 0 THEN top ELSE g[i - 1] \o W(i)
    BY <2>1 DEF Encodes
  <2>. HIDE DEF top, W
  <2>3. \A i \in 0..k : f[i] = IF i = 0 THEN top ELSE f[i - 1] \o W(i)
    BY <2>2
  <2>4. Encodes(f, d, argv, k)
    <3>1. f = [i \in 0..k |-> f[i]]
      OBVIOUS
    <3>2. f = [i \in 0..k |-> IF i = 0 THEN top ELSE f[i - 1] \o W(i)]
      <4>. HIDE DEF f
      <4>. QED  BY <2>3, <3>1
    <3>. HIDE DEF f
    <3>. QED  BY <3>2 DEF Encodes, top, W
  <2>. QED  BY <2>4
<1>. HIDE DEF T
<1>3. m \in T
  BY <1>1, <1>2, CountUp
<1>. QED  BY <1>3 DEF T

(* The arguments of a command after its numbers, and its bytes.            *)
Layout(E, types, vals) ==
    /\ types \in Seq(ArgTypes)
    /\ vals = [i \in 1..Len(types) |-> vals[i]]
    /\ \A i \in 1..Len(types) : Fits(types[i], vals[i])
    /\ E[0] \in Seq(Bytes8) /\ Len(E[0]) = 4
    /\ \A i \in 1..Len(types) : E[i] = E[i - 1] \o Written(types[i], vals[i])

LEMMA LayoutArgs ==
  ASSUME NEW E, NEW types, NEW vals, Layout(E, types, vals)
  PROVE  /\ Len(types) \in Nat
         /\ \A i \in 1..Len(types) :
              /\ types[i] \in ArgTypes /\ Fits(types[i], vals[i])
              /\ Written(types[i], vals[i]) \in Seq(Bytes8)
              /\ Len(Written(types[i], vals[i])) \in Nat \ {0}
<1>1. types \in Seq(ArgTypes) /\ \A i \in 1..Len(types) : Fits(types[i], vals[i])
  BY DEF Layout
<1>2. Len(types) \in Nat /\ \A i \in 1..Len(types) : types[i] \in ArgTypes
  BY <1>1, LenProperties, ElementOfSeq
<1>. QED  BY <1>1, <1>2, WrittenType

LEMMA LayoutBytes ==
  ASSUME NEW E, NEW types, NEW vals, Layout(E, types, vals)
  PROVE  \A i \in 0..Len(types) :
           /\ E[i] \in Seq(Bytes8) /\ Len(E[i]) \in Nat /\ Len(E[i]) >= 4 + i
<1>. DEFINE N == Len(types)
            W(i) == Written(types[i], vals[i])
            Good(i) == E[i] \in Seq(Bytes8) /\ Len(E[i]) \in Nat /\ Len(E[i]) >= 4 + i
            T == {i \in 0..N : Good(i)}
<1>1. N \in Nat /\ \A i \in 1..N : W(i) \in Seq(Bytes8) /\ Len(W(i)) \in Nat \ {0}
  BY LayoutArgs
<1>2. E[0] \in Seq(Bytes8) /\ Len(E[0]) = 4 /\ \A i \in 1..N : E[i] = E[i - 1] \o W(i)
  BY DEF Layout
<1>. HIDE DEF N, W
<1>3. 0 \in T
  <2>1. Len(E[0]) \in Nat /\ Len(E[0]) >= 4 + 0
    BY <1>2
  <2>2. Good(0)
    BY <1>2, <2>1
  <2>. QED  BY <1>1, <2>2
<1>4. ASSUME NEW k \in 1..N, k - 1 \in T
      PROVE  k \in T
  <2>1. E[k - 1] \in Seq(Bytes8) /\ W(k) \in Seq(Bytes8)
    BY <1>1, <1>4
  <2>2. Len(E[k - 1]) \in Nat /\ Len(E[k - 1]) >= 4 + (k - 1) /\ Len(W(k)) \in Nat \ {0}
    BY <1>1, <1>4
  <2>3. E[k] = E[k - 1] \o W(k)
    BY <1>2
  <2>4. /\ E[k - 1] \o W(k) \in Seq(Bytes8)
        /\ Len(E[k - 1] \o W(k)) = Len(E[k - 1]) + Len(W(k))
    BY <2>1, ConcatProperties
  <2>5. E[k] \in Seq(Bytes8) /\ Len(E[k]) = Len(E[k - 1]) + Len(W(k))
    BY <2>3, <2>4
  <2>6. Len(E[k]) \in Nat /\ Len(E[k]) >= 4 + k
    BY <2>2, <2>5
  <2>. QED  BY <1>1, <2>5, <2>6
<1>. HIDE DEF T
<1>5. \A k \in 0..N : k \in T
  BY <1>1, <1>3, <1>4, CountUp
<1>. QED  BY <1>5 DEF T, N

(* f is e, then w.                                                         *)
Extends(f, e, w) ==
    /\ Len(f) = Len(e) + Len(w)
    /\ \A p \in 1..Len(e) : f[p] = e[p]
    /\ \A p \in 1..Len(w) : f[Len(e) + p] = w[p]

LEMMA LayoutStep ==
  ASSUME NEW E, NEW types, NEW vals, Layout(E, types, vals)
  PROVE  \A i \in 1..Len(types) : Extends(E[i], E[i - 1], Written(types[i], vals[i]))
<1>. TAKE i \in 1..Len(types)
<1>. DEFINE w == Written(types[i], vals[i])
            e == E[i - 1]
            f == E[i]
<1>1. f = e \o w
  BY DEF Layout
<1>2. i \in 0..Len(types) /\ i - 1 \in 0..Len(types)
  BY LayoutArgs
<1>3. e \in Seq(Bytes8) /\ w \in Seq(Bytes8)
  BY <1>2, LayoutArgs, LayoutBytes
<1>. HIDE DEF e, w, f
<1>4. /\ Len(e \o w) = Len(e) + Len(w)
      /\ \A p \in 1..(Len(e) + Len(w)) : (e \o w)[p] = IF p <= Len(e) THEN e[p] ELSE w[p - Len(e)]
  BY <1>3, ConcatProperties
<1>5. Len(e) \in Nat /\ Len(w) \in Nat
  BY <1>3, LenProperties
<1>6. \A p \in 1..Len(e) : f[p] = e[p]
  <2>1. \A p \in 1..Len(e) : p \in 1..(Len(e) + Len(w)) /\ p <= Len(e)
    BY <1>5
  <2>. QED  BY <1>1, <1>4, <2>1
<1>7. \A p \in 1..Len(w) : f[Len(e) + p] = w[p]
  <2>. SUFFICES ASSUME NEW p \in 1..Len(w)
                PROVE  f[Len(e) + p] = w[p]
    OBVIOUS
  <2>. DEFINE q == Len(e) + p
  <2>1. q \in 1..(Len(e) + Len(w)) /\ ~(q <= Len(e)) /\ q - Len(e) = p
    BY <1>5
  <2>. HIDE DEF q
  <2>2. f[q] = w[p]
    BY <1>1, <1>4, <2>1
  <2>. QED  BY <2>2 DEF q
<1>8. Extends(f, e, w)
  BY <1>1, <1>4, <1>6, <1>7 DEF Extends
<1>. QED  BY <1>8 DEF f, e, w

(* f begins with e.                                                        *)
Begins(f, e) == Len(e) <= Len(f) /\ \A p \in 1..Len(e) : f[p] = e[p]

LEMMA LayoutPrefix ==
  ASSUME NEW E, NEW types, NEW vals, Layout(E, types, vals)
  PROVE  \A k \in 0..Len(types) : \A i \in 0..k : Begins(E[k], E[i])
<1>. DEFINE N == Len(types)
            Good(k) == \A i \in 0..k : Begins(E[k], E[i])
            T == {k \in 0..N : Good(k)}
<1>1. N \in Nat /\ \A i \in 0..N : Len(E[i]) \in Nat
  BY LayoutArgs, LayoutBytes
<1>2. 0 \in T
  <2>1. \A i \in 0..0 : i = 0
    OBVIOUS
  <2>2. Good(0)
    BY <1>1, <2>1 DEF Begins
  <2>. QED  BY <1>1, <2>2
<1>3. ASSUME NEW k \in 1..N, k - 1 \in T
      PROVE  k \in T
  <2>. DEFINE w == Written(types[k], vals[k])
              f == E[k]
              g == E[k - 1]
  <2>1. Extends(f, g, w) /\ Len(w) \in Nat
    BY LayoutStep, LayoutArgs
  <2>2. Good(k)
    <3>. SUFFICES ASSUME NEW i \in 0..k
                  PROVE  Begins(E[k], E[i])
      OBVIOUS
    <3>. DEFINE e == E[i]
    <3>1. CASE i = k
      <4>1. Len(e) \in Nat /\ e = f
        BY <1>1, <3>1
      <4>. HIDE DEF e, f
      <4>2. Begins(f, e)
        BY <4>1 DEF Begins
      <4>. QED  BY <4>2 DEF e, f
    <3>2. CASE i # k
      <4>1. i \in 0..(k - 1) /\ i \in 0..N /\ k \in 0..N /\ k - 1 \in 0..N
        BY <1>1, <3>2
      <4>2. Begins(g, e)
        BY <1>3, <4>1
      <4>3. Len(e) \in Nat /\ Len(f) \in Nat /\ Len(g) \in Nat
        BY <1>1, <4>1
      <4>. HIDE DEF e, f, g, w
      <4>4. Len(f) = Len(g) + Len(w) /\ \A p \in 1..Len(g) : f[p] = g[p]
        BY <2>1 DEF Extends
      <4>5. Len(e) <= Len(g) /\ \A p \in 1..Len(e) : g[p] = e[p]
        BY <4>2 DEF Begins
      <4>6. Len(e) <= Len(f)
        BY <2>1, <4>3, <4>4, <4>5
      <4>7. \A p \in 1..Len(e) : p \in 1..Len(g)
        BY <4>3, <4>5
      <4>8. Begins(f, e)
        BY <4>4, <4>5, <4>6, <4>7 DEF Begins
      <4>. QED  BY <4>8 DEF e, f
    <3>. QED  BY <3>1, <3>2
  <2>. QED  BY <1>1, <2>2
<1>. HIDE DEF T
<1>4. \A k \in 0..N : k \in T
  BY <1>1, <1>2, <1>3, CountUp
<1>. QED  BY <1>4 DEF T, N

(* What is read of an argument, after what was read of those before.       *)
ReadNext(types, b, i, gots) ==
    UNION {UNION {Got(Append(got.val, r.val), r.off) : r \in ReadArg(types[i], b, got.off)} :
             got \in gots}

(* What was read after each argument.                                    *)
Decodes(f, types, b, k) ==
    f = [i \in 0..k |-> IF i = 0 THEN Got(<< >>, 4)
                        ELSE ReadNext(types, b, i, f[i - 1])]

LEMMA DecodesIs ==
  ASSUME NEW types, NEW b, NEW m \in Nat
  PROVE  \E f : Decodes(f, types, b, m)
<1>. DEFINE T == {k \in 0..m : \E f : Decodes(f, types, b, k)}
            top == Got(<< >>, 4)
            Go(i, x) == ReadNext(types, b, i, x)
<1>1. 0 \in T
  <2>. DEFINE f == [i \in 0..0 |-> top]
  <2>1. Decodes(f, types, b, 0)
    BY DEF Decodes
  <2>. QED  BY <2>1
<1>2. ASSUME NEW k \in 1..m, k - 1 \in T
      PROVE  k \in T
  <2>1. PICK g : Decodes(g, types, b, k - 1)
    BY <1>2
  <2>. DEFINE f == [i \in 0..k |-> IF i = k THEN Go(k, g[k - 1]) ELSE g[i]]
  <2>2. \A i \in 0..(k - 1) : g[i] = IF i = 0 THEN top ELSE Go(i, g[i - 1])
    BY <2>1 DEF Decodes
  <2>. HIDE DEF top, Go
  <2>3. \A i \in 0..k : f[i] = IF i = 0 THEN top ELSE Go(i, f[i - 1])
    BY <2>2
  <2>4. Decodes(f, types, b, k)
    <3>1. f = [i \in 0..k |-> f[i]]
      OBVIOUS
    <3>2. f = [i \in 0..k |-> IF i = 0 THEN top ELSE Go(i, f[i - 1])]
      <4>. HIDE DEF f
      <4>. QED  BY <2>3, <3>1
    <3>. HIDE DEF f
    <3>. QED  BY <3>2 DEF Decodes, top, Go
  <2>. QED  BY <2>4
<1>. HIDE DEF T
<1>3. m \in T
  BY <1>1, <1>2, CountUp
<1>. QED  BY <1>3 DEF T



(* The first i of vals.                                                    *)
Upto(vals, i) == [j \in 1..i |-> vals[j]]

LEMMA AppendUpto ==
  ASSUME NEW vals, NEW i \in Nat \ {0}
  PROVE  Append(Upto(vals, i - 1), vals[i]) = Upto(vals, i)
<1>. DEFINE S == {vals[j] : j \in 1..i}
            s == Upto(vals, i - 1)
            t == Upto(vals, i)
            u == Append(s, vals[i])
<1>1. s \in Seq(S) /\ Len(s) = i - 1 /\ \A j \in 1..(i - 1) : s[j] = vals[j]
  <2>1. s = [j \in 1..(i - 1) |-> vals[j]] /\ \A j \in 1..(i - 1) : vals[j] \in S
    BY DEF Upto
  <2>2. i - 1 \in Nat
    OBVIOUS
  <2>. HIDE DEF s, S
  <2>3. s \in Seq(S)
    BY <2>1, <2>2
  <2>. QED  BY <2>1, <2>2, <2>3, LenProperties
<1>2. t \in Seq(S) /\ Len(t) = i /\ \A j \in 1..i : t[j] = vals[j]
  <2>1. t = [j \in 1..i |-> vals[j]] /\ \A j \in 1..i : vals[j] \in S
    BY DEF Upto
  <2>2. i \in Nat
    OBVIOUS
  <2>. HIDE DEF t, S
  <2>3. t \in Seq(S)
    BY <2>1, <2>2
  <2>. QED  BY <2>1, <2>2, <2>3, LenProperties
<1>3. vals[i] \in S
  OBVIOUS
<1>. HIDE DEF s, t, S
<1>4. /\ u \in Seq(S) /\ Len(u) = Len(s) + 1
      /\ \A j \in 1..Len(s) : u[j] = s[j]
      /\ u[Len(s) + 1] = vals[i]
  BY <1>1, <1>3, AppendProperties
<1>. HIDE DEF u
<1>5. Len(u) = i /\ u[i] = vals[i]
  BY <1>1, <1>4
<1>6. \A j \in 1..i : u[j] = t[j]
  <2>. SUFFICES ASSUME NEW j \in 1..i
                PROVE  u[j] = t[j]
    OBVIOUS
  <2>1. CASE j = i
    BY <1>2, <1>5, <2>1
  <2>2. CASE j # i
    <3>1. j \in 1..(i - 1)
      BY <2>2
    <3>. QED  BY <1>1, <1>2, <1>4, <3>1
  <2>. QED  BY <2>1, <2>2
<1>. QED  BY <1>2, <1>4, <1>5, <1>6, SeqEqual DEF u, s, t

LEMMA ReadStep ==
  ASSUME NEW E, NEW types, NEW vals, Layout(E, types, vals),
         NEW c \in Seq(Bytes8), Begins(E[Len(types)], c)
  PROVE  \A i \in 1..Len(types) :
           Len(E[i - 1]) <= Len(c) =>
             ReadArg(types[i], c, Len(E[i - 1])) =
               IF Len(E[i]) <= Len(c) THEN Got(vals[i], Len(E[i])) ELSE {}
<1>. SUFFICES ASSUME NEW i \in 1..Len(types), Len(E[i - 1]) <= Len(c)
              PROVE  ReadArg(types[i], c, Len(E[i - 1])) =
                       IF Len(E[i]) <= Len(c) THEN Got(vals[i], Len(E[i])) ELSE {}
  OBVIOUS
<1>. DEFINE N == Len(types)
            type == types[i]
            v == vals[i]
            w == Written(type, v)
            e == E[i - 1]
            f == E[i]
            g == E[N]
<1>1. N \in Nat /\ i \in 1..N /\ i - 1 \in 0..N /\ i \in 0..N /\ N \in 0..N
  BY LayoutArgs
<1>2. type \in ArgTypes /\ Fits(type, v) /\ w \in Seq(Bytes8) /\ Len(w) \in Nat \ {0}
  BY LayoutArgs
<1>3. Extends(f, e, w)
  BY LayoutStep
<1>4. Begins(g, f) /\ Begins(g, c) /\ Len(e) <= Len(c)
  <2>1. Begins(g, f)
    BY <1>1, LayoutPrefix
  <2>. QED  BY <2>1
<1>5. Len(e) \in Nat /\ Len(f) \in Nat /\ Len(g) \in Nat /\ Len(c) \in Nat
  <2>1. Len(e) \in Nat /\ Len(f) \in Nat /\ Len(g) \in Nat
    BY <1>1, LayoutBytes
  <2>. QED  BY <2>1, LenProperties
<1>. HIDE DEF N, type, v, w, e, f, g
<1>6. /\ Len(f) = Len(e) + Len(w)
      /\ \A p \in 1..Len(w) : f[Len(e) + p] = w[p]
  BY <1>3 DEF Extends
<1>7. /\ Len(c) <= Len(g)
      /\ \A p \in 1..Len(f) : g[p] = f[p]
      /\ \A p \in 1..Len(c) : g[p] = c[p]
  BY <1>4 DEF Begins
<1>8. ASSUME NEW p \in 1..Len(w), Len(e) + p <= Len(c)
      PROVE  c[Len(e) + p] = w[p]
  <2>. DEFINE q == Len(e) + p
  <2>1. q \in 1..Len(f) /\ q \in 1..Len(c)
    BY <1>2, <1>5, <1>6, <1>8
  <2>2. f[q] = w[p]
    BY <1>6
  <2>. HIDE DEF q
  <2>3. c[q] = w[p]
    BY <1>7, <2>1, <2>2
  <2>. QED  BY <2>3 DEF q
<1>9. CASE Len(f) <= Len(c)
  <2>1. \A p \in 1..Len(w) : c[Len(e) + p] = w[p]
    <3>1. \A p \in 1..Len(w) : Len(e) + p <= Len(c)
      BY <1>2, <1>5, <1>6, <1>9
    <3>. QED  BY <1>8, <3>1
  <2>2. Len(e) + Len(w) <= Len(c)
    BY <1>6, <1>9
  <2>3. ReadArg(type, c, Len(e)) = {[val |-> v, off |-> Len(e) + Len(w)]}
    <3>1. c \in Seq(Bytes8) /\ Len(e) \in Nat
      BY <1>5
    <3>. QED  BY <1>2, <2>1, <2>2, <3>1, ReadArgWhole DEF w
  <2>4. ReadArg(type, c, Len(e)) = Got(v, Len(f))
    BY <1>6, <2>3 DEF Got
  <2>. QED  BY <1>9, <2>4 DEF type, e, f, v
<1>10. CASE Len(f) > Len(c)
  <2>1. \A p \in 1..(Len(c) - Len(e)) : c[Len(e) + p] = w[p]
    <3>1. \A p \in 1..(Len(c) - Len(e)) : p \in 1..Len(w) /\ Len(e) + p <= Len(c)
      BY <1>2, <1>4, <1>5, <1>6, <1>10
    <3>. QED  BY <1>8, <3>1
  <2>2. Len(c) < Len(e) + Len(w) /\ Len(e) <= Len(c)
    BY <1>4, <1>5, <1>6, <1>10
  <2>3. ReadArg(type, c, Len(e)) = {}
    <3>1. c \in Seq(Bytes8) /\ Len(e) \in Nat
      BY <1>5
    <3>. QED  BY <1>2, <2>1, <2>2, <3>1, ReadArgPart DEF w
  <2>4. ~(Len(f) <= Len(c))
    BY <1>5, <1>10
  <2>. QED  BY <2>3, <2>4 DEF type, e, f, v
<1>. QED  BY <1>5, <1>9, <1>10

LEMMA DecodeLaid ==
  ASSUME NEW E, NEW types, NEW vals, Layout(E, types, vals),
         NEW c \in Seq(Bytes8), Begins(E[Len(types)], c), 4 <= Len(c)
  PROVE  DecodeArgs(types, c) = IF Len(c) = Len(E[Len(types)]) THEN {vals} ELSE {}
<1>. DEFINE N == Len(types)
            u == CHOOSE f : Decodes(f, types, c, N)
            Is(i) == u[i] = IF Len(E[i]) <= Len(c) THEN Got(Upto(vals, i), Len(E[i])) ELSE {}
            T == {i \in 0..N : Is(i)}
<1>1. N \in Nat /\ Len(c) \in Nat /\ \A i \in 0..N : Len(E[i]) \in Nat
  BY LayoutArgs, LayoutBytes, LenProperties
<1>2. DecodeArgs(types, c) = {got.val : got \in u[N]}
  BY DEF DecodeArgs, Decodes, ReadNext
<1>3. Decodes(u, types, c, N)
  BY <1>1, DecodesIs
<1>4. \A i \in 1..N : Len(E[i - 1]) <= Len(c) =>
        ReadArg(types[i], c, Len(E[i - 1])) =
          IF Len(E[i]) <= Len(c) THEN Got(vals[i], Len(E[i])) ELSE {}
  BY ReadStep
<1>5. \A i \in 1..N : Len(E[i - 1]) <= Len(E[i])
  <2>1. \A i \in 1..N : Begins(E[i], E[i - 1])
    <3>1. \A i \in 1..N : i \in 0..N /\ i - 1 \in 0..i
      BY <1>1
    <3>. QED  BY <3>1, LayoutPrefix
  <2>. QED  BY <2>1 DEF Begins
<1>6. Len(E[0]) = 4
  BY DEF Layout
<1>7. Begins(E[N], c) /\ vals = Upto(vals, N)
  BY DEF Layout, Upto
<1>. HIDE DEF N, u
<1>8. 0 \in T
  <2>1. u[0] = Got(<< >>, 4)
    BY <1>1, <1>3 DEF Decodes
  <2>2. Upto(vals, 0) = << >>
    BY DEF Upto
  <2>3. Is(0)
    BY <1>6, <2>1, <2>2
  <2>. QED  BY <1>1, <2>3
<1>9. ASSUME NEW k \in 1..N, k - 1 \in T
      PROVE  k \in T
  <2>. DEFINE e == E[k - 1]
              f == E[k]
              rs == ReadArg(types[k], c, Len(e))
              x == u[k - 1]
  <2>1. u[k] = UNION {UNION {Got(Append(got.val, r.val), r.off) :
                               r \in ReadArg(types[k], c, got.off)} : got \in x}
    <3>1. u[k] = ReadNext(types, c, k, x)
      BY <1>1, <1>3 DEF Decodes
    <3>. HIDE DEF x
    <3>. QED  BY <3>1 DEF ReadNext
  <2>2. Len(e) <= Len(c) => rs = IF Len(f) <= Len(c) THEN Got(vals[k], Len(f)) ELSE {}
    BY <1>4
  <2>3. x = IF Len(e) <= Len(c) THEN Got(Upto(vals, k - 1), Len(e)) ELSE {}
    BY <1>9
  <2>4. Len(e) \in Nat /\ Len(f) \in Nat /\ Len(e) <= Len(f)
    <3>1. k \in 0..N /\ k - 1 \in 0..N
      BY <1>1
    <3>. QED  BY <1>1, <1>5, <3>1
  <2>5. Append(Upto(vals, k - 1), vals[k]) = Upto(vals, k)
    <3>1. k \in Nat \ {0}
      BY <1>1
    <3>. QED  BY <3>1, AppendUpto
  <2>6. Is(k)
    <3>1. CASE Len(e) <= Len(c)
      <4>1. x = {[val |-> Upto(vals, k - 1), off |-> Len(e)]}
        BY <2>3, <3>1 DEF Got
      <4>2. u[k] = UNION {Got(Append(Upto(vals, k - 1), r.val), r.off) : r \in rs}
        <5>. HIDE DEF e, x
        <5>. QED  BY <2>1, <4>1 DEF rs
      <4>3. CASE Len(f) <= Len(c)
        <5>1. rs = {[val |-> vals[k], off |-> Len(f)]}
          BY <2>2, <3>1, <4>3 DEF Got
        <5>2. u[k] = Got(Append(Upto(vals, k - 1), vals[k]), Len(f))
          <6>. HIDE DEF rs, f
          <6>. QED  BY <4>2, <5>1
        <5>. QED  BY <2>5, <4>3, <5>2
      <4>4. CASE ~(Len(f) <= Len(c))
        <5>1. rs = {}
          BY <2>2, <3>1, <4>4
        <5>2. u[k] = {}
          <6>. HIDE DEF rs
          <6>. QED  BY <4>2, <5>1
        <5>. QED  BY <4>4, <5>2
      <4>. QED  BY <4>3, <4>4
    <3>2. CASE ~(Len(e) <= Len(c))
      <4>1. x = {}
        BY <2>3, <3>2
      <4>2. u[k] = {}
        <5>. HIDE DEF x
        <5>. QED  BY <2>1, <4>1
      <4>3. ~(Len(f) <= Len(c))
        <5>. HIDE DEF e, f
        <5>. QED  BY <1>1, <2>4, <3>2
      <4>. QED  BY <4>2, <4>3
    <3>. QED  BY <3>1, <3>2
  <2>. QED  BY <1>1, <2>6
<1>. HIDE DEF T
<1>10. N \in T
  <2>1. \A k \in 0..N : k \in T
    BY <1>1, <1>8, <1>9, CountUp
  <2>. QED  BY <1>1, <2>1
<1>11. u[N] = IF Len(E[N]) <= Len(c) THEN Got(Upto(vals, N), Len(E[N])) ELSE {}
  BY <1>10 DEF T
<1>12. Len(E[N]) <= Len(c) <=> Len(c) = Len(E[N])
  <2>1. Len(c) <= Len(E[N])
    BY <1>7 DEF Begins
  <2>2. Len(E[N]) \in Nat
    BY <1>1
  <2>. QED  BY <1>1, <2>1, <2>2
<1>13. DecodeArgs(types, c) = IF Len(c) = Len(E[N]) THEN {vals} ELSE {}
  <2>1. CASE Len(c) = Len(E[N])
    <3>1. u[N] = {[val |-> vals, off |-> Len(E[N])]}
      BY <1>7, <1>11, <1>12, <2>1 DEF Got
    <3>. QED  BY <1>2, <2>1, <3>1
  <2>2. CASE Len(c) # Len(E[N])
    <3>1. u[N] = {}
      BY <1>11, <1>12, <2>2
    <3>. QED  BY <1>2, <2>2, <3>1
  <2>. QED  BY <2>1, <2>2
<1>. QED  BY <1>13 DEF N

(* Where a description is in the table.                                    *)
At(d, i, j, k) ==
    /\ i \in DOMAIN Table /\ j \in DOMAIN Table[i] /\ k \in DOMAIN Table[i][j]
    /\ d = Table[i][j][k]

LEMMA DescAt ==
  ASSUME NEW d \in Descs
  PROVE  \E i, j, k : At(d, i, j, k)
<1>1. PICK project \in ToSet(Table) : d \in UNION {ToSet(class) : class \in ToSet(project)}
  BY DEF Descs
<1>2. PICK class \in ToSet(project) : d \in ToSet(class)
  BY <1>1
<1>3. PICK i \in DOMAIN Table : project = Table[i]
  BY DEF ToSet
<1>4. PICK j \in DOMAIN project : class = project[j]
  BY DEF ToSet
<1>5. PICK k \in DOMAIN class : d = class[k]
  BY <1>2 DEF ToSet
<1>6. At(d, i, j, k)
  BY <1>3, <1>4, <1>5 DEF At
<1>. QED  BY <1>6

DescTypes == [prj : 0..255, cls : 0..255, cmd : 0..Uint16Max, args : Seq(ArgTypes)]

LEMMA TableIs ==
  /\ Table \in Seq(Seq(Seq(DescTypes)))
  /\ \A i \in DOMAIN Table : \A j \in DOMAIN Table : Table[i][1][1].prj = Table[j][1][1].prj => i = j
<1>1. Table \in Seq(Seq(Seq(DescTypes)))
  BY TableAssumption DEF DescTypes
<1>2. \A i \in DOMAIN Table : \A j \in DOMAIN Table : Table[i][1][1].prj = Table[j][1][1].prj => i = j
  BY TableAssumption
<1>. QED  BY <1>1, <1>2

LEMMA ProjectIs ==
  ASSUME NEW p \in ToSet(Table)
  PROVE  /\ \A i \in DOMAIN p : \A j \in DOMAIN p : p[i][1].cls = p[j][1].cls => i = j
         /\ \A i \in DOMAIN p : \A k \in DOMAIN p[i] :
              /\ p[i][k].prj = p[1][1].prj /\ p[i][k].cls = p[i][1].cls
              /\ \A m \in DOMAIN p[i] : p[i][k].cmd = p[i][m].cmd => k = m
<1>1. NumberedOnce(p)
  BY TableAssumption
<1>. QED  BY <1>1 DEF NumberedOnce

(* A place of the table.                                                   *)
LEMMA TableTypes ==
  ASSUME NEW d, NEW i, NEW j, NEW k, At(d, i, j, k)
  PROVE  /\ DOMAIN Table = 1..Len(Table) /\ Len(Table) \in Nat
         /\ DOMAIN Table[i] = 1..Len(Table[i]) /\ Len(Table[i]) \in Nat
         /\ DOMAIN Table[i][j] = 1..Len(Table[i][j]) /\ Len(Table[i][j]) \in Nat
         /\ d \in DescTypes
<1>. DEFINE C == Seq(DescTypes)
            P == Seq(C)
            p == Table[i]
            c == p[j]
<1>1. Table \in Seq(P)
  BY TableIs
<1>2. i \in DOMAIN Table /\ j \in DOMAIN p /\ k \in DOMAIN c /\ d = c[k]
  BY DEF At
<1>. HIDE DEF P
<1>3. DOMAIN Table = 1..Len(Table) /\ Len(Table) \in Nat
  BY <1>1, LenProperties
<1>4. p \in P
  BY <1>1, <1>2, <1>3, ElementOfSeq
<1>. HIDE DEF C, p
<1>5. DOMAIN p = 1..Len(p) /\ Len(p) \in Nat
  BY <1>4, LenProperties DEF P
<1>6. c \in C
  <2>1. p \in Seq(C)
    BY <1>4 DEF P
  <2>. QED  BY <1>2, <1>5, <2>1, ElementOfSeq
<1>. HIDE DEF c
<1>7. DOMAIN c = 1..Len(c) /\ Len(c) \in Nat
  BY <1>6, LenProperties DEF C
<1>8. c[k] \in DescTypes
  <2>1. c \in Seq(DescTypes)
    BY <1>6 DEF C
  <2>. QED  BY <1>2, <1>7, <2>1, ElementOfSeq
<1>9. DOMAIN p[j] = 1..Len(p[j]) /\ Len(p[j]) \in Nat
  BY <1>7 DEF c
<1>. QED  BY <1>2, <1>3, <1>5, <1>8, <1>9 DEF p

LEMMA DescType ==
  ASSUME NEW d \in Descs
  PROVE  /\ d \in DescTypes
         /\ d.prj \in 0..255 /\ d.cls \in 0..255 /\ d.cmd \in 0..Uint16Max /\ d.args \in Seq(ArgTypes)
<1>1. PICK i, j, k : At(d, i, j, k)
  BY DescAt
<1>2. d \in DescTypes
  BY <1>1, TableTypes
<1>3. d \in [prj : 0..255, cls : 0..255, cmd : 0..Uint16Max, args : Seq(ArgTypes)]
  BY <1>2 DEF DescTypes
<1>. QED  BY <1>2, <1>3

(* The numbers of a description are those of its place.                    *)
LEMMA DescNumbers ==
  ASSUME NEW d, NEW i, NEW j, NEW k, At(d, i, j, k)
  PROVE  /\ d.prj = Table[i][1][1].prj /\ d.cls = Table[i][j][1].cls
         /\ \A m \in DOMAIN Table : Table[m][1][1].prj = d.prj => m = i
         /\ \A m \in DOMAIN Table[i] : Table[i][m][1].cls = d.cls => m = j
         /\ \A m \in DOMAIN Table[i][j] : Table[i][j][m].cmd = d.cmd => m = k
<1>. DEFINE p == Table[i]
<1>1. i \in DOMAIN Table /\ j \in DOMAIN p /\ k \in DOMAIN p[j] /\ d = p[j][k]
  BY DEF At
<1>2. p \in ToSet(Table)
  BY <1>1 DEF ToSet
<1>. HIDE DEF p
<1>3. \A m \in DOMAIN p : p[j][1].cls = p[m][1].cls => j = m
  BY <1>1, <1>2, ProjectIs, Zenon
<1>4. p[j][k].prj = p[1][1].prj /\ p[j][k].cls = p[j][1].cls
  BY <1>1, <1>2, ProjectIs, Zenon
<1>5. \A m \in DOMAIN p[j] : p[j][k].cmd = p[j][m].cmd => k = m
  BY <1>1, <1>2, ProjectIs, Zenon
<1>6. \A m \in DOMAIN Table : p[1][1].prj = Table[m][1][1].prj => i = m
  BY <1>1, TableIs, Zenon DEF p
<1>7. d.prj = p[1][1].prj /\ d.cls = p[j][1].cls
  BY <1>1, <1>4, Zenon
<1>8. \A m \in DOMAIN Table : Table[m][1][1].prj = d.prj => m = i
  BY <1>6, <1>7, Zenon
<1>9. \A m \in DOMAIN p : p[m][1].cls = d.cls => m = j
  BY <1>3, <1>7, Zenon
<1>10. \A m \in DOMAIN p[j] : p[j][m].cmd = d.cmd => m = k
  BY <1>1, <1>5, Zenon
<1>. QED  BY <1>7, <1>8, <1>9, <1>10, Zenon DEF p

LEMMA NumbersTell ==
  ASSUME NEW d \in Descs, NEW other \in Descs,
         d.prj = other.prj, d.cls = other.cls, d.cmd = other.cmd
  PROVE  d = other
<1>1. PICK i, j, k : At(d, i, j, k)
  BY DescAt
<1>2. PICK l, m, n : At(other, l, m, n)
  BY DescAt
<1>3. other.prj = Table[l][1][1].prj /\ other.cls = Table[l][m][1].cls
  BY <1>2, DescNumbers
<1>4. /\ \A x \in DOMAIN Table : Table[x][1][1].prj = d.prj => x = i
      /\ \A x \in DOMAIN Table[i] : Table[i][x][1].cls = d.cls => x = j
      /\ \A x \in DOMAIN Table[i][j] : Table[i][j][x].cmd = d.cmd => x = k
  BY <1>1, DescNumbers
<1>5. /\ l \in DOMAIN Table /\ m \in DOMAIN Table[l] /\ n \in DOMAIN Table[l][m]
      /\ other = Table[l][m][n]
  BY <1>2 DEF At
<1>6. l = i
  BY <1>3, <1>4, <1>5
<1>7. m = j
  BY <1>3, <1>4, <1>5, <1>6
<1>8. n = k
  BY <1>4, <1>5, <1>6, <1>7
<1>. QED  BY <1>1, <1>5, <1>6, <1>7, <1>8 DEF At

(* The loops of arsdk_cmd_find_desc.                                       *)
Projects(id) ==
    {Table[i] : i \in {k \in DOMAIN Table :
        Table[k][1][1].prj = id.prj /\ \A j \in 1..(k - 1) : ~(Table[j][1][1].prj = id.prj)}}
Classes(p, id) ==
    {p[i] : i \in {k \in DOMAIN p :
        p[k][1].cls = id.cls /\ \A j \in 1..(k - 1) : ~(p[j][1].cls = id.cls)}}
Commands(c, id) ==
    {c[i] : i \in {k \in DOMAIN c :
        c[k].cmd = id.cmd /\ \A j \in 1..(k - 1) : ~(c[j].cmd = id.cmd)}}

LEMMA FindDescIs ==
  ASSUME NEW id
  PROVE  FindDesc(id) =
           UNION {Commands(c, id) : c \in UNION {Classes(p, id) : p \in Projects(id)}}
  BY DEF FindDesc, Commands, Classes, Projects

LEMMA FindDescFinds ==
  ASSUME NEW d \in Descs
  PROVE  FindDesc([prj |-> d.prj, cls |-> d.cls, cmd |-> d.cmd]) = {d}
<1>. DEFINE id == [prj |-> d.prj, cls |-> d.cls, cmd |-> d.cmd]
<1>1. PICK i, j, k : At(d, i, j, k)
  BY DescAt
<1>2. i \in DOMAIN Table /\ j \in DOMAIN Table[i] /\ k \in DOMAIN Table[i][j] /\ d = Table[i][j][k]
  BY <1>1 DEF At
<1>3. /\ d.prj = Table[i][1][1].prj /\ d.cls = Table[i][j][1].cls
      /\ \A m \in DOMAIN Table : Table[m][1][1].prj = d.prj => m = i
      /\ \A m \in DOMAIN Table[i] : Table[i][m][1].cls = d.cls => m = j
      /\ \A m \in DOMAIN Table[i][j] : Table[i][j][m].cmd = d.cmd => m = k
  BY <1>1, DescNumbers
<1>4. /\ DOMAIN Table = 1..Len(Table) /\ Len(Table) \in Nat
      /\ DOMAIN Table[i] = 1..Len(Table[i]) /\ Len(Table[i]) \in Nat
      /\ DOMAIN Table[i][j] = 1..Len(Table[i][j]) /\ Len(Table[i][j]) \in Nat
  BY <1>1, TableTypes
<1>5. id.prj = d.prj /\ id.cls = d.cls /\ id.cmd = d.cmd
  OBVIOUS
<1>. HIDE DEF id
<1>6. Projects(id) = {Table[i]}
  <2>. DEFINE Good(m) == Table[m][1][1].prj = id.prj /\ \A n \in 1..(m - 1) : ~(Table[n][1][1].prj = id.prj)
  <2>1. Good(i)
    <3>1. \A n \in 1..(i - 1) : n \in DOMAIN Table /\ n # i
      BY <1>2, <1>4
    <3>2. \A n \in 1..(i - 1) : ~(Table[n][1][1].prj = id.prj)
      BY <1>3, <1>5, <3>1
    <3>. QED  BY <1>3, <1>5, <3>2
  <2>2. \A m \in DOMAIN Table : Good(m) => m = i
    BY <1>3, <1>5
  <2>3. Projects(id) = {Table[m] : m \in {n \in DOMAIN Table : Good(n)}}
    BY DEF Projects
  <2>. HIDE DEF Good
  <2>4. {n \in DOMAIN Table : Good(n)} = {i}
    BY <1>2, <2>1, <2>2
  <2>. QED  BY <2>3, <2>4
<1>7. Classes(Table[i], id) = {Table[i][j]}
  <2>. DEFINE p == Table[i]
              Good(m) == p[m][1].cls = id.cls /\ \A n \in 1..(m - 1) : ~(p[n][1].cls = id.cls)
  <2>1. Good(j)
    <3>1. \A n \in 1..(j - 1) : n \in DOMAIN p /\ n # j
      BY <1>2, <1>4
    <3>2. \A n \in 1..(j - 1) : ~(p[n][1].cls = id.cls)
      BY <1>3, <1>5, <3>1
    <3>. QED  BY <1>3, <1>5, <3>2
  <2>2. \A m \in DOMAIN p : Good(m) => m = j
    BY <1>3, <1>5
  <2>3. Classes(p, id) = {p[m] : m \in {n \in DOMAIN p : Good(n)}}
    BY DEF Classes
  <2>4. j \in DOMAIN p
    BY <1>2
  <2>. HIDE DEF Good, p
  <2>5. {n \in DOMAIN p : Good(n)} = {j}
    BY <2>1, <2>2, <2>4
  <2>6. Classes(p, id) = {p[j]}
    BY <2>3, <2>5
  <2>. QED  BY <2>6 DEF p
<1>8. Commands(Table[i][j], id) = {d}
  <2>. DEFINE c == Table[i][j]
              Good(m) == c[m].cmd = id.cmd /\ \A n \in 1..(m - 1) : ~(c[n].cmd = id.cmd)
  <2>1. Good(k)
    <3>1. \A n \in 1..(k - 1) : n \in DOMAIN c /\ n # k
      BY <1>2, <1>4
    <3>2. \A n \in 1..(k - 1) : ~(c[n].cmd = id.cmd)
      BY <1>3, <1>5, <3>1
    <3>. QED  BY <1>2, <1>5, <3>2
  <2>2. \A m \in DOMAIN c : Good(m) => m = k
    BY <1>3, <1>5
  <2>3. Commands(c, id) = {c[m] : m \in {n \in DOMAIN c : Good(n)}}
    BY DEF Commands
  <2>4. k \in DOMAIN c /\ d = c[k]
    BY <1>2
  <2>. HIDE DEF Good, c
  <2>5. {n \in DOMAIN c : Good(n)} = {k}
    BY <2>1, <2>2, <2>4
  <2>6. Commands(c, id) = {d}
    BY <2>3, <2>4, <2>5
  <2>. QED  BY <2>6 DEF c
<1>9. FindDesc(id) = {d}
  <2>1. UNION {Classes(p, id) : p \in Projects(id)} = {Table[i][j]}
    BY <1>6, <1>7
  <2>2. UNION {Commands(c, id) : c \in {Table[i][j]}} = {d}
    BY <1>8
  <2>. QED  BY <2>1, <2>2, FindDescIs
<1>. QED  BY <1>9 DEF id

(* The values of one argument more.                                        *)
Longer(types, i, choices) == {Append(vals, v) : vals \in choices, v \in Values[types[i]]}

(* The values of the first arguments.                                    *)
Picked(f, types, k) ==
    f = [i \in 0..k |-> IF i = 0 THEN {<< >>}
                        ELSE Longer(types, i, f[i - 1])]

LEMMA PickedIs ==
  ASSUME NEW types, NEW m \in Nat
  PROVE  \E f : Picked(f, types, m)
<1>. DEFINE T == {k \in 0..m : \E f : Picked(f, types, k)}
            top == {<< >>}
            Go(i, x) == Longer(types, i, x)
<1>1. 0 \in T
  <2>. DEFINE f == [i \in 0..0 |-> top]
  <2>1. Picked(f, types, 0)
    BY DEF Picked
  <2>. QED  BY <2>1
<1>2. ASSUME NEW k \in 1..m, k - 1 \in T
      PROVE  k \in T
  <2>1. PICK g : Picked(g, types, k - 1)
    BY <1>2
  <2>. DEFINE f == [i \in 0..k |-> IF i = k THEN Go(k, g[k - 1]) ELSE g[i]]
  <2>2. \A i \in 0..(k - 1) : g[i] = IF i = 0 THEN top ELSE Go(i, g[i - 1])
    BY <2>1 DEF Picked
  <2>. HIDE DEF top, Go
  <2>3. \A i \in 0..k : f[i] = IF i = 0 THEN top ELSE Go(i, f[i - 1])
    BY <2>2
  <2>4. Picked(f, types, k)
    <3>1. f = [i \in 0..k |-> f[i]]
      OBVIOUS
    <3>2. f = [i \in 0..k |-> IF i = 0 THEN top ELSE Go(i, f[i - 1])]
      <4>. HIDE DEF f
      <4>. QED  BY <2>3, <3>1
    <3>. HIDE DEF f
    <3>. QED  BY <3>2 DEF Picked, top, Go
  <2>. QED  BY <2>4
<1>. HIDE DEF T
<1>3. m \in T
  BY <1>1, <1>2, CountUp
<1>. QED  BY <1>3 DEF T



LEMMA ValuesOfAre ==
  ASSUME NEW d \in Descs, NEW vals \in ValuesOf(d)
  PROVE  /\ vals = Upto(vals, Len(d.args))
         /\ \A i \in 1..Len(d.args) : Fits(d.args[i], vals[i])
<1>. DEFINE types == d.args
            N == Len(types)
            c == CHOOSE f : Picked(f, types, N)
            Is(i) == \A vs \in c[i] : vs = Upto(vs, i) /\ \A j \in 1..i : Fits(types[j], vs[j])
            T == {i \in 0..N : Is(i)}
<1>1. N \in Nat /\ \A i \in 1..N : types[i] \in ArgTypes
  BY DescType, LenProperties, ElementOfSeq
<1>2. vals \in c[N]
  BY DEF ValuesOf, Picked, Longer
<1>3. Picked(c, types, N)
  BY <1>1, PickedIs
<1>4. \A type \in ArgTypes : \A v \in Values[type] : Fits(type, v)
  BY FramesAssumption
<1>. HIDE DEF types, N, c
<1>5. 0 \in T
  <2>1. c[0] = {<< >>}
    BY <1>1, <1>3 DEF Picked
  <2>2. << >> = Upto(<< >>, 0)
    BY DEF Upto
  <2>3. \A j \in 1..0 : Fits(types[j], << >>[j])
    OBVIOUS
  <2>4. Is(0)
    BY <2>1, <2>2, <2>3
  <2>. QED  BY <1>1, <2>4
<1>6. ASSUME NEW k \in 1..N, k - 1 \in T
      PROVE  k \in T
  <2>1. c[k] = Longer(types, k, c[k - 1])
    <3>1. \A i \in 0..N : c[i] = IF i = 0 THEN {<< >>} ELSE Longer(types, i, c[i - 1])
      BY <1>3, <1>1 DEF Picked
    <3>2. k \in 0..N /\ k # 0
      BY <1>1
    <3>. QED  BY <3>1, <3>2
  <2>2. Is(k)
    <3>. SUFFICES ASSUME NEW vs \in c[k]
                  PROVE  vs = Upto(vs, k) /\ \A j \in 1..k : Fits(types[j], vs[j])
      OBVIOUS
    <3>1. PICK us \in c[k - 1], v \in Values[types[k]] : vs = Append(us, v)
      BY <2>1 DEF Longer
    <3>2. us = Upto(us, k - 1) /\ \A j \in 1..(k - 1) : Fits(types[j], us[j])
      BY <1>6, <3>1
    <3>3. k \in Nat \ {0} /\ k - 1 \in Nat
      BY <1>1
    <3>4. vs = Upto(vs, k) /\ vs[k] = v /\ \A j \in 1..(k - 1) : vs[j] = us[j]
      <4>. DEFINE ws == [j \in 1..k |-> IF j = k THEN v ELSE us[j]]
      <4>1. Append(Upto(ws, k - 1), ws[k]) = Upto(ws, k)
        BY <3>3, AppendUpto
      <4>2. Upto(ws, k - 1) = us
        <5>1. Upto(ws, k - 1) = [j \in 1..(k - 1) |-> us[j]]
          BY <3>3 DEF Upto
        <5>. QED  BY <3>2, <5>1 DEF Upto
      <4>3. ws[k] = v
        BY <3>3
      <4>4. Upto(ws, k) = ws
        BY DEF Upto
      <4>5. vs = ws
        BY <3>1, <4>1, <4>2, <4>3, <4>4
      <4>6. \A j \in 1..(k - 1) : ws[j] = us[j]
        BY <3>3
      <4>. HIDE DEF ws
      <4>. QED  BY <4>3, <4>4, <4>5, <4>6
    <3>5. Fits(types[k], v)
      BY <1>1, <1>4, <3>1
    <3>6. \A j \in 1..k : Fits(types[j], vs[j])
      <4>. SUFFICES ASSUME NEW j \in 1..k
                    PROVE  Fits(types[j], vs[j])
        OBVIOUS
      <4>1. CASE j = k
        BY <3>4, <3>5, <4>1
      <4>2. CASE j # k
        <5>1. j \in 1..(k - 1)
          BY <3>3, <4>2
        <5>2. vs[j] = us[j] /\ Fits(types[j], us[j])
          BY <3>2, <3>4, <5>1
        <5>. QED  BY <5>2
      <4>. QED  BY <4>1, <4>2
    <3>. QED  BY <3>4, <3>6
  <2>. QED  BY <1>1, <2>2
<1>. HIDE DEF T
<1>7. \A k \in 0..N : k \in T
  BY <1>1, <1>5, <1>6, CountUp
<1>8. Is(N)
  BY <1>1, <1>7 DEF T
<1>. QED  BY <1>2, <1>8 DEF N, types

(* The arguments of a command, as arsdk_cmd_enc is given them.             *)
Argv(d, vals) == [i \in DOMAIN vals |-> [type |-> d.args[i], val |-> vals[i]]]

LEMMA NumbersAre ==
  ASSUME NEW d \in Descs
  PROVE  LET e == <<d.prj, d.cls>> \o Fixed(d.cmd, 2)
         IN  /\ e \in Seq(Bytes8) /\ Len(e) = 4
             /\ e[1] = d.prj /\ e[2] = d.cls /\ e[3] + 256 * e[4] = d.cmd
<1>. DEFINE s == <<d.prj, d.cls>>
            t == Fixed(d.cmd, 2)
            e == s \o t
            r == Rests(d.cmd, 2)
<1>1. d.prj \in Bytes8 /\ d.cls \in Bytes8 /\ d.cmd \in 0..Uint16Max
  BY DescType DEF Bytes8
<1>2. d.cmd \in Int /\ d.cmd >= 0 /\ d.cmd < 256 * 256
  <2>1. Uint16Max \in Int /\ Uint16Max < 256 * 256
    BY DEF Uint16Max
  <2>. QED  BY <1>1, <2>1
<1>3. s \in Seq(Bytes8) /\ Len(s) = 2 /\ s[1] = d.prj /\ s[2] = d.cls
  BY <1>1
<1>4. t \in Seq(Bytes8) /\ Len(t) = 2
  BY <1>2, FixedType
<1>5. t[1] = r[0] % 256 /\ t[2] = r[1] % 256
  <2>1. \A i \in 1..2 : t[i] = r[i - 1] % 256
    <3>1. 2 \in Nat /\ d.cmd \in Int
      BY <1>2
    <3>. QED  BY <3>1, FixedIs, Zenon
  <2>2. t[1] = r[1 - 1] % 256 /\ t[2] = r[2 - 1] % 256
    <3>. HIDE DEF t, r
    <3>. QED  BY <2>1
  <2>3. 1 - 1 = 0 /\ 2 - 1 = 1
    OBVIOUS
  <2>. QED  BY <2>2, <2>3
<1>6. r[0] = d.cmd /\ r[1] = r[0] \div 256
  BY RestsAre
<1>. HIDE DEF s, t, r
<1>7. /\ e \in Seq(Bytes8) /\ Len(e) = Len(s) + Len(t)
      /\ \A i \in 1..(Len(s) + Len(t)) : e[i] = IF i <= Len(s) THEN s[i] ELSE t[i - Len(s)]
  BY <1>3, <1>4, ConcatProperties
<1>. HIDE DEF e
<1>8. Len(e) = 4 /\ e[1] = s[1] /\ e[2] = s[2] /\ e[3] = t[1] /\ e[4] = t[2]
  BY <1>3, <1>4, <1>7
<1>9. t[1] + 256 * t[2] = d.cmd
  <2>. DEFINE x == d.cmd
  <2>1. t[1] = x % 256 /\ t[2] = (x \div 256) % 256
    BY <1>5, <1>6
  <2>2. x \in Int /\ x >= 0 /\ x < 256 * 256
    BY <1>2
  <2>. HIDE DEF x
  <2>. DEFINE y == x \div 256
  <2>. DEFINE z == x % 256
  <2>3. y \in Int /\ z \in Int /\ y >= 0 /\ y < 256 /\ x = 256 * y + z
    <3>1. y \in Int /\ z \in Int
      BY <2>2
    <3>2. x = 256 * y + z
      BY <2>2
    <3>3. z >= 0 /\ z < 256
      BY <2>2
    <3>. HIDE DEF y, z
    <3>. QED  BY <2>2, <3>1, <3>2, <3>3
  <2>. HIDE DEF y, z
  <2>4. y % 256 = y
    BY <2>3
  <2>5. t[1] = z /\ t[2] = y
    BY <2>1, <2>4 DEF y, z
  <2>6. t[1] + 256 * t[2] = x
    BY <2>3, <2>5
  <2>. QED  BY <2>6 DEF x
<1>. QED  BY <1>3, <1>7, <1>8, <1>9 DEF e, s, t

LEMMA EncodeLaid ==
  ASSUME NEW d \in Descs, NEW vals \in ValuesOf(d)
  PROVE  \E E : /\ Layout(E, d.args, vals)
                /\ EncodeCmd(d, Argv(d, vals)) = {E[Len(d.args)]}
                /\ E[0] = <<d.prj, d.cls>> \o Fixed(d.cmd, 2)
<1>. DEFINE types == d.args
            N == Len(types)
            argv == Argv(d, vals)
            E == CHOOSE f : Encodes(f, d, argv, N)
<1>1. types \in Seq(ArgTypes) /\ N \in Nat
  BY DescType, LenProperties
<1>2. vals = Upto(vals, N) /\ \A i \in 1..N : Fits(types[i], vals[i])
  BY ValuesOfAre
<1>3. DOMAIN vals = 1..N
  BY <1>2 DEF Upto
<1>4. /\ Len(argv) = N /\ DOMAIN argv = 1..N
      /\ \A i \in 1..N : argv[i].type = types[i] /\ argv[i].val = vals[i]
  <2>1. argv = [i \in 1..N |-> [type |-> types[i], val |-> vals[i]]]
    BY <1>3 DEF Argv
  <2>. HIDE DEF argv, types, N
  <2>. QED  BY <1>1, <2>1
<1>5. Encodes(E, d, argv, N)
  BY <1>1, EncodesIs
<1>6. EncodeCmd(d, argv) = {E[N]}
  <2>1. EncodeCmd(d, argv) =
          LET upTo[i \in 0..Len(argv)] ==
               IF i = 0 THEN <<d.prj, d.cls>> \o Fixed(d.cmd, 2)
               ELSE upTo[i - 1] \o Written(argv[i].type, argv[i].val)
          IN  {upTo[Len(argv)]}
    <3>1. ~(\/ Len(argv) # Len(d.args)
            \/ \E i \in DOMAIN argv : argv[i].type # d.args[i])
      BY <1>4
    <3>. HIDE DEF argv
    <3>. QED  BY <3>1 DEF EncodeCmd
  <2>. QED  BY <1>4, <2>1 DEF Encodes
<1>. HIDE DEF E, argv, N, types
<1>7. E[0] = <<d.prj, d.cls>> \o Fixed(d.cmd, 2)
  BY <1>1, <1>5 DEF Encodes
<1>8. \A i \in 1..N : E[i] = E[i - 1] \o Written(types[i], vals[i])
  <2>. DEFINE top == <<d.prj, d.cls>> \o Fixed(d.cmd, 2)
              W(i) == E[i - 1] \o Written(argv[i].type, argv[i].val)
  <2>0. E = [i \in 0..N |-> IF i = 0 THEN top ELSE W(i)]
    BY <1>5 DEF Encodes
  <2>. TAKE i \in 1..N
  <2>. HIDE DEF top, W
  <2>1. E[i] = W(i)
    BY <1>1, <2>0
  <2>2. argv[i].type = types[i] /\ argv[i].val = vals[i]
    BY <1>4
  <2>3. E[i] = E[i - 1] \o Written(argv[i].type, argv[i].val)
    BY <2>1 DEF W
  <2>. QED  BY <2>2, <2>3, Zenon
<1>9. E[0] \in Seq(Bytes8) /\ Len(E[0]) = 4
  BY <1>7, NumbersAre
<1>10. Layout(E, types, vals)
  BY <1>1, <1>2, <1>8, <1>9 DEF Layout, Upto, N
<1>. QED  BY <1>6, <1>7, <1>10 DEF argv, N, types

LEMMA HeaderIs ==
  ASSUME NEW d \in Descs, NEW E, NEW vals, Layout(E, d.args, vals),
         E[0] = <<d.prj, d.cls>> \o Fixed(d.cmd, 2),
         NEW c \in Seq(Bytes8), Begins(E[Len(d.args)], c), Len(c) >= 4
  PROVE  DecodeHeader(c) = {[prj |-> d.prj, cls |-> d.cls, cmd |-> d.cmd]}
<1>. DEFINE e == E[0]
            g == E[Len(d.args)]
<1>1. Len(e) = 4 /\ e[1] = d.prj /\ e[2] = d.cls /\ e[3] + 256 * e[4] = d.cmd
  BY NumbersAre
<1>2. Begins(g, e)
  <2>1. Len(d.args) \in 0..Len(d.args) /\ 0 \in 0..Len(d.args)
    BY LayoutArgs
  <2>. QED  BY <2>1, LayoutPrefix
<1>3. Begins(g, c) /\ Len(c) \in Nat /\ Len(c) >= 4
  BY LenProperties
<1>. HIDE DEF e, g
<1>4. \A p \in 1..4 : g[p] = e[p]
  BY <1>1, <1>2 DEF Begins
<1>5. \A p \in 1..4 : g[p] = c[p]
  BY <1>3 DEF Begins
<1>6. c[1] = e[1] /\ c[2] = e[2] /\ c[3] = e[3] /\ c[4] = e[4]
  BY <1>4, <1>5
<1>7. ~(Len(c) < 4)
  BY <1>3
<1>8. c[1] = d.prj /\ c[2] = d.cls /\ c[3] + 256 * c[4] = d.cmd
  BY <1>1, <1>6
<1>. QED  BY <1>7, <1>8 DEF DecodeHeader

(* The turns of arsdk_cmd_fmt's loop.                                    *)
Turns(f, types, b, k) ==
    f = [i \in 0..k |-> IF i = 0 THEN [at |-> 1, off |-> 4, text |-> << >>]
                        ELSE Format(types, b, f[i - 1])]

LEMMA TurnsIs ==
  ASSUME NEW types, NEW b, NEW m \in Nat
  PROVE  \E f : Turns(f, types, b, m)
<1>. DEFINE T == {k \in 0..m : \E f : Turns(f, types, b, k)}
            top == [at |-> 1, off |-> 4, text |-> << >>]
            Go(i, x) == Format(types, b, x)
<1>1. 0 \in T
  <2>. DEFINE f == [i \in 0..0 |-> top]
  <2>1. Turns(f, types, b, 0)
    BY DEF Turns
  <2>. QED  BY <2>1
<1>2. ASSUME NEW k \in 1..m, k - 1 \in T
      PROVE  k \in T
  <2>1. PICK g : Turns(g, types, b, k - 1)
    BY <1>2
  <2>. DEFINE f == [i \in 0..k |-> IF i = k THEN Go(k, g[k - 1]) ELSE g[i]]
  <2>2. \A i \in 0..(k - 1) : g[i] = IF i = 0 THEN top ELSE Go(i, g[i - 1])
    BY <2>1 DEF Turns
  <2>. HIDE DEF top, Go
  <2>3. \A i \in 0..k : f[i] = IF i = 0 THEN top ELSE Go(i, f[i - 1])
    BY <2>2
  <2>4. Turns(f, types, b, k)
    <3>1. f = [i \in 0..k |-> f[i]]
      OBVIOUS
    <3>2. f = [i \in 0..k |-> IF i = 0 THEN top ELSE Go(i, f[i - 1])]
      <4>. HIDE DEF f
      <4>. QED  BY <2>3, <3>1
    <3>. HIDE DEF f
    <3>. QED  BY <3>2 DEF Turns, top, Go
  <2>. QED  BY <2>4
<1>. HIDE DEF T
<1>3. m \in T
  BY <1>1, <1>2, CountUp
<1>. QED  BY <1>3 DEF T



(* What the loop has when i arguments are in its text.                     *)
Shown(E, vals, i) == [at |-> i + 1, off |-> Len(E[i]), text |-> Upto(vals, i)]

LEMMA FormatStep ==
  ASSUME NEW E, NEW types, NEW vals, Layout(E, types, vals), "BINARY" \notin ToSet(types)
  PROVE  /\ \A i \in 1..Len(types) :
              Format(types, E[Len(types)], Shown(E, vals, i - 1)) = Shown(E, vals, i)
         /\ Format(types, E[Len(types)], Shown(E, vals, Len(types))) = Shown(E, vals, Len(types))
<1>. DEFINE N == Len(types)
            g == E[N]
<1>1. N \in Nat /\ g \in Seq(Bytes8) /\ Len(g) \in Nat
  <2>1. N \in Nat
    BY LayoutArgs
  <2>. QED  BY <2>1, LayoutBytes
<1>2. \A i \in 1..N : Format(types, g, Shown(E, vals, i - 1)) = Shown(E, vals, i)
  <2>. TAKE i \in 1..N
  <2>. DEFINE e == E[i - 1]
              f == E[i]
              st == Shown(E, vals, i - 1)
              rs == ReadArg(types[i], g, Len(e))
  <2>1. Begins(g, f) /\ Begins(g, g) /\ Begins(f, e)
    <3>1. N \in 0..N /\ i \in 0..N /\ i - 1 \in 0..i /\ i \in 0..i
      BY <1>1
    <3>. QED  BY <3>1, LayoutPrefix
  <2>2. Len(e) \in Nat /\ Len(f) \in Nat
    <3>1. i \in 0..N /\ i - 1 \in 0..N
      BY <1>1
    <3>. QED  BY <3>1, LayoutBytes
  <2>3. Len(e) <= Len(g) => rs = IF Len(f) <= Len(g) THEN Got(vals[i], Len(f)) ELSE {}
    <3>. HIDE DEF N
    <3>. QED  BY <1>1, <2>1, ReadStep DEF N
  <2>4. Len(e) <= Len(g) /\ Len(f) <= Len(g)
    <3>. HIDE DEF e, f, g
    <3>. QED  BY <1>1, <2>1, <2>2 DEF Begins
  <2>5. rs = {[val |-> vals[i], off |-> Len(f)]}
    BY <2>3, <2>4 DEF Got
  <2>6. st.at = i /\ st.off = Len(e) /\ st.text = Upto(vals, i - 1)
    BY <1>1 DEF Shown
  <2>7. types[i] # "BINARY"
    <3>1. types \in Seq(ArgTypes) /\ i \in DOMAIN types
      BY LenProperties DEF Layout
    <3>. QED  BY <3>1 DEF ToSet
  <2>8. Append(Upto(vals, i - 1), vals[i]) = Upto(vals, i)
    <3>1. i \in Nat \ {0}
      BY <1>1
    <3>. QED  BY <3>1, AppendUpto
  <2>9. ~(i > N)
    BY <1>1
  <2>. HIDE DEF e, f, st, rs, g
  <2>10. (IF st.at > Len(types) THEN {} ELSE ReadArg(types[st.at], g, st.off)) = rs
    BY <2>6, <2>9 DEF rs
  <2>11. (CHOOSE one \in rs : TRUE) = [val |-> vals[i], off |-> Len(f)] /\ rs # {}
    <3>. DEFINE one == CHOOSE one \in rs : TRUE
    <3>1. one \in rs
      BY <2>5
    <3>. QED  BY <2>5, <3>1
  <2>12. Format(types, g, st) =
           [at |-> i + 1, off |-> Len(f), text |-> Append(st.text, vals[i])]
    <3>. DEFINE rs0 == IF st.at > Len(types) THEN {} ELSE ReadArg(types[st.at], g, st.off)
                r0 == CHOOSE one \in rs0 : TRUE
    <3>1. Format(types, g, st) =
            IF rs0 = {} THEN st
            ELSE [at |-> IF types[st.at] = "BINARY" THEN Len(r0.val) + 2 ELSE st.at + 1,
                  off |-> r0.off, text |-> Append(st.text, r0.val)]
      BY DEF Format
    <3>2. rs0 = rs
      BY <2>10
    <3>. HIDE DEF rs0
    <3>3. r0 = [val |-> vals[i], off |-> Len(f)]
      BY <2>11, <3>2
    <3>. HIDE DEF r0
    <3>4. r0.val = vals[i] /\ r0.off = Len(f) /\ rs0 # {} /\ types[st.at] # "BINARY" /\ st.at = i
      BY <2>6, <2>7, <2>11, <3>2, <3>3
    <3>. QED  BY <3>1, <3>4
  <2>13. Format(types, g, st) = Shown(E, vals, i)
    BY <2>6, <2>8, <2>12 DEF Shown, f
  <2>. QED  BY <2>13 DEF st
<1>3. Format(types, g, Shown(E, vals, N)) = Shown(E, vals, N)
  <2>. DEFINE st == Shown(E, vals, N)
  <2>1. st.at > Len(types)
    BY <1>1 DEF Shown
  <2>. HIDE DEF st
  <2>. DEFINE rs == IF st.at > Len(types) THEN {} ELSE ReadArg(types[st.at], g, st.off)
              r == CHOOSE one \in rs : TRUE
  <2>2. Format(types, g, st) =
          IF rs = {} THEN st
          ELSE [at |-> IF types[st.at] = "BINARY" THEN Len(r.val) + 2 ELSE st.at + 1,
                off |-> r.off, text |-> Append(st.text, r.val)]
    BY DEF Format
  <2>3. rs = {}
    BY <2>1
  <2>. HIDE DEF rs, r
  <2>4. Format(types, g, st) = st
    BY <2>2, <2>3
  <2>. QED  BY <2>4 DEF st
<1>. QED  BY <1>2, <1>3

LEMMA FormattedLaid ==
  ASSUME NEW d, NEW E, NEW vals, Layout(E, d.args, vals), "BINARY" \notin ToSet(d.args)
  PROVE  Formatted(d, E[Len(d.args)]) = vals
<1>. DEFINE types == d.args
            N == Len(types)
            g == E[N]
            t == CHOOSE f : Turns(f, types, g, Len(g))
            Cut(k) == IF k <= N THEN k ELSE N
            T == {k \in 0..Len(g) : t[k] = Shown(E, vals, Cut(k))}
<1>1. N \in Nat /\ Len(g) \in Nat /\ Len(g) >= 4 + N
  <2>1. N \in Nat
    BY LayoutArgs
  <2>. QED  BY <2>1, LayoutBytes
<1>2. Formatted(d, g) = t[Len(g)].text
  BY DEF Formatted, Turns
<1>3. Turns(t, types, g, Len(g))
  BY <1>1, TurnsIs
<1>4. /\ \A i \in 1..N : Format(types, g, Shown(E, vals, i - 1)) = Shown(E, vals, i)
      /\ Format(types, g, Shown(E, vals, N)) = Shown(E, vals, N)
  BY FormatStep
<1>5. Len(E[0]) = 4 /\ vals = Upto(vals, N)
  BY DEF Layout, Upto
<1>. HIDE DEF types, N, g, t
<1>6. 0 \in T
  <2>1. t[0] = [at |-> 1, off |-> 4, text |-> << >>]
    BY <1>1, <1>3 DEF Turns
  <2>2. Upto(vals, 0) = << >>
    BY DEF Upto
  <2>3. Shown(E, vals, 0) = [at |-> 1, off |-> 4, text |-> << >>]
    BY <1>5, <2>2 DEF Shown
  <2>. QED  BY <1>1, <2>1, <2>3
<1>7. ASSUME NEW k \in 1..Len(g), k - 1 \in T
      PROVE  k \in T
  <2>1. t[k] = Format(types, g, t[k - 1])
    BY <1>1, <1>3 DEF Turns
  <2>2. t[k - 1] = Shown(E, vals, Cut(k - 1))
    BY <1>7
  <2>3. CASE k <= N
    <3>1. k \in 1..N /\ Cut(k - 1) = k - 1 /\ Cut(k) = k
      BY <1>1, <2>3
    <3>2. Format(types, g, Shown(E, vals, k - 1)) = Shown(E, vals, k)
      BY <1>4, <3>1
    <3>3. t[k] = Shown(E, vals, Cut(k))
      BY <2>1, <2>2, <3>1, <3>2, Zenon
    <3>. HIDE DEF Cut
    <3>. QED  BY <1>1, <3>3
  <2>4. CASE k > N
    <3>1. Cut(k - 1) = N /\ Cut(k) = N
      BY <1>1, <2>4
    <3>. QED  BY <1>4, <2>1, <2>2, <3>1
  <2>. QED  BY <1>1, <2>3, <2>4
<1>. HIDE DEF T
<1>8. Len(g) \in T
  <2>1. \A k \in 0..Len(g) : k \in T
    BY <1>1, <1>6, <1>7, CountUp
  <2>. QED  BY <1>1, <2>1
<1>9. Cut(Len(g)) = N
  BY <1>1
<1>10. t[Len(g)].text = vals
  BY <1>5, <1>8, <1>9 DEF T, Shown
<1>. QED  BY <1>2, <1>10 DEF g, N, types

LEMMA BeginIs ==
  ASSUME NEW b \in Seq(Bytes8), NEW n \in 0..Len(b)
  PROVE  SubSeq(b, 1, n) \in Seq(Bytes8) /\ Len(SubSeq(b, 1, n)) = n /\ Begins(b, SubSeq(b, 1, n))
<1>. DEFINE s == SubSeq(b, 1, n)
<1>1. Len(b) \in Nat /\ n \in Nat /\ n <= Len(b)
  BY LenProperties
<1>2. \A i \in 1..n : b[i] \in Bytes8
  <2>1. \A i \in 1..n : i \in 1..Len(b)
    BY <1>1
  <2>. QED  BY <2>1, ElementOfSeq
<1>3. /\ s \in Seq(Bytes8) /\ Len(s) = IF 1 <= n THEN n - 1 + 1 ELSE 0
      /\ \A i \in 1..(n - 1 + 1) : s[i] = b[1 + i - 1]
  <2>1. 1 \in Int /\ n \in Int
    BY <1>1
  <2>. HIDE DEF s
  <2>. QED  BY <1>2, <2>1, SubSeqProperties DEF s
<1>. HIDE DEF s
<1>4. Len(s) = n
  BY <1>1, <1>3
<1>5. \A i \in 1..n : b[i] = s[i]
  <2>1. \A i \in 1..n : i \in 1..(n - 1 + 1) /\ 1 + i - 1 = i
    BY <1>1
  <2>. QED  BY <1>3, <2>1
<1>6. Begins(b, s)
  BY <1>1, <1>4, <1>5 DEF Begins
<1>. QED  BY <1>3, <1>4, <1>6 DEF s

(* A command is read as it was encoded, and nothing else is.               *)
LEMMA CommandRead ==
  ASSUME NEW d \in Descs, NEW vals \in ValuesOf(d)
  PROVE  LET argv == Argv(d, vals)
         IN  /\ EncodeCmd(d, argv) # {}
             /\ \A b \in EncodeCmd(d, argv) :
                  /\ DecodeCmd(d, b) = {vals}
                  /\ \A id \in DecodeHeader(b) :
                       FindDesc(id) = {d} /\ GetValues(id, b, Len(vals)) = {vals}
                  /\ \A n \in 0..(Len(b) - 1) : DecodeCmd(d, SubSeq(b, 1, n)) = {}
                  /\ \A other \in Descs \ {d} : DecodeCmd(other, b) = {}
                  /\ "BINARY" \notin ToSet(d.args) => Formatted(d, b) = vals
<1>. DEFINE types == d.args
            N == Len(types)
            argv == Argv(d, vals)
            num == [prj |-> d.prj, cls |-> d.cls, cmd |-> d.cmd]
<1>1. PICK E : /\ Layout(E, types, vals)
               /\ EncodeCmd(d, argv) = {E[N]}
               /\ E[0] = <<d.prj, d.cls>> \o Fixed(d.cmd, 2)
  BY EncodeLaid
<1>. DEFINE b == E[N]
<1>2. N \in Nat /\ b \in Seq(Bytes8) /\ Len(b) \in Nat /\ Len(b) >= 4
  <2>1. N \in Nat /\ N \in 0..N
    BY <1>1, LayoutArgs
  <2>2. b \in Seq(Bytes8) /\ Len(b) \in Nat /\ Len(b) >= 4 + N
    BY <1>1, <2>1, LayoutBytes
  <2>. HIDE DEF b, N
  <2>. QED  BY <2>1, <2>2
<1>3. ASSUME NEW c \in Seq(Bytes8), Begins(b, c), Len(c) >= 4
      PROVE  /\ DecodeHeader(c) = {num}
             /\ DecodeArgs(types, c) = IF Len(c) = Len(b) THEN {vals} ELSE {}
  <2>1. DecodeHeader(c) = {num}
    BY <1>1, <1>3, HeaderIs
  <2>2. 4 <= Len(c)
    BY <1>3, LenProperties
  <2>3. DecodeArgs(types, c) = IF Len(c) = Len(b) THEN {vals} ELSE {}
    BY <1>1, <1>3, <2>2, DecodeLaid
  <2>. QED  BY <2>1, <2>3
<1>4. Begins(b, b)
  BY <1>2 DEF Begins
<1>5. DecodeHeader(b) = {num} /\ DecodeArgs(types, b) = {vals}
  BY <1>2, <1>3, <1>4
<1>6. FindDesc(num) = {d}
  BY FindDescFinds
<1>7. Len(vals) = N
  <2>1. vals = [i \in 1..N |-> vals[i]]
    BY <1>1 DEF Layout
  <2>. HIDE DEF N
  <2>. QED  BY <1>2, <2>1
<1>8. "BINARY" \notin ToSet(types) => Formatted(d, b) = vals
  BY <1>1, FormattedLaid
<1>9. \A other \in Descs \ {d} : num # [prj |-> other.prj, cls |-> other.cls, cmd |-> other.cmd]
  <2>. SUFFICES ASSUME NEW other \in Descs, other # d,
                       num = [prj |-> other.prj, cls |-> other.cls, cmd |-> other.cmd]
                PROVE  FALSE
    OBVIOUS
  <2>1. d.prj = other.prj /\ d.cls = other.cls /\ d.cmd = other.cmd
    OBVIOUS
  <2>. QED  BY <2>1, NumbersTell
<1>10. \A n \in 0..(Len(b) - 1) : DecodeCmd(d, SubSeq(b, 1, n)) = {}
  <2>. TAKE n \in 0..(Len(b) - 1)
  <2>. DEFINE c == SubSeq(b, 1, n)
  <2>1. n \in 0..Len(b) /\ n \in Int
    BY <1>2
  <2>2. c \in Seq(Bytes8) /\ Len(c) = n /\ Begins(b, c)
    BY <1>2, <2>1, BeginIs
  <2>. HIDE DEF c, b, types
  <2>3. CASE n < 4
    <3>1. DecodeHeader(c) = {}
      BY <2>2, <2>3 DEF DecodeHeader
    <3>2. DecodeCmd(d, c) = {}
      BY <3>1 DEF DecodeCmd
    <3>. QED  BY <3>2 DEF c
  <2>4. CASE n >= 4
    <3>1. Len(c) >= 4 /\ Len(c) # Len(b)
      BY <1>2, <2>2, <2>4
    <3>2. DecodeHeader(c) = {num} /\ DecodeArgs(types, c) = {}
      BY <1>3, <2>2, <3>1
    <3>3. DecodeCmd(d, c) = {}
      BY <3>2 DEF DecodeCmd, types
    <3>. QED  BY <3>3 DEF c
  <2>. QED  BY <2>1, <2>3, <2>4
<1>11. \A other \in Descs \ {d} : DecodeCmd(other, b) = {}
  <2>. HIDE DEF b, num
  <2>. QED  BY <1>5, <1>9 DEF DecodeCmd
<1>12. DecodeCmd(d, b) = {vals}
  <2>. HIDE DEF b
  <2>. QED  BY <1>5 DEF DecodeCmd
<1>13. GetValues(num, b, Len(vals)) = {vals}
  <2>1. ~(Len(d.args) > Len(vals))
    BY <1>2, <1>7
  <2>. HIDE DEF b, num
  <2>. QED  BY <1>5, <1>6, <2>1 DEF GetValues
<1>14. \A id \in DecodeHeader(b) : FindDesc(id) = {d} /\ GetValues(id, b, Len(vals)) = {vals}
  <2>. HIDE DEF b, num
  <2>. QED  BY <1>5, <1>6, <1>13
<1>. HIDE DEF b
<1>15. EncodeCmd(d, argv) = {b}
  BY <1>1 DEF b
<1>. HIDE DEF argv
<1>16. \A x \in EncodeCmd(d, argv) : x = b
  BY <1>15
<1>17. EncodeCmd(d, argv) # {}
  BY <1>15
<1>18. \A x \in EncodeCmd(d, argv) :
         /\ DecodeCmd(d, x) = {vals}
         /\ \A id \in DecodeHeader(x) :
              FindDesc(id) = {d} /\ GetValues(id, x, Len(vals)) = {vals}
         /\ \A n \in 0..(Len(x) - 1) : DecodeCmd(d, SubSeq(x, 1, n)) = {}
         /\ \A other \in Descs \ {d} : DecodeCmd(other, x) = {}
         /\ "BINARY" \notin ToSet(d.args) => Formatted(d, x) = vals
  <2>. TAKE x \in EncodeCmd(d, argv)
  <2>1. x = b
    BY <1>16
  <2>. QED  BY <1>8, <1>10, <1>11, <1>12, <1>14, <2>1, Zenon
<1>. QED  BY <1>17, <1>18, Zenon DEF argv

\* Of every table of descriptions and all values its arguments may have: what
\* arsdk_cmd_enc wrote, arsdk_cmd_dec and arsdk_cmd_get_values read as it was, and
\* neither a part of it nor as another command.
THEOREM CommandsRead == CommandsUnderstood
<1>. SUFFICES ASSUME NEW d \in Descs, NEW vals \in ValuesOf(d)
              PROVE  LET argv == [i \in DOMAIN vals |-> [type |-> d.args[i], val |-> vals[i]]]
                     IN  /\ EncodeCmd(d, argv) # {}
                         /\ \A b \in EncodeCmd(d, argv) :
                              /\ DecodeCmd(d, b) = {vals}
                              /\ \A id \in DecodeHeader(b) :
                                   FindDesc(id) = {d} /\ GetValues(id, b, Len(vals)) = {vals}
                              /\ \A n \in 0..(Len(b) - 1) : DecodeCmd(d, SubSeq(b, 1, n)) = {}
                              /\ \A other \in Descs \ {d} : DecodeCmd(other, b) = {}
                              /\ "BINARY" \notin ToSet(d.args) => Formatted(d, b) = vals
  BY Zenon DEF CommandsUnderstood
<1>. QED  BY CommandRead, Zenon DEF Argv

LEMMA ConcatExtends ==
  ASSUME NEW S, NEW e \in Seq(S), NEW w \in Seq(S)
  PROVE  e \o w \in Seq(S) /\ Extends(e \o w, e, w)
<1>. DEFINE f == e \o w
<1>1. /\ f \in Seq(S) /\ Len(f) = Len(e) + Len(w)
      /\ \A p \in 1..(Len(e) + Len(w)) : f[p] = IF p <= Len(e) THEN e[p] ELSE w[p - Len(e)]
  BY ConcatProperties
<1>2. Len(e) \in Nat /\ Len(w) \in Nat
  BY LenProperties
<1>. HIDE DEF f
<1>3. \A p \in 1..Len(e) : f[p] = e[p]
  <2>1. \A p \in 1..Len(e) : p \in 1..(Len(e) + Len(w)) /\ p <= Len(e)
    BY <1>2
  <2>. QED  BY <1>1, <2>1
<1>4. \A p \in 1..Len(w) : f[Len(e) + p] = w[p]
  <2>. SUFFICES ASSUME NEW p \in 1..Len(w)
                PROVE  f[Len(e) + p] = w[p]
    OBVIOUS
  <2>. DEFINE q == Len(e) + p
  <2>1. q \in 1..(Len(e) + Len(w)) /\ ~(q <= Len(e)) /\ q - Len(e) = p
    BY <1>2
  <2>. HIDE DEF q
  <2>2. f[q] = w[p]
    BY <1>1, <2>1
  <2>. QED  BY <2>2 DEF q
<1>5. Extends(f, e, w)
  BY <1>1, <1>3, <1>4 DEF Extends
<1>. QED  BY <1>1, <1>5 DEF f

(* The rest of a sequence.                                                 *)
LEMMA FromIs ==
  ASSUME NEW b \in Seq(Nat), NEW i \in Nat, 1 <= i, i <= Len(b)
  PROVE  /\ From(b, i) \in Seq(Nat) /\ Len(From(b, i)) = Len(b) - i + 1
         /\ \A j \in 1..(Len(b) - i + 1) : From(b, i)[j] = b[i + j - 1]
<1>. DEFINE s == From(b, i)
            l == Len(b)
<1>1. l \in Nat /\ i \in Int /\ i <= l /\ 1 <= i
  BY LenProperties
<1>2. \A j \in i..l : b[j] \in Nat
  <2>1. \A j \in i..l : j \in 1..l
    BY <1>1
  <2>. QED  BY <2>1, ElementOfSeq
<1>3. s = SubSeq(b, i, l)
  BY DEF From
<1>. HIDE DEF s, l
<1>4. /\ s \in Seq(Nat) /\ Len(s) = IF i <= l THEN l - i + 1 ELSE 0
      /\ \A j \in 1..(l - i + 1) : s[j] = b[i + j - 1]
  <2>1. l \in Int /\ i \in Int
    BY <1>1
  <2>. QED  BY <1>2, <1>3, <2>1, SubSeqProperties
<1>. QED  BY <1>1, <1>4 DEF s, l

LEMMA Bytes4 ==
  ASSUME NEW x \in Nat, x < 30000
  PROVE  /\ Bytes(x, 4) \in Seq(Nat) /\ Len(Bytes(x, 4)) = 4
         /\ Value(Bytes(x, 4)) = x
<1>. DEFINE s == <<x % 256, (x \div 256) % 256, (x \div 65536) % 256, (x \div 16777216) % 256>>
            b == Bytes(x, 4)
            y == x \div 256
            z == x % 256
<1>1. y \in Nat /\ z \in Nat /\ x = 256 * y + z /\ y < 256
  <2>1. y \in Int /\ y >= 0
    OBVIOUS
  <2>2. z \in Int /\ z >= 0 /\ z < 256
    OBVIOUS
  <2>3. x = 256 * y + z
    OBVIOUS
  <2>. HIDE DEF y, z
  <2>. QED  BY <2>1, <2>2, <2>3
<1>2. x \div 65536 = 0 /\ x \div 16777216 = 0
  OBVIOUS
<1>3. y % 256 = y /\ 0 % 256 = 0
  <2>. HIDE DEF y
  <2>. QED  BY <1>1
<1>4. s = <<z, y, 0, 0>>
  <2>1. s = <<z, y % 256, (x \div 65536) % 256, (x \div 16777216) % 256>>
    OBVIOUS
  <2>. HIDE DEF s, y, z
  <2>. QED  BY <1>2, <1>3, <2>1
<1>5. s \in Seq(Nat) /\ Len(s) = 4
  <2>. HIDE DEF s, y, z
  <2>. QED  BY <1>1, <1>4
<1>6. b = SubSeq(s, 1, Len(s))
  <2>1. b = SubSeq(s, 1, 4)
    BY DEF Bytes
  <2>. HIDE DEF s
  <2>. QED  BY <1>5, <2>1
<1>. HIDE DEF s
<1>7. b = s
  <2>1. SubSeq(s, 1, Len(s)) = s
    BY <1>5, SubSeqFull
  <2>. HIDE DEF b
  <2>. QED  BY <1>6, <2>1
<1>8. Value(b) = z + 256 * y + 65536 * 0 + 16777216 * 0
  <2>. HIDE DEF b, y, z
  <2>. QED  BY <1>4, <1>7 DEF Value
<1>. HIDE DEF b, y, z
<1>9. Value(b) = x
  BY <1>1, <1>8
<1>. QED  BY <1>5, <1>7, <1>9 DEF b

LEMMA Bytes2 ==
  ASSUME NEW x \in Nat, x <= Uint16Max
  PROVE  /\ Bytes(x, 2) \in Seq(Nat) /\ Len(Bytes(x, 2)) = 2
         /\ Bytes(x, 2)[1] + 256 * Bytes(x, 2)[2] = x
<1>. DEFINE s == <<x % 256, (x \div 256) % 256, (x \div 65536) % 256, (x \div 16777216) % 256>>
            b == Bytes(x, 2)
            y == x \div 256
            z == x % 256
            u == (x \div 65536) % 256
            v == (x \div 16777216) % 256
<1>0. x <= 65535
  BY DEF Uint16Max
<1>1. y \in Nat /\ z \in Nat /\ x = 256 * y + z /\ y < 256
  <2>1. y \in Int /\ y >= 0
    OBVIOUS
  <2>2. z \in Int /\ z >= 0 /\ z < 256
    OBVIOUS
  <2>3. x = 256 * y + z
    OBVIOUS
  <2>. HIDE DEF y, z
  <2>. QED  BY <1>0, <2>1, <2>2, <2>3
<1>2. u \in Nat /\ v \in Nat
  OBVIOUS
<1>3. y % 256 = y
  <2>. HIDE DEF y
  <2>. QED  BY <1>1
<1>4. s = <<z, y, u, v>>
  <2>1. s = <<z, y % 256, u, v>>
    OBVIOUS
  <2>. HIDE DEF s, y, z, u, v
  <2>. QED  BY <1>3, <2>1
<1>5. b = SubSeq(s, 1, 2)
  BY DEF Bytes
<1>. HIDE DEF s, b, y, z, u, v
<1>6. s \in Seq(Nat) /\ Len(s) = 4 /\ s[1] = z /\ s[2] = y
  BY <1>1, <1>2, <1>4
<1>7. <<z, y>> \in Seq(Nat) /\ Len(<<z, y>>) = 2
  BY <1>1
<1>8. SubSeq(s, 0 + 1, 0 + Len(<<z, y>>)) = <<z, y>>
  <2>1. \A i \in 1..Len(<<z, y>>) : s[0 + i] = <<z, y>>[i]
    <3>1. \A i \in 1..2 : i = 1 \/ i = 2
      OBVIOUS
    <3>. QED  BY <1>6, <1>7, <3>1
  <2>2. 0 \in Nat /\ 0 + Len(<<z, y>>) <= Len(s)
    BY <1>6, <1>7
  <2>. QED  BY <1>6, <1>7, <2>1, <2>2, SubSeqIs
<1>9. b = <<z, y>>
  BY <1>5, <1>7, <1>8
<1>10. b[1] = z /\ b[2] = y
  BY <1>9
<1>11. b[1] + 256 * b[2] = x
  BY <1>1, <1>10
<1>. QED  BY <1>7, <1>9, <1>11 DEF b

LEMMA VarintIs ==
  ASSUME NEW x \in Nat, x <= VarintMax
  PROVE  /\ Varint(x) \in Seq(Nat) /\ Len(Varint(x)) \in {1, 2}
         /\ VarintLen(Varint(x)) = Len(Varint(x)) /\ ReadVarint(Varint(x)) = x
         /\ x < 128 => Varint(x) = <<x>>
<1>0. x <= 16383
  BY DEF VarintMax
<1>1. CASE x < 128
  <2>1. Varint(x) = <<x>>
    BY <1>1 DEF Varint
  <2>. QED  BY <1>1, <2>1 DEF VarintLen, ReadVarint
<1>2. CASE ~(x < 128)
  <2>. DEFINE y == x \div 128
              z == x % 128
              t == 128 + z
  <2>1. y \in Int /\ y >= 0
    OBVIOUS
  <2>2. z \in Int /\ z >= 0 /\ z < 128
    OBVIOUS
  <2>3. x = 128 * y + z
    OBVIOUS
  <2>4. Varint(x) = <<t, y>>
    BY <1>2 DEF Varint
  <2>. HIDE DEF y, z
  <2>5. t \in Nat /\ y \in Nat /\ ~(t < 128) /\ t - 128 + 128 * y = x
    BY <2>1, <2>2, <2>3
  <2>. HIDE DEF t
  <2>6. /\ Varint(x) \in Seq(Nat) /\ Len(Varint(x)) = 2
        /\ Varint(x)[1] = t /\ Varint(x)[2] = y
    BY <2>4, <2>5
  <2>7. VarintLen(Varint(x)) = 2
    BY <2>5, <2>6 DEF VarintLen
  <2>8. ReadVarint(Varint(x)) = x
    BY <2>5, <2>6 DEF ReadVarint
  <2>. QED  BY <1>2, <2>6, <2>7, <2>8
<1>. QED  BY <1>1, <1>2

LEMMA HeaderType ==
  ASSUME NEW h \in Headers
  PROVE  /\ h = [type |-> h.type, id |-> h.id, seq |-> h.seq]
         /\ h.type \in Nat /\ h.type < TypeMax /\ h.id \in Nat
         /\ h.seq \in Nat /\ h.seq <= Uint16Max
<1>1. h \in [type : 1..4, id : 0..255, seq : 0..Uint16Max]
  BY FramesAssumption
<1>2. Uint16Max \in Nat
  BY DEF Uint16Max
<1>3. h.type \in 1..4 /\ h.id \in 0..255 /\ h.seq \in 0..Uint16Max
  BY <1>1
<1>4. h = [type |-> h.type, id |-> h.id, seq |-> h.seq]
  BY <1>1
<1>5. h.type \in Nat /\ h.type < 10 /\ h.id \in Nat
  BY <1>3
<1>6. h.seq \in Nat /\ h.seq <= Uint16Max
  BY <1>2, <1>3
<1>. QED  BY <1>4, <1>5, <1>6 DEF TypeMax

LEMMA Payload ==
  ASSUME NEW n \in Nat
  PROVE  LET s == [i \in 1..n |-> Fill] IN s \in Seq(Nat) /\ Len(s) = n
<1>. DEFINE s == [i \in 1..n |-> Fill]
<1>1. Fill \in Nat
  BY DEF Fill
<1>2. s \in Seq(Nat) /\ Len(s) = n
  BY <1>1
<1>. QED  BY <1>2

(* What a frame is, whatever its version: each transport reads of its bytes    *)
(* the one that was sent.                                                  *)
LEMMA SentV1 ==
  ASSUME NEW h \in Headers, NEW n \in Nat, n <= VarintMax
  PROVE  LET b == Encoded(1, h, n)
         IN  /\ b \in Seq(Nat) /\ Len(b) = V1Size + n /\ b[1] < TypeMax
             /\ DecodeV1(b) = {[header |-> Given(1, h), size |-> V1Size, payload |-> n]}
<1>. DEFINE q == h.seq % 256
            s1 == <<h.type, h.id, q>>
            s2 == Bytes(V1Size + n, 4)
            s3 == s1 \o s2
            pl == [i \in 1..n |-> Fill]
            b == s3 \o pl
            r == From(b, 4)
<1>1. n <= 16383 /\ V1Size = 7
  BY DEF VarintMax, V1Size
<1>2. /\ h = [type |-> h.type, id |-> h.id, seq |-> h.seq]
      /\ h.type \in Nat /\ h.type < TypeMax /\ h.id \in Nat /\ h.seq \in Nat
  BY HeaderType
<1>3. q \in Nat
  BY <1>2
<1>4. Encoded(1, h, n) = b
  BY DEF Encoded, EncodeV1
<1>5. Given(1, h) = [type |-> h.type, id |-> h.id, seq |-> q]
  <2>1. Given(1, h) = [h EXCEPT !.seq = q]
    BY DEF Given
  <2>. HIDE DEF q
  <2>. QED  BY <1>2, <2>1
<1>. HIDE DEF q
<1>6. s1 \in Seq(Nat) /\ Len(s1) = 3 /\ s1[1] = h.type /\ s1[2] = h.id /\ s1[3] = q
  BY <1>2, <1>3
<1>7. s2 \in Seq(Nat) /\ Len(s2) = 4 /\ Value(s2) = V1Size + n
  <2>. DEFINE x == V1Size + n
  <2>1. x \in Nat /\ x < 30000
    BY <1>1
  <2>. HIDE DEF x
  <2>2. Bytes(x, 4) \in Seq(Nat) /\ Len(Bytes(x, 4)) = 4 /\ Value(Bytes(x, 4)) = x
    BY <2>1, Bytes4
  <2>. QED  BY <2>2 DEF x
<1>8. pl \in Seq(Nat) /\ Len(pl) = n
  BY Payload
<1>. HIDE DEF s1, s2, pl
<1>9. s3 \in Seq(Nat) /\ Extends(s3, s1, s2)
  BY <1>6, <1>7, ConcatExtends
<1>. HIDE DEF s3
<1>10. b \in Seq(Nat) /\ Extends(b, s3, pl)
  BY <1>8, <1>9, ConcatExtends
<1>. HIDE DEF b
<1>11. Len(s3) = 7
  BY <1>6, <1>7, <1>9 DEF Extends
<1>12. /\ s3[1] = s1[1] /\ s3[2] = s1[2] /\ s3[3] = s1[3]
       /\ s3[4] = s2[1] /\ s3[5] = s2[2] /\ s3[6] = s2[3] /\ s3[7] = s2[4]
  <2>1. \A p \in 1..3 : s3[p] = s1[p]
    BY <1>6, <1>9 DEF Extends
  <2>2. \A p \in 1..4 : s3[3 + p] = s2[p]
    BY <1>6, <1>7, <1>9 DEF Extends
  <2>3. s3[3 + 1] = s2[1] /\ s3[3 + 2] = s2[2] /\ s3[3 + 3] = s2[3] /\ s3[3 + 4] = s2[4]
    BY <2>2
  <2>. QED  BY <2>1, <2>3
<1>13. Len(b) = 7 + n /\ \A p \in 1..7 : b[p] = s3[p]
  BY <1>8, <1>10, <1>11 DEF Extends
<1>14. /\ b[1] = h.type /\ b[2] = h.id /\ b[3] = q
       /\ b[4] = s2[1] /\ b[5] = s2[2] /\ b[6] = s2[3] /\ b[7] = s2[4]
  BY <1>6, <1>12, <1>13
<1>15. Value(r) = V1Size + n
  <2>. DEFINE m == Len(b) - 4 + 1
  <2>1. m \in Nat /\ m >= 4 /\ 4 \in Nat /\ 1 <= 4 /\ 4 <= Len(b)
    BY <1>13
  <2>2. \A j \in 1..m : r[j] = b[4 + j - 1]
    BY <1>10, <2>1, FromIs
  <2>. HIDE DEF m, r
  <2>3. 1 \in 1..m /\ 2 \in 1..m /\ 3 \in 1..m /\ 4 \in 1..m
    BY <2>1
  <2>4. r[1] = b[4 + 1 - 1] /\ r[2] = b[4 + 2 - 1] /\ r[3] = b[4 + 3 - 1] /\ r[4] = b[4 + 4 - 1]
    BY <2>2, <2>3
  <2>5. r[1] = s2[1] /\ r[2] = s2[2] /\ r[3] = s2[3] /\ r[4] = s2[4]
    BY <1>14, <2>4
  <2>6. Value(r) = Value(s2)
    BY <2>5 DEF Value
  <2>. QED  BY <1>7, <2>6
<1>16. DecodeV1(b) = {[header |-> Given(1, h), size |-> V1Size, payload |-> n]}
  <2>. DEFINE x == Value(r)
  <2>1. x = V1Size + n /\ ~(x < V1Size) /\ x - V1Size = n
    BY <1>1, <1>15
  <2>2. DecodeV1(b) = IF x < V1Size THEN {} ELSE Read(b[1], b[2], b[3], V1Size, x - V1Size)
    BY DEF DecodeV1
  <2>. HIDE DEF x
  <2>3. DecodeV1(b) = Read(b[1], b[2], b[3], V1Size, n)
    BY <2>1, <2>2
  <2>. QED  BY <1>5, <1>14, <2>3 DEF Read
<1>17. Len(b) = V1Size + n /\ b[1] < TypeMax
  BY <1>1, <1>2, <1>13, <1>14
<1>. QED  BY <1>4, <1>10, <1>16, <1>17

LEMMA SentV2 ==
  ASSUME NEW v \in {2, 3}, NEW h \in Headers, NEW n \in Nat, n <= VarintMax
  PROVE  LET b == Encoded(v, h, n)
             l == 5 + Len(Varint(n))
         IN  /\ b \in Seq(Nat) /\ Len(b) = l + n
             /\ DecodeV2(b) = {[header |-> h, size |-> l, payload |-> n]}
<1>. DEFINE s1 == Varint(v + TypeMax)
            t == <<h.type, h.id>>
            s2 == s1 \o t
            u == Bytes(h.seq, 2)
            s3 == s2 \o u
            w == Varint(n)
            s4 == s3 \o w
            pl == [i \in 1..n |-> Fill]
            b == s4 \o pl
            k == Len(w)
            rest == From(b, 2)
            size == From(rest, 5)
<1>1. Encoded(v, h, n) = b
  <2>1. v # 1
    OBVIOUS
  <2>. QED  BY <2>1, Zenon DEF Encoded, EncodeV2
<1>2. /\ h = [type |-> h.type, id |-> h.id, seq |-> h.seq]
      /\ h.type \in Nat /\ h.id \in Nat /\ h.seq \in Nat /\ h.seq <= Uint16Max
  BY HeaderType
<1>3. s1 \in Seq(Nat) /\ Len(s1) = 1 /\ s1[1] = v + 10
  <2>1. v + TypeMax \in Nat /\ v + TypeMax <= VarintMax /\ v + TypeMax < 128 /\ v + TypeMax = v + 10
    BY DEF TypeMax, VarintMax
  <2>2. s1 = <<v + TypeMax>>
    BY <2>1, VarintIs
  <2>. HIDE DEF s1
  <2>. QED  BY <2>1, <2>2
<1>4. t \in Seq(Nat) /\ Len(t) = 2 /\ t[1] = h.type /\ t[2] = h.id
  BY <1>2
<1>5. u \in Seq(Nat) /\ Len(u) = 2 /\ u[1] + 256 * u[2] = h.seq
  BY <1>2, Bytes2
<1>6. w \in Seq(Nat) /\ k \in {1, 2} /\ VarintLen(w) = k /\ ReadVarint(w) = n
  BY VarintIs
<1>7. pl \in Seq(Nat) /\ Len(pl) = n
  BY Payload
<1>. HIDE DEF s1, t, u, w, pl
<1>8. s2 \in Seq(Nat) /\ Extends(s2, s1, t)
  BY <1>3, <1>4, ConcatExtends
<1>. HIDE DEF s2
<1>9. s3 \in Seq(Nat) /\ Extends(s3, s2, u)
  BY <1>5, <1>8, ConcatExtends
<1>. HIDE DEF s3
<1>10. s4 \in Seq(Nat) /\ Extends(s4, s3, w)
  BY <1>6, <1>9, ConcatExtends
<1>. HIDE DEF s4
<1>11. b \in Seq(Nat) /\ Extends(b, s4, pl)
  BY <1>7, <1>10, ConcatExtends
<1>. HIDE DEF b
<1>12. Len(s2) = 3 /\ s2[1] = v + 10 /\ s2[2] = h.type /\ s2[3] = h.id
  <2>1. Len(s2) = 3
    BY <1>3, <1>4, <1>8 DEF Extends
  <2>2. \A p \in 1..1 : s2[p] = s1[p]
    BY <1>3, <1>8 DEF Extends
  <2>3. \A p \in 1..2 : s2[1 + p] = t[p]
    BY <1>3, <1>4, <1>8 DEF Extends
  <2>4. s2[1] = s1[1] /\ s2[1 + 1] = t[1] /\ s2[1 + 2] = t[2]
    BY <2>2, <2>3
  <2>. QED  BY <1>3, <1>4, <2>1, <2>4
<1>13. /\ Len(s3) = 5 /\ s3[1] = v + 10 /\ s3[2] = h.type /\ s3[3] = h.id
       /\ s3[4] = u[1] /\ s3[5] = u[2]
  <2>1. Len(s3) = 5
    BY <1>5, <1>9, <1>12 DEF Extends
  <2>2. \A p \in 1..3 : s3[p] = s2[p]
    BY <1>9, <1>12 DEF Extends
  <2>3. \A p \in 1..2 : s3[3 + p] = u[p]
    BY <1>5, <1>9, <1>12 DEF Extends
  <2>4. s3[1] = s2[1] /\ s3[2] = s2[2] /\ s3[3] = s2[3]
    BY <2>2
  <2>5. s3[3 + 1] = u[1] /\ s3[3 + 2] = u[2]
    BY <2>3
  <2>. QED  BY <1>12, <2>1, <2>4, <2>5
<1>14. k \in Nat /\ k >= 1
  BY <1>6
<1>15. Len(s4) = 5 + k /\ (\A p \in 1..5 : s4[p] = s3[p]) /\ \A p \in 1..k : s4[5 + p] = w[p]
  BY <1>10, <1>13 DEF Extends
<1>16. Len(b) = 5 + k + n /\ \A p \in 1..(5 + k) : b[p] = s4[p]
  BY <1>7, <1>11, <1>15 DEF Extends
<1>. HIDE DEF k
<1>17. \A p \in 1..5 : b[p] = s3[p]
  <2>1. \A p \in 1..5 : p \in 1..(5 + k)
    BY <1>14
  <2>. QED  BY <1>15, <1>16, <2>1
<1>18. \A p \in 1..k : b[5 + p] = w[p]
  <2>. TAKE p \in 1..k
  <2>. DEFINE i == 5 + p
  <2>1. i \in 1..(5 + k)
    BY <1>14
  <2>2. s4[i] = w[p]
    BY <1>15
  <2>. HIDE DEF i
  <2>3. b[i] = w[p]
    BY <1>16, <2>1, <2>2
  <2>. QED  BY <2>3 DEF i
<1>19. /\ b[1] = v + 10 /\ b[2] = h.type /\ b[3] = h.id /\ b[4] = u[1] /\ b[5] = u[2]
  <2>1. b[1] = s3[1] /\ b[2] = s3[2] /\ b[3] = s3[3] /\ b[4] = s3[4] /\ b[5] = s3[5]
    BY <1>17
  <2>. QED  BY <1>13, <2>1
<1>20. /\ rest \in Seq(Nat) /\ Len(rest) = 4 + k + n
       /\ \A j \in 1..(4 + k + n) : rest[j] = b[2 + j - 1]
  <2>1. 2 \in Nat /\ 1 <= 2 /\ 2 <= Len(b) /\ Len(b) - 2 + 1 = 4 + k + n
    BY <1>14, <1>16
  <2>2. /\ rest \in Seq(Nat) /\ Len(rest) = Len(b) - 2 + 1
        /\ \A j \in 1..(Len(b) - 2 + 1) : rest[j] = b[2 + j - 1]
    BY <1>11, <2>1, FromIs
  <2>. HIDE DEF rest
  <2>. QED  BY <2>1, <2>2
<1>. HIDE DEF rest
<1>21. rest[1] = h.type /\ rest[2] = h.id /\ rest[3] = u[1] /\ rest[4] = u[2]
  <2>1. 1 \in 1..(4 + k + n) /\ 2 \in 1..(4 + k + n) /\ 3 \in 1..(4 + k + n) /\ 4 \in 1..(4 + k + n)
    BY <1>14
  <2>2. rest[1] = b[2 + 1 - 1] /\ rest[2] = b[2 + 2 - 1] /\ rest[3] = b[2 + 3 - 1] /\ rest[4] = b[2 + 4 - 1]
    BY <1>20, <2>1
  <2>. QED  BY <1>19, <2>2
<1>22. /\ size \in Seq(Nat) /\ Len(size) = k + n
       /\ \A j \in 1..(k + n) : size[j] = rest[5 + j - 1]
  <2>1. 5 \in Nat /\ 1 <= 5 /\ 5 <= Len(rest) /\ Len(rest) - 5 + 1 = k + n
    BY <1>14, <1>20
  <2>2. /\ size \in Seq(Nat) /\ Len(size) = Len(rest) - 5 + 1
        /\ \A j \in 1..(Len(rest) - 5 + 1) : size[j] = rest[5 + j - 1]
    BY <1>20, <2>1, FromIs
  <2>. HIDE DEF size
  <2>. QED  BY <2>1, <2>2
<1>. HIDE DEF size
<1>23. \A p \in 1..k : size[p] = w[p]
  <2>. TAKE p \in 1..k
  <2>. DEFINE i == 5 + p - 1
              j == 5 + p
  <2>1. p \in 1..(k + n) /\ i \in 1..(4 + k + n) /\ 2 + i - 1 = j
    BY <1>14
  <2>2. size[p] = rest[i]
    BY <1>22, <2>1
  <2>3. b[j] = w[p]
    BY <1>18
  <2>. HIDE DEF i, j
  <2>4. rest[i] = b[j]
    BY <1>20, <2>1
  <2>. QED  BY <2>2, <2>3, <2>4
<1>24. VarintLen(size) = k /\ ReadVarint(size) = n
  <2>1. size[1] = w[1]
    BY <1>14, <1>23
  <2>2. VarintLen(size) = k
    BY <1>6, <2>1 DEF VarintLen
  <2>3. CASE w[1] < 128
    <3>1. ReadVarint(size) = ReadVarint(w)
      BY <2>1, <2>3 DEF ReadVarint
    <3>. QED  BY <1>6, <2>2, <3>1
  <2>4. CASE ~(w[1] < 128)
    <3>1. k = 2
      BY <1>6, <2>4 DEF VarintLen
    <3>2. size[2] = w[2]
      BY <1>23, <3>1
    <3>3. ReadVarint(size) = ReadVarint(w)
      BY <2>1, <2>4, <3>2 DEF ReadVarint
    <3>. QED  BY <1>6, <2>2, <3>3
  <2>. QED  BY <2>3, <2>4
<1>25. HasVarint(size) /\ ~(Len(rest) < 5)
  <2>1. Len(size) >= 1 /\ Len(size) >= k
    BY <1>14, <1>22
  <2>2. ~(Len(rest) < 5)
    BY <1>14, <1>20
  <2>. QED  BY <1>24, <2>1, <2>2 DEF HasVarint
<1>26. /\ VarintLen(b) = 1 /\ ReadVarint(b) = v + 10 /\ HasVarint(b) /\ b[1] >= TypeMax
       /\ ProtoV(b) = v /\ v >= 2
  <2>1. b[1] < 128 /\ b[1] >= 10
    BY <1>19
  <2>2. VarintLen(b) = 1
    BY <2>1 DEF VarintLen
  <2>3. ReadVarint(b) = v + 10
    BY <1>19, <2>1 DEF ReadVarint
  <2>4. Len(b) >= 1
    BY <1>14, <1>16
  <2>5. HasVarint(b)
    BY <2>2, <2>4 DEF HasVarint
  <2>6. ProtoV(b) = v
    BY <2>3 DEF ProtoV, TypeMax
  <2>7. v >= 2 /\ TypeMax = 10
    BY DEF TypeMax
  <2>. QED  BY <2>1, <2>2, <2>3, <2>5, <2>6, <2>7
<1>27. DecodeV2(b) = Read(rest[1], rest[2], rest[3] + 256 * rest[4], 1 + 4 + k, n)
  <2>1. DecodeV2(b) =
          IF ~(HasVarint(b) /\ b[1] >= TypeMax /\ ProtoV(b) >= 2) THEN {}
          ELSE IF Len(From(b, VarintLen(b) + 1)) < 5 \/ ~HasVarint(From(From(b, VarintLen(b) + 1), 5))
               THEN {}
               ELSE Read(From(b, VarintLen(b) + 1)[1], From(b, VarintLen(b) + 1)[2],
                         From(b, VarintLen(b) + 1)[3] + 256 * From(b, VarintLen(b) + 1)[4],
                         VarintLen(b) + 4 + VarintLen(From(From(b, VarintLen(b) + 1), 5)),
                         ReadVarint(From(From(b, VarintLen(b) + 1), 5)))
    BY Zenon DEF DecodeV2
  <2>2. From(b, VarintLen(b) + 1) = rest
    BY <1>26 DEF rest
  <2>3. From(rest, 5) = size
    BY DEF size
  <2>4. DecodeV2(b) =
          IF ~(HasVarint(b) /\ b[1] >= TypeMax /\ ProtoV(b) >= 2) THEN {}
          ELSE IF Len(rest) < 5 \/ ~HasVarint(size) THEN {}
               ELSE Read(rest[1], rest[2], rest[3] + 256 * rest[4],
                         VarintLen(b) + 4 + VarintLen(size), ReadVarint(size))
    BY <2>1, <2>2, <2>3, Zenon
  <2>5. HasVarint(b) /\ b[1] >= TypeMax /\ ProtoV(b) >= 2
    BY <1>26
  <2>. QED  BY <1>24, <1>25, <1>26, <2>4, <2>5, Zenon
<1>28. DecodeV2(b) = {[header |-> h, size |-> 5 + k, payload |-> n]}
  <2>1. 1 + 4 + k = 5 + k
    BY <1>14
  <2>2. rest[3] + 256 * rest[4] = h.seq
    BY <1>5, <1>21
  <2>. QED  BY <1>2, <1>21, <1>27, <2>1, <2>2 DEF Read
<1>. QED  BY <1>1, <1>11, <1>16, <1>28 DEF k, w

LEMMA SeqOfOne ==
  ASSUME NEW x
  PROVE  SetToSeq({x}) = <<x>>
<1>. DEFINE S == {x}
            f == CHOOSE g \in [1..1 -> S] : IsInjective(g)
            g == [i \in 1..1 |-> x]
<1>1. Cardinality(S) = 1
  BY FS_Singleton
<1>2. SetToSeq(S) = f
  BY <1>1 DEF SetToSeq
<1>3. g \in [1..1 -> S] /\ IsInjective(g)
  BY DEF IsInjective
<1>4. f \in [1..1 -> S]
  <2>. HIDE DEF g, S
  <2>. QED  BY <1>3
<1>. HIDE DEF f
<1>5. f = <<x>>
  BY <1>4
<1>. QED  BY <1>2, <1>5

(* The turns of process_rxbuf's loop.                                      *)
Received(f, v, b, k) ==
    f = [i \in 0..k |-> IF i = 0 THEN [at |-> 1, expected |-> HeaderMin(v), frames |-> << >>]
                        ELSE Process(v, b, f[i - 1])]

LEMMA ReceivedIs ==
  ASSUME NEW v, NEW b, NEW m \in Nat
  PROVE  \E f : Received(f, v, b, m)
<1>. DEFINE T == {k \in 0..m : \E f : Received(f, v, b, k)}
            top == [at |-> 1, expected |-> HeaderMin(v), frames |-> << >>]
            Go(i, x) == Process(v, b, x)
<1>1. 0 \in T
  <2>. DEFINE f == [i \in 0..0 |-> top]
  <2>1. Received(f, v, b, 0)
    BY DEF Received
  <2>. QED  BY <2>1
<1>2. ASSUME NEW k \in 1..m, k - 1 \in T
      PROVE  k \in T
  <2>1. PICK g : Received(g, v, b, k - 1)
    BY <1>2
  <2>. DEFINE f == [i \in 0..k |-> IF i = k THEN Go(k, g[k - 1]) ELSE g[i]]
  <2>2. \A i \in 0..(k - 1) : g[i] = IF i = 0 THEN top ELSE Go(i, g[i - 1])
    BY <2>1 DEF Received
  <2>. HIDE DEF top, Go
  <2>3. \A i \in 0..k : f[i] = IF i = 0 THEN top ELSE Go(i, f[i - 1])
    BY <2>2
  <2>4. Received(f, v, b, k)
    <3>1. f = [i \in 0..k |-> f[i]]
      OBVIOUS
    <3>2. f = [i \in 0..k |-> IF i = 0 THEN top ELSE Go(i, f[i - 1])]
      <4>. HIDE DEF f
      <4>. QED  BY <2>3, <3>1
    <3>. HIDE DEF f
    <3>. QED  BY <3>2 DEF Received, top, Go
  <2>. QED  BY <2>4
<1>. HIDE DEF T
<1>3. m \in T
  BY <1>1, <1>2, CountUp
<1>. QED  BY <1>3 DEF T


(* A datagram that holds one frame.                                        *)
LEMMA OneFrame ==
  ASSUME NEW v \in {1, 2, 3}, NEW b \in Seq(Nat), NEW r,
         NEW size \in Nat, NEW n \in Nat, r.size = size, r.payload = n,
         Len(b) = size + n, size >= HeaderMin(v),
         (IF v = 1 THEN NetDecodeV1(b) ELSE DecodeV2(b)) = {r}
  PROVE  ProcessRxbuf(v, b) = <<r>>
<1>. DEFINE l == Len(b)
            m == l \div V2SizeMin
            t == CHOOSE f : Received(f, v, b, m)
            e == IF v = 1 THEN V1Size ELSE r.size
            last == [at |-> 1 + r.size + r.payload, expected |-> e, frames |-> <<r>>]
            T == {k \in 0..m : k = 0 \/ t[k] = last}
<1>1. HeaderMin(v) \in Nat /\ HeaderMin(v) >= 6 /\ V1Size = 7
  BY DEF HeaderMin, V1Size, V2SizeMin
<1>2. l \in Nat /\ l = size + n /\ size >= 6 /\ m \in Nat /\ m >= 1
  <2>1. l \in Nat
    BY LenProperties
  <2>2. size >= 6 /\ l = size + n
    BY <1>1
  <2>3. m = l \div 6
    BY DEF V2SizeMin
  <2>. HIDE DEF l, m
  <2>. QED  BY <2>1, <2>2, <2>3
<1>3. ProcessRxbuf(v, b) = t[m].frames
  BY DEF ProcessRxbuf, Received
<1>4. Received(t, v, b, m)
  <2>. HIDE DEF m
  <2>. QED  BY <1>2, ReceivedIs
<1>5. From(b, 1) = b
  BY SubSeqFull DEF From
<1>. HIDE DEF m
<1>6. t[0] = [at |-> 1, expected |-> HeaderMin(v), frames |-> << >>]
  <2>. HIDE DEF t
  <2>. QED  BY <1>2, <1>4 DEF Received
<1>7. \A k \in 1..m : t[k] = Process(v, b, t[k - 1])
  <2>. TAKE k \in 1..m
  <2>. DEFINE top == [at |-> 1, expected |-> HeaderMin(v), frames |-> << >>]
              Go(i) == Process(v, b, t[i - 1])
  <2>. HIDE DEF t
  <2>1. t = [i \in 0..m |-> IF i = 0 THEN top ELSE Go(i)]
    BY <1>4 DEF Received
  <2>. HIDE DEF top, Go
  <2>2. t[k] = Go(k)
    BY <1>2, <2>1
  <2>. QED  BY <2>2 DEF Go
<1>. HIDE DEF t
<1>8. Process(v, b, t[0]) = last
  <2>. DEFINE st == t[0]
              rs == IF st.at + st.expected - 1 > Len(b) THEN {}
                    ELSE {x \in (IF v = 1 THEN NetDecodeV1(From(b, st.at))
                                 ELSE DecodeV2(From(b, st.at))) :
                            st.at + x.size + x.payload - 1 <= Len(b)}
              one == CHOOSE x \in rs : TRUE
  <2>1. Process(v, b, st) =
          IF rs = {} THEN st
          ELSE [at |-> st.at + one.size + one.payload,
                expected |-> IF v = 1 THEN V1Size ELSE one.size,
                frames |-> Append(st.frames, one)]
    BY DEF Process
  <2>2. st.at = 1 /\ st.expected = HeaderMin(v) /\ st.frames = << >>
    BY <1>6
  <2>. HIDE DEF st
  <2>3. ~(st.at + st.expected - 1 > Len(b))
    BY <1>1, <1>2, <2>2
  <2>4. rs = {x \in {r} : st.at + x.size + x.payload - 1 <= Len(b)}
    BY <1>5, <2>2, <2>3
  <2>5. st.at + r.size + r.payload - 1 <= Len(b)
    BY <1>2, <2>2
  <2>6. rs = {r}
    <3>. HIDE DEF rs
    <3>. QED  BY <2>4, <2>5
  <2>. HIDE DEF rs
  <2>7. one = r
    BY <2>6
  <2>. HIDE DEF one
  <2>8. Append(st.frames, one) = <<r>>
    BY <2>2, <2>7
  <2>9. Process(v, b, st) = last
    BY <2>1, <2>2, <2>6, <2>7, <2>8
  <2>. QED  BY <2>9 DEF st
<1>9. Process(v, b, last) = last
  <2>. DEFINE rs == IF last.at + last.expected - 1 > Len(b) THEN {}
                    ELSE {x \in (IF v = 1 THEN NetDecodeV1(From(b, last.at))
                                 ELSE DecodeV2(From(b, last.at))) :
                            last.at + x.size + x.payload - 1 <= Len(b)}
              one == CHOOSE x \in rs : TRUE
  <2>1. Process(v, b, last) =
          IF rs = {} THEN last
          ELSE [at |-> last.at + one.size + one.payload,
                expected |-> IF v = 1 THEN V1Size ELSE one.size,
                frames |-> Append(last.frames, one)]
    <3>. HIDE DEF last
    <3>. QED  BY DEF Process
  <2>2. last.at = 1 + l /\ last.expected \in Nat /\ last.expected >= 1
    <3>1. last.at = 1 + l
      BY <1>2
    <3>2. last.expected = e
      OBVIOUS
    <3>3. e \in Nat /\ e >= 1
      BY <1>1, <1>2
    <3>. HIDE DEF last, e
    <3>. QED  BY <3>1, <3>2, <3>3
  <2>. HIDE DEF last
  <2>3. last.at + last.expected - 1 > Len(b)
    BY <1>2, <2>2
  <2>4. rs = {}
    BY <2>3
  <2>. HIDE DEF rs, one
  <2>. QED  BY <2>1, <2>4
<1>. HIDE DEF last
<1>10. 0 \in T
  BY <1>2
<1>11. ASSUME NEW k \in 1..m, k - 1 \in T
       PROVE  k \in T
  <2>1. t[k] = Process(v, b, t[k - 1])
    BY <1>7
  <2>2. k - 1 = 0 \/ t[k - 1] = last
    BY <1>11
  <2>3. t[k] = last
    BY <1>8, <1>9, <2>1, <2>2
  <2>. QED  BY <1>2, <2>3
<1>. HIDE DEF T
<1>12. m \in T
  <2>1. \A k \in 0..m : k \in T
    BY <1>2, <1>10, <1>11, CountUp
  <2>. QED  BY <1>2, <2>1
<1>13. t[m] = last
  BY <1>2, <1>12 DEF T
<1>. QED  BY <1>3, <1>13 DEF last

(* Both ends of a connection have one version: a frame is read as it was sent. *)
LEMMA FrameRead ==
  ASSUME NEW v \in {1, 2, 3}, NEW h \in Headers, NEW n \in Lens
  PROVE  LET sent == Encoded(v, h, n)
             frames == {[header |-> Given(v, h), size |-> Len(sent) - n, payload |-> n]}
         IN  /\ MuxRxData(v, sent) = frames
             /\ ProcessRxbuf(v, sent) = SetToSeq(frames)
<1>. DEFINE b == Encoded(v, h, n)
            size == IF v = 1 THEN V1Size ELSE 5 + Len(Varint(n))
            r == [header |-> Given(v, h), size |-> size, payload |-> n]
<1>1. n \in Nat /\ n <= VarintMax
  <2>1. VarintMax \in Nat /\ n \in 0..VarintMax
    BY FramesAssumption DEF VarintMax
  <2>. QED  BY <2>1
<1>2. size \in Nat /\ size >= HeaderMin(v)
  <2>1. Len(Varint(n)) \in {1, 2}
    BY <1>1, VarintIs
  <2>. QED  BY <2>1 DEF HeaderMin, V1Size, V2SizeMin
<1>3. /\ b \in Seq(Nat) /\ Len(b) = size + n
      /\ (IF v = 1 THEN NetDecodeV1(b) ELSE DecodeV2(b)) = {r}
      /\ (IF v = 1 THEN DecodeV1(b) ELSE DecodeV2(b)) = {r}
  <2>1. CASE v = 1
    <3>. DEFINE c == Encoded(1, h, n)
    <3>1. /\ c \in Seq(Nat) /\ Len(c) = V1Size + n /\ c[1] < TypeMax
          /\ DecodeV1(c) = {[header |-> Given(1, h), size |-> V1Size, payload |-> n]}
      BY <1>1, SentV1
    <3>2. b = c /\ size = V1Size /\ r = [header |-> Given(1, h), size |-> V1Size, payload |-> n]
      BY <2>1
    <3>3. DecodeV1(b) = {r} /\ b[1] < TypeMax /\ b \in Seq(Nat) /\ Len(b) = size + n
      BY <3>1, <3>2, Zenon
    <3>. HIDE DEF b, r, size
    <3>4. b[1] \in Nat
      <4>1. 1 \in 1..Len(b)
        BY <1>1, <1>2, <2>1, <3>3 DEF size, V1Size
      <4>. QED  BY <3>3, <4>1, ElementOfSeq
    <3>5. NetDecodeV1(b) = {r}
      <4>1. ~(b[1] >= TypeMax)
        BY <3>3, <3>4 DEF TypeMax
      <4>. QED  BY <3>3, <4>1 DEF NetDecodeV1
    <3>. QED  BY <2>1, <3>3, <3>5
  <2>2. CASE v # 1
    <3>1. v \in {2, 3}
      BY <2>2
    <3>2. /\ b \in Seq(Nat) /\ Len(b) = 5 + Len(Varint(n)) + n
          /\ DecodeV2(b) = {[header |-> h, size |-> 5 + Len(Varint(n)), payload |-> n]}
      BY <1>1, <3>1, SentV2
    <3>3. size = 5 + Len(Varint(n)) /\ Given(v, h) = h
      BY <2>2 DEF Given
    <3>. HIDE DEF b, size
    <3>. QED  BY <2>2, <3>2, <3>3
  <2>. QED  BY <2>1, <2>2
<1>4. r.size = size /\ r.payload = n
  OBVIOUS
<1>5. r = [header |-> Given(v, h), size |-> Len(b) - n, payload |-> n]
  <2>1. Len(b) - n = size
    <3>. HIDE DEF b, size
    <3>. QED  BY <1>1, <1>2, <1>3
  <2>. HIDE DEF b, size
  <2>. QED  BY <2>1
<1>. HIDE DEF b, r, size
<1>6. MuxRxData(v, b) = {r}
  <2>1. ~(Len(b) < HeaderMin(v))
    <3>1. HeaderMin(v) \in Nat
      BY DEF HeaderMin, V1Size, V2SizeMin
    <3>. QED  BY <1>1, <1>2, <1>3, <3>1
  <2>2. r.size + r.payload <= Len(b)
    BY <1>1, <1>2, <1>3, <1>4
  <2>3. MuxRxData(v, b) = {x \in {r} : x.size + x.payload <= Len(b)}
    BY <1>3, <2>1 DEF MuxRxData
  <2>. QED  BY <2>2, <2>3
<1>7. ProcessRxbuf(v, b) = <<r>>
  BY <1>1, <1>2, <1>3, <1>4, OneFrame
<1>8. SetToSeq({r}) = <<r>>
  BY SeqOfOne
<1>9. MuxRxData(v, b) = {r} /\ ProcessRxbuf(v, b) = SetToSeq({r})
  BY <1>6, <1>7, <1>8
<1>. QED  BY <1>5, <1>9 DEF b

\* At whatever version the two ends took, each reads the frames of the other as
\* they were sent (transport_mux_rx_data and process_rxbuf), and their commands.
THEOREM FramesAreUnderstood == Spec => []FramesUnderstood
<1>1. ASSUME TypeOK, ConnectedAccepted, ctl.state = "connected"
      PROVE  ctl.v \in {1, 2, 3} /\ peer[ctl.by].v = ctl.v
  <2>1. ctl.v \in {1, 2, 3}
    BY <1>1, TypeParts DEF CtlSet, Versions
  <2>. QED  BY <1>1, <2>1 DEF ConnectedAccepted
<1>2. TypeOK /\ ConnectedAccepted => FramesUnderstood
  <2>. SUFFICES ASSUME TypeOK, ConnectedAccepted, ctl.state = "connected"
                PROVE  /\ CommandsUnderstood
                       /\ \A h \in Headers, n \in Lens :
                            LET sent == Encoded(ctl.v, h, n)
                                frames == {[header |-> Given(ctl.v, h),
                                            size |-> Len(sent) - n, payload |-> n]}
                            IN  /\ MuxRxData(peer[ctl.by].v, sent) = frames
                                /\ ProcessRxbuf(peer[ctl.by].v, sent) = SetToSeq(frames)
    BY Zenon DEF FramesUnderstood
  <2>1. ctl.v \in {1, 2, 3} /\ peer[ctl.by].v = ctl.v
    BY <1>1
  <2>2. ASSUME NEW h \in Headers, NEW n \in Lens
        PROVE  LET sent == Encoded(ctl.v, h, n)
                   frames == {[header |-> Given(ctl.v, h),
                               size |-> Len(sent) - n, payload |-> n]}
               IN  /\ MuxRxData(peer[ctl.by].v, sent) = frames
                   /\ ProcessRxbuf(peer[ctl.by].v, sent) = SetToSeq(frames)
    <3>1. ctl.v \in {1, 2, 3}
      BY <2>1
    <3>2. LET sent == Encoded(ctl.v, h, n)
              frames == {[header |-> Given(ctl.v, h),
                          size |-> Len(sent) - n, payload |-> n]}
          IN  /\ MuxRxData(ctl.v, sent) = frames
              /\ ProcessRxbuf(ctl.v, sent) = SetToSeq(frames)
      BY <3>1, FrameRead
    <3>3. peer[ctl.by].v = ctl.v
      BY <2>1
    <3>. QED  BY <3>2, <3>3, Zenon
  <2>. QED  BY CommandsRead, <2>2, Zenon
<1>3. TypeOK /\ NumberInv /\ Accepted => FramesUnderstood
  BY <1>2 DEF Accepted
<1>. QED  BY <1>3, SpecTypes, ConnectedWereAccepted, PTL
=============================================================================
