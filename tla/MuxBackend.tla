----------------------------- MODULE MuxBackend -----------------------------
(***************************************************************************)
(* A connection over the multiplexer: the controller's backend             *)
(* (libarsdkctrl/src/mux/arsdkctrl_backend_mux.c), the device's            *)
(* (libarsdk/src/mux/arsdk_backend_mux.c), its peers and their manager     *)
(* (arsdk_peer.c, arsdk_mngr.c) and the channel of the two transports      *)
(* (arsdk_transport_mux.c).  libmux is external: it delivers in order,     *)
(* loses what is in flight at a reset and opens a channel only once.       *)
(***************************************************************************)
EXTENDS Frame, FiniteSets

CONSTANTS
    MaxStarts,     \* bound: connections the controller starts
    MaxTurns,      \* bound: the moves of the applications and of the channel
    CtrlRanges,    \* protocol versions a controller may support, <<min, max>>
    DevRange       \* those the device supports

Peers == 1..MaxStarts     \* one for each request that the device takes
None == 0
Versions == 1..3
Events == {"connecting", "connected", "disconnected", "canceled",
           "added", "conn_req", "removed"}

ASSUME RangesAssumption ==
    /\ MaxStarts \in Nat \ {0} /\ MaxTurns \in Nat
    /\ CtrlRanges # {}
    /\ \A r \in CtrlRanges \cup {DevRange} :
         /\ r \in Versions \X Versions
         /\ r[1] <= r[2]

VARIABLES
    ctl,     \* the controller: its connection, its transport and what it is told
    dev,     \* the device's backend: listening, listen.conn, owner of the channel
    peer,    \* the device's connections, by number
    req,     \* requests in flight
    resp,    \* responses in flight
    starts,
    turns

vars == <<ctl, dev, peer, req, resp, starts, turns>>

MaxOf(a, b) == IF a > b THEN a ELSE b
MinOf(a, b) == IF a < b THEN a ELSE b

\* asked: ghost, the connection whose request it is.
Absent == [state |-> "none", half |-> FALSE, started |-> FALSE, v |-> 1,
           link |-> "KO", asked |-> 0, log |-> << >>]

\* by, first: ghosts, the peer that accepted and the controller's first connection.
FreshCtl(range, first) ==
    [state |-> "idle", range |-> range, v |-> 1, chan |-> FALSE, link |-> "KO",
     by |-> None, first |-> first, log |-> << >>]

Init ==
    /\ \E r \in CtrlRanges : ctl = FreshCtl(r, 1)
    /\ dev = [on |-> FALSE, pending |-> None, chan |-> None]
    /\ peer = [p \in Peers |-> Absent]
    /\ req = << >> /\ resp = << >>
    /\ starts = 0 /\ turns = 0

Turn == turns < MaxTurns /\ turns' = turns + 1

Told(log, events) == log \o events

-----------------------------------------------------------------------------
\* The controller.

\* arsdkctrl_backend_mux_start_device_conn; a device has one connection.
Connect ==
    /\ ctl.state = "idle" /\ starts < MaxStarts
    /\ ctl' = [FreshCtl(ctl.range, ctl.first) EXCEPT !.state = "pending",
                 !.log = <<"connecting">>]
    /\ req' = Append(req, [range |-> ctl.range, asked |-> starts + 1])
    /\ starts' = starts + 1
    /\ UNCHANGED <<dev, peer, resp, turns>>

\* Mutant: the transport is not stopped.
DisconnectOpen ==
    /\ ctl.state # "idle" /\ Turn
    /\ ctl' = [ctl EXCEPT !.state = "idle", !.by = None,
                 !.log = Told(@, IF ctl.state = "connected" THEN <<"disconnected">>
                                 ELSE <<"canceled">>)]
    /\ UNCHANGED <<dev, peer, req, resp, starts>>

\* arsdkctrl_backend_mux_stop_device_conn: the device is told nothing, its
\* transport finds the channel closed.
Disconnect ==
    /\ ctl.state # "idle" /\ Turn
    /\ ctl' = [ctl EXCEPT !.state = "idle", !.chan = FALSE, !.link = "KO",
                 !.by = None,
                 !.log = Told(@, IF ctl.state = "connected" THEN <<"disconnected">>
                                 ELSE <<"canceled">>)]
    /\ UNCHANGED <<dev, peer, req, resp, starts>>

\* Mutant: client.conn is kept once connected.
AwaitedAny == ctl.state \in {"pending", "connected"}

\* A response is read only while a connection waits for one.
Awaited == ctl.state = "pending"

\* backend_mux_rx_conn_resp.  The json of a refusal is empty and fails to parse
\* before its status is seen: it is told as a local error.  The version is not
\* checked: the condition asks for one below the minimum and above the maximum.
RxConnResp ==
    /\ resp # << >>
    /\ resp' = Tail(resp)
    /\ LET m == Head(resp)
       IN  ctl' =
             IF ~Awaited THEN ctl
             ELSE IF ~m.json
             THEN [ctl EXCEPT !.state = "idle", !.log = Told(@, <<"canceled">>)]
             ELSE [ctl EXCEPT !.state = "connected", !.v = m.v, !.by = m.by,
                     !.chan = TRUE, !.link = "OK", !.log = Told(@, <<"connected">>)]
    /\ UNCHANGED <<dev, peer, req, starts, turns>>

-----------------------------------------------------------------------------
\* The device.

\* arsdk_backend_mux_start_listen.
StartListen ==
    /\ ~dev.on /\ Turn
    /\ dev' = [dev EXCEPT !.on = TRUE]
    /\ UNCHANGED <<ctl, peer, req, resp, starts>>

\* arsdk_backend_mux_stop_listen: the pending connection stays.
StopListen ==
    /\ dev.on /\ Turn
    /\ dev' = [dev EXCEPT !.on = FALSE]
    /\ UNCHANGED <<ctl, peer, req, resp, starts>>

\* Mutant: the greatest version of the controller.
ChosenMax(r) == r[2]

\* The version a connection takes, of the two ranges; none in common: empty.
Common(r) == MaxOf(r[1], DevRange[1])..MinOf(r[2], DevRange[2])
Chosen(r) == MinOf(r[2], DevRange[2])

\* Mutant: a number is skipped.
NextPeerSkipped == Cardinality({p \in Peers : peer[p].state # "none"}) + 2

\* The number of the next connection.
NextPeer == Cardinality({p \in Peers : peer[p].state # "none"}) + 1

\* backend_mux_rx_conn_req.  A request of no common version leaves listen.conn
\* set to a connection without a peer: nothing can end it.
RxConnReq ==
    /\ req # << >>
    /\ req' = Tail(req)
    /\ LET r == Head(req).range
           p == NextPeer
       IN  IF ~dev.on \/ dev.pending # None THEN UNCHANGED <<dev, peer>>
           ELSE /\ dev' = [dev EXCEPT !.pending = p]
                /\ peer' = [peer EXCEPT ![p] =
                     IF Common(r) = {} THEN [Absent EXCEPT !.state = "deaf"]
                     ELSE [Absent EXCEPT !.state = "pending", !.v = Chosen(r),
                             !.asked = Head(req).asked,
                             !.log = <<"added", "conn_req">>]]
    /\ UNCHANGED <<ctl, resp, starts, turns>>

IsPending(p) == dev.pending = p /\ peer[p].state = "pending"

\* arsdk_peer_accept, backend_mux_accept_peer_conn and, from its callback,
\* arsdk_transport_start: only one transport has the channel.
Accept(p) ==
    /\ IsPending(p)
    /\ resp' = Append(resp, [json |-> TRUE, v |-> peer[p].v, by |-> p])
    /\ dev' = [dev EXCEPT !.pending = None, !.chan = IF @ = None THEN p ELSE @]
    /\ peer' = [peer EXCEPT ![p].state = "connected", ![p].half = FALSE,
                  ![p].started = (dev.chan = None), ![p].link = "OK",
                  ![p].log = Told(@, <<"connected">>)]
    /\ UNCHANGED <<ctl, req, starts, turns>>

\* Mutant: the failure comes after the response.
AcceptFailsSent(p) ==
    /\ IsPending(p) /\ ~peer[p].half /\ Turn
    /\ peer' = [peer EXCEPT ![p].half = TRUE]
    /\ resp' = Append(resp, [json |-> TRUE, v |-> peer[p].v, by |-> p])
    /\ UNCHANGED <<ctl, dev, req, starts>>

\* The same when the response cannot be made or sent (a json that does not
\* parse, no memory): its transport stays, the connection is pending again.
AcceptFails(p) ==
    /\ IsPending(p) /\ ~peer[p].half /\ Turn
    /\ peer' = [peer EXCEPT ![p].half = TRUE]
    /\ UNCHANGED <<ctl, dev, req, resp, starts>>

Refusal(p) == [json |-> FALSE, v |-> 1, by |-> p]
Removed(pr) == [pr EXCEPT !.state = "gone", !.half = FALSE, !.started = FALSE,
                  !.link = "KO", !.log = Told(@, <<"removed">>)]

\* Mutant: the controller is not answered.
RejectSilently(p) ==
    /\ IsPending(p)
    /\ dev' = [dev EXCEPT !.pending = None]
    /\ peer' = [peer EXCEPT ![p] = Removed(@)]
    /\ UNCHANGED <<ctl, req, resp, starts, turns>>

\* arsdk_peer_reject, backend_mux_reject_peer_conn: no callback but the
\* manager's.
Reject(p) ==
    /\ IsPending(p)
    /\ resp' = Append(resp, Refusal(p))
    /\ dev' = [dev EXCEPT !.pending = None]
    /\ peer' = [peer EXCEPT ![p] = Removed(@)]
    /\ UNCHANGED <<ctl, req, starts, turns>>

\* A connected peer after arsdk_peer_disconnect.
Ended(pr) == Removed([pr EXCEPT !.log = Told(@, <<"disconnected">>)])

\* arsdk_transport_mux_stop: one that was started closes the channel, even if
\* it lost it to a reset and it is another's since.
Closed(owner, ps) == IF \E p \in ps : peer[p].started THEN None ELSE owner

\* arsdk_peer_disconnect, backend_mux_stop_peer_conn of a connected peer (that
\* of a pending one is Reject).
PeerDisconnect(p) ==
    /\ peer[p].state = "connected" /\ Turn
    /\ peer' = [peer EXCEPT ![p] = Ended(@)]
    /\ dev' = [dev EXCEPT !.chan = Closed(@, {p})]
    /\ UNCHANGED <<ctl, req, resp, starts>>

Connected == {p \in Peers : peer[p].state = "connected"}

\* Mutant: the manager destroys its peers without disconnecting them.
PeersDestroyedSilently ==
    [p \in Peers |-> IF peer[p].state \in {"connected", "pending"}
                     THEN Removed(peer[p]) ELSE peer[p]]

\* arsdk_mngr_destroy_peer of every peer of the backend.
PeersDestroyed ==
    [p \in Peers |-> CASE peer[p].state = "connected" -> Ended(peer[p])
                       [] peer[p].state = "pending" -> Removed(peer[p])
                       [] OTHER -> peer[p]]

\* arsdk_backend_mux_destroy (arsdk_mngr_unregister_backend) and a new one:
\* requests may come while the channel is closed.
BackendRenew ==
    /\ Turn
    /\ peer' = PeersDestroyed
    /\ dev' = [on |-> FALSE, pending |-> None, chan |-> Closed(dev.chan, Connected)]
    /\ resp' = IF \E p \in Peers : IsPending(p)
               THEN Append(resp, Refusal(dev.pending)) ELSE resp
    /\ req' \in {req, << >>}
    /\ UNCHANGED <<ctl, starts>>

-----------------------------------------------------------------------------
\* The channel.

\* Mutant: the status is left.
LinkResetForgotten(status) == status

\* The transports' status after a reset (transport_mux_channel_cb).
LinkReset(status) == "KO"

\* mux_reset: the backends open their channel again, the transports do not;
\* connections are told nothing.
ResetOf(c) ==
    /\ req' = << >> /\ resp' = << >>
    /\ ctl' = c
    /\ dev' = [dev EXCEPT !.chan = None]
    /\ peer' = [p \in Peers |-> IF p # dev.chan THEN peer[p]
                              ELSE [peer[p] EXCEPT !.link = LinkReset(@)]]
    /\ UNCHANGED starts

Reset ==
    /\ Turn
    /\ ResetOf([ctl EXCEPT !.chan = FALSE,
                  !.link = IF ctl.chan THEN LinkReset(@) ELSE @])

\* The controller crashes; the next one may support other versions.
CtrlRestart ==
    /\ Turn
    /\ \E r \in CtrlRanges : ResetOf(FreshCtl(r, starts + 1))

-----------------------------------------------------------------------------
\* The link, as the pings of the transports find it (LinkMonitor).

PingHeader == [type |-> 2, id |-> 0, seq |-> 0]
PingSize == 16

\* A ping of each is read by the other.
Heard(p) ==
    /\ ctl.chan /\ dev.chan = p
    /\ MuxRxData(peer[p].v, Encoded(ctl.v, PingHeader, PingSize)) # {}
    /\ MuxRxData(ctl.v, Encoded(peer[p].v, PingHeader, PingSize)) # {}

HeardAtAll == \E p \in Peers : Heard(p)

CtrlLink(status, heard) ==
    /\ ctl.chan /\ ctl.link # status /\ HeardAtAll = heard
    /\ ctl' = [ctl EXCEPT !.link = status]
    /\ UNCHANGED <<dev, peer, req, resp, starts, turns>>

PeerLink(p, status, heard) ==
    /\ peer[p].started /\ peer[p].link # status /\ Heard(p) = heard
    /\ peer' = [peer EXCEPT ![p].link = status]
    /\ UNCHANGED <<ctl, dev, req, resp, starts, turns>>

CtrlLinkLost == CtrlLink("KO", FALSE)
CtrlLinkBack == CtrlLink("OK", TRUE)
PeerLinkLost(p) == PeerLink(p, "KO", FALSE)
PeerLinkBack(p) == PeerLink(p, "OK", TRUE)

Decide == \E p \in Peers : Accept(p) \/ Reject(p)

Next ==
    \/ Connect \/ Disconnect \/ RxConnResp
    \/ StartListen \/ StopListen \/ RxConnReq \/ Decide
    \/ \E p \in Peers : AcceptFails(p) \/ PeerDisconnect(p)
    \/ BackendRenew \/ Reset \/ CtrlRestart
    \/ CtrlLinkLost \/ CtrlLinkBack
    \/ \E p \in Peers : PeerLinkLost(p) \/ PeerLinkBack(p)

\* What comes is read, the application answers a request, pings go on.
Fairness ==
    /\ WF_vars(RxConnReq) /\ WF_vars(RxConnResp) /\ WF_vars(Decide)
    /\ WF_vars(CtrlLinkLost) /\ WF_vars(\E p \in Peers : PeerLinkLost(p))

Spec == Init /\ [][Next]_vars /\ Fairness
=============================================================================
