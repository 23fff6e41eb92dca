----------------------------- MODULE Connection -----------------------------
(***************************************************************************)
(* How a controller connects to a device over the network: the device's    *)
(* listening backend and its peers (libarsdk/src/net/arsdk_backend_net.c,  *)
(* arsdk_peer.c), several controllers (libarsdkctrl/src/net/               *)
(* arsdkctrl_backend_net.c, arsdk_device.c) and the TCP connections over   *)
(* which each sends a request and gets an answer.                          *)
(*                                                                         *)
(* A TCP connection is a slot <<c, i>> of its controller, the first one    *)
(* that both ends have forgotten and that has no peer.  Each end learns    *)
(* that it was closed in a step of its own.  A request or an answer that   *)
(* TCP delivers in pieces is not understood: nothing joins them.  The      *)
(* callbacks of the applications do not call back into the library.        *)
(***************************************************************************)
EXTENDS Naturals, Sequences, SequencesExt, FiniteSetsExt

CONSTANTS
    Ctrls,        \* the controllers
    Versions,     \* Versions[c]: the protocol versions c supports, from min to max
    DevVersions,  \* those of the device
    MaxConn,      \* bound: TCP connections of each controller at the same time
    MaxAttempts   \* bound: calls of arsdk_device_connect by each

VersionRange == [min : Nat, max : Nat]
ASSUME VersionAssumption ==
    Versions \in [Ctrls -> VersionRange] /\ DevVersions \in VersionRange
ASSUME BoundsAssumption == MaxConn \in [Ctrls -> Nat] /\ MaxAttempts \in [Ctrls -> Nat]

Slots == UNION {{c} \X (1..MaxConn[c]) : c \in Ctrls}
Nobody == <<>>         \* no connection
Owner(k) == k[1]

VARIABLES
    ctrl,      \* ctrl[c]: controller c's arsdk_device and its arsdk_device_conn
    listen,    \* the device's backend: is it listening, and its pending request
    peer,      \* peer[k]: the device's arsdk_peer_conn and arsdk_peer
    tcp        \* tcp[k]: the TCP connection

vars == <<ctrl, listen, peer, tcp>>

Ends == {"client", "server"}
Answer == [accepted : BOOLEAN, v : Nat]
Controller ==
    [state : {"NONE", "CONNECTING_JSON", "JSON_SENT", "CONNECTED"}, v : Nat,
     conn : Slots \cup {Nobody},
     log : Seq({"connecting", "connected", "disconnected", "canceled"})]
Peer ==
    [state : {"NONE", "PENDING", "REQUESTED", "CONNECTED"}, v : Nat,
     log : Seq({"added", "connected", "disconnected", "removed"})]
Tcp ==
    [ends : SUBSET Ends,       \* those not told of the disconnection yet
     closedBy : SUBSET Ends,   \* those that disconnected
     opened : BOOLEAN,         \* the server was told of the connection
     request : BOOLEAN, answer : SUBSET Answer]

TypeOK ==
    /\ ctrl \in [Ctrls -> Controller]
    /\ listen \in [on : BOOLEAN, conn : Slots \cup {Nobody}]
    /\ peer \in [Slots -> Peer]
    /\ tcp \in [Slots -> Tcp]

NoTcp == [ends |-> {}, closedBy |-> {}, opened |-> FALSE, request |-> FALSE, answer |-> {}]
NoPeer == [state |-> "NONE", v |-> 0, log |-> <<>>]
NoConn == [state |-> "NONE", v |-> 0, conn |-> Nobody, log |-> <<>>]

Init ==
    /\ ctrl = [c \in Ctrls |-> NoConn]
    /\ listen = [on |-> FALSE, conn |-> Nobody]
    /\ peer = [k \in Slots |-> NoPeer]
    /\ tcp = [k \in Slots |-> NoTcp]

Told(x, events) == [x EXCEPT !.log = @ \o events]
Free(k) == tcp[k].ends = {} /\ peer[k].state = "NONE"
FirstFree(k) == Free(k) /\ \A i \in 1..(k[2] - 1) : ~Free(<<Owner(k), i>>)

(* What an end of connection k does to it.                                 *)
Close(k, end) == [tcp EXCEPT ![k].closedBy = @ \cup {end}]
(* The end has left connection x; nothing is kept when both have.          *)
Left(x, end) ==
    IF x.ends \subseteq {end} THEN NoTcp
    ELSE [x EXCEPT !.ends = @ \ {end}, !.closedBy = @ \cup {end},
                   !.opened = @ /\ end # "server", !.request = @ /\ end # "server",
                   !.answer = {a \in @ : end # "client"}]
CanRead(k, end) == end \in tcp[k].ends /\ end \notin tcp[k].closedBy

-----------------------------------------------------------------------------
(* The device *)

(* peer_conn_destroy: arsdk_peer_cancel calls nobody back; the manager     *)
(* tells that the peer is removed, if it was ever added.                   *)
Destroyed(p) ==
    IF p.state \in {"REQUESTED", "CONNECTED"}
    THEN [Told(p, <<"removed">>) EXCEPT !.state = "NONE"]
    ELSE [p EXCEPT !.state = "NONE"]

StartListen ==
    /\ ~listen.on
    /\ listen' = [listen EXCEPT !.on = TRUE]
    /\ UNCHANGED <<ctrl, peer, tcp>>

StopListen ==
    /\ listen.on
    /\ listen' = [on |-> FALSE, conn |-> Nobody]
    /\ peer' = [k \in Slots |-> IF k = listen.conn THEN Destroyed(peer[k]) ELSE peer[k]]
    /\ tcp' = [k \in Slots |->
                 IF "server" \in tcp[k].ends THEN Left(tcp[k], "server") ELSE tcp[k]]
    /\ UNCHANGED ctrl

(* Mutant: the request that was pending keeps its connection and its peer. *)
ReplacedKept(k) == peer

(* The pending request gives way to that of connection k.                  *)
Replaced(k) ==
    [j \in Slots |-> IF j = listen.conn THEN Destroyed(peer[j]) ELSE peer[j]]

(* backend_net_event_cb: POMP_EVENT_CONNECTED                              *)
ServerConnected(k) ==
    /\ listen.on
    /\ "server" \in tcp[k].ends /\ ~tcp[k].opened
    /\ peer' = [Replaced(k) EXCEPT ![k].state = "PENDING"]
    /\ tcp' = [j \in Slots |->
                 CASE j = k -> [tcp[j] EXCEPT !.opened = TRUE]
                   [] j = listen.conn /\ j # k -> [tcp[j] EXCEPT !.closedBy = @ \cup {"server"}]
                   [] OTHER -> tcp[j]]
    /\ listen' = [listen EXCEPT !.conn = k]
    /\ UNCHANGED ctrl

(* Mutant: any disconnection clears the pending request.                   *)
ClearsPendingAny(k) == listen.conn # Nobody

ClearsPending(k) == listen.conn = k

(* POMP_EVENT_DISCONNECTED                                                 *)
ServerDisconnected(k) ==
    /\ "server" \in tcp[k].ends
    /\ tcp[k].closedBy # {}
    /\ tcp' = [tcp EXCEPT ![k] = Left(@, "server")]
    /\ IF ClearsPending(k)
       THEN /\ peer' = [peer EXCEPT ![listen.conn] = Destroyed(@)]
            /\ listen' = [listen EXCEPT !.conn = Nobody]
       ELSE UNCHANGED <<peer, listen>>
    /\ UNCHANGED ctrl

Least(a, b) == IF a < b THEN a ELSE b
Most(a, b) == IF a < b THEN b ELSE a

(* Mutant: the greatest version either knows.                              *)
AgreedGreatest(c) ==
    {v \in {Most(Versions[c].max, DevVersions.max)} :
        Most(Versions[c].min, DevVersions.min) <= v}

(* The version chosen for controller c, if there is one.                   *)
Agreed(c) ==
    {v \in {Least(Versions[c].max, DevVersions.max)} :
        Most(Versions[c].min, DevVersions.min) <= v}

(* backend_net_raw_cb: a request without a version in common, or that came *)
(* in pieces, gets no answer at all.                                       *)
ServerRaw(k, whole) ==
    /\ CanRead(k, "server")
    /\ tcp[k].opened /\ tcp[k].request
    /\ tcp' = [tcp EXCEPT ![k].request = FALSE]
    /\ peer' = IF /\ whole /\ Agreed(Owner(k)) # {}
                  /\ listen.conn = k /\ peer[k].state = "PENDING"
               THEN [peer EXCEPT ![k] = [state |-> "REQUESTED", log |-> <<"added">>,
                                         v |-> CHOOSE v \in Agreed(Owner(k)) : TRUE]]
               ELSE peer
    /\ UNCHANGED <<ctrl, listen>>

Requested(k) == listen.conn = k /\ peer[k].state = "REQUESTED"

(* Mutant: the request is still pending once accepted.                     *)
AcceptedStillPending == listen

NoLongerPending == [listen EXCEPT !.conn = Nobody]

(* arsdk_peer_accept.  When the answer cannot be sent nothing changes.     *)
Accept(k) ==
    /\ Requested(k)
    /\ tcp' = [tcp EXCEPT ![k].answer = {[accepted |-> TRUE, v |-> peer[k].v]}]
    /\ peer' = [peer EXCEPT ![k] = [Told(@, <<"connected">>) EXCEPT !.state = "CONNECTED"]]
    /\ listen' = NoLongerPending
    /\ UNCHANGED ctrl

(* arsdk_peer_reject, or arsdk_peer_disconnect of a pending request.       *)
Reject(k) ==
    /\ Requested(k)
    /\ tcp' = [tcp EXCEPT ![k].answer = {[accepted |-> FALSE, v |-> 0]}]
    /\ peer' = [peer EXCEPT ![k] = Destroyed(@)]
    /\ listen' = NoLongerPending
    /\ UNCHANGED ctrl

(* arsdk_peer_disconnect                                                   *)
PeerDisconnect(k) ==
    /\ peer[k].state = "CONNECTED"
    /\ listen.conn # k
    /\ peer' = [peer EXCEPT ![k] = Destroyed(Told(@, <<"disconnected">>))]
    /\ UNCHANGED <<ctrl, listen, tcp>>

-----------------------------------------------------------------------------
(* A controller *)

Attempts(c) == Len(SelectSeq(ctrl[c].log, LAMBDA e : e = "connecting"))

(* arsdk_device_connect                                                    *)
Connect(c) ==
    /\ ctrl[c].state = "NONE"
    /\ Attempts(c) < MaxAttempts[c]
    /\ ctrl' = [ctrl EXCEPT ![c] = [Told(@, <<"connecting">>) EXCEPT
                                        !.state = "CONNECTING_JSON"]]
    /\ UNCHANGED <<listen, peer, tcp>>

(* device_conn_event_cb: POMP_EVENT_CONNECTED; the request may not be sent *)
ClientConnected(k, sent) ==
    LET c == Owner(k)
    IN  /\ listen.on
        /\ ctrl[c].state = "CONNECTING_JSON" /\ ctrl[c].conn = Nobody
        /\ FirstFree(k)
        /\ tcp' = [tcp EXCEPT ![k] =
                     [NoTcp EXCEPT !.ends = Ends, !.request = sent,
                                   !.closedBy = IF sent THEN {} ELSE {"client"}]]
        /\ peer' = [peer EXCEPT ![k] = NoPeer]
        /\ ctrl' = [ctrl EXCEPT ![c] =
                      [@ EXCEPT !.conn = k,
                                !.state = IF sent THEN "JSON_SENT" ELSE "CONNECTING_JSON"]]
        /\ UNCHANGED listen

(* Mutant: a disconnected request waits for its answer.                    *)
RetriedNever(state) == state

(* Unless the answer was received, the context connects again.             *)
Retried(state) == IF state = "JSON_SENT" THEN "CONNECTING_JSON" ELSE state

(* POMP_EVENT_DISCONNECTED                                                 *)
ClientDisconnected(k) ==
    LET c == Owner(k)
    IN  /\ "client" \in tcp[k].ends
        /\ tcp[k].closedBy # {}
        /\ tcp' = [tcp EXCEPT ![k] = Left(@, "client")]
        /\ ctrl' = IF ctrl[c].conn = k
                   THEN [ctrl EXCEPT ![c] =
                           [@ EXCEPT !.conn = Nobody, !.state = Retried(ctrl[c].state)]]
                   ELSE ctrl
        /\ UNCHANGED <<listen, peer>>

(* "Check the protocol version"                                            *)
BadVersion(c, v) == v < Versions[c].min /\ v > Versions[c].max

(* Mutant: the status of the answer is not looked at.                      *)
RefusedNever(c, a) == BadVersion(c, a.v)

Refused(c, a) == ~a.accepted \/ BadVersion(c, a.v)

(* device_conn_raw_cb: an answer in pieces starts the connection again.    *)
ClientRaw(k, whole) ==
    LET c == Owner(k)
    IN  /\ CanRead(k, "client")
        /\ \E a \in tcp[k].answer :
             ctrl' = [ctrl EXCEPT ![c] =
               CASE whole /\ Refused(c, a) ->
                      [Told(@, <<"canceled">>) EXCEPT !.state = "NONE", !.conn = Nobody]
                 [] whole /\ ~Refused(c, a) ->
                      [Told(@, <<"connected">>) EXCEPT !.state = "CONNECTED", !.v = a.v]
                 [] OTHER -> [@ EXCEPT !.state = "CONNECTING_JSON"]]
        /\ tcp' = [Close(k, "client") EXCEPT ![k].answer = {}]
        /\ UNCHANGED <<listen, peer>>

(* Mutants: the callback without the test of the state; the reason of the  *)
(* end in place of the callback.                                           *)
EndingCanceled(c) == <<"canceled">>
EndingReason(c) == <<"local">>

Ending(c) == IF ctrl[c].state = "CONNECTED" THEN <<"disconnected">> ELSE <<"canceled">>

(* arsdk_device_disconnect                                                 *)
Disconnect(c) ==
    /\ ctrl[c].state # "NONE"
    /\ ctrl' = [ctrl EXCEPT ![c] = [Told(@, Ending(c)) EXCEPT
                                        !.state = "NONE", !.conn = Nobody]]
    /\ tcp' = [k \in Slots |->
                 IF k = ctrl[c].conn THEN Left(tcp[k], "client") ELSE tcp[k]]
    /\ UNCHANGED <<listen, peer>>

(* The network breaks a connection; what it carried is lost.               *)
Break(k) ==
    /\ tcp[k].ends # {} /\ tcp[k].closedBy # Ends
    /\ tcp' = [tcp EXCEPT ![k] = [@ EXCEPT !.closedBy = Ends, !.request = FALSE,
                                           !.answer = {}]]
    /\ UNCHANGED <<ctrl, listen, peer>>

-----------------------------------------------------------------------------
Next ==
    \/ StartListen \/ StopListen
    \/ \E k \in Slots :
        \/ ServerConnected(k) \/ ServerDisconnected(k)
        \/ Accept(k) \/ Reject(k) \/ PeerDisconnect(k)
        \/ \E ok \in BOOLEAN : ServerRaw(k, ok) \/ ClientConnected(k, ok) \/ ClientRaw(k, ok)
        \/ ClientDisconnected(k) \/ Break(k)
    \/ \E c \in Ctrls : Connect(c) \/ Disconnect(c)

Spec == Init /\ [][Next]_vars

(* What the loops do with the events of their connections, and the         *)
(* device's application with its peers.                                    *)
ServerEvent(k) ==
    \/ ServerConnected(k) \/ ServerDisconnected(k)
    \/ \E whole \in BOOLEAN : ServerRaw(k, whole)
ClientEvent(k) ==
    ClientDisconnected(k) \/ \E whole \in BOOLEAN : ClientRaw(k, whole)
Decision(k) ==
    Accept(k) \/ Reject(k) \/ (ctrl[Owner(k)].conn # k /\ PeerDisconnect(k))

(* The loops serve their events, a controller connects again, the device   *)
(* listens, and its application answers the requests it was told of and    *)
(* drops a peer whose controller is gone.  Nothing is assumed of the order *)
(* in which these happen to different connections.                         *)
FairSpec ==
    /\ Spec
    /\ WF_vars(StartListen)
    /\ WF_vars(\E k \in Slots : ServerEvent(k))
    /\ WF_vars(\E k \in Slots : ClientEvent(k))
    /\ WF_vars(\E k \in Slots : Decision(k))
    /\ WF_vars(\E k \in Slots, sent \in BOOLEAN : ClientConnected(k, sent))

-----------------------------------------------------------------------------
(* Properties *)

Ended == {"disconnected", "canceled"}

(* What arsdk_device_conn_cbs promises: connecting comes first, connected  *)
(* at most once after it, then exactly one end, disconnected if and only   *)
(* if it was connected; and every attempt that is over was ended.          *)
ControllerToldOnce ==
    \A c \in Ctrls :
        LET log == ctrl[c].log
            Before(i) == IF i = 1 THEN "canceled" ELSE log[i - 1]
        IN  /\ \A i \in DOMAIN log :
                 /\ log[i] = "connecting" <=> Before(i) \in Ended
                 /\ log[i] = "disconnected" <=> Before(i) = "connected"
            /\ ctrl[c].state = "NONE" <=> (log = <<>> \/ Last(log) \in Ended)

(* A peer the application was told of is removed once, and disconnected    *)
(* before if it was connected; a request not answered yet is the pending   *)
(* one, so that none is forgotten without its peer being removed.          *)
PeerToldOnce ==
    \A k \in Slots :
        /\ peer[k].log \in CASE
             peer[k].state = "NONE" ->
               {<<>>, <<"added", "removed">>,
                <<"added", "connected", "disconnected", "removed">>}
             [] peer[k].state = "PENDING" -> {<<>>}
             [] peer[k].state = "REQUESTED" -> {<<"added">>}
             [] peer[k].state = "CONNECTED" -> {<<"added", "connected">>}
        /\ peer[k].state \in {"PENDING", "REQUESTED"} => listen.conn = k

(* Types hold, and: on both ends, whatever is lost, replaced or late, each *)
(* beginning is told once and each end once (arsdk_device_conn_cbs, and    *)
(* arsdk_backend_net.c of its peers).                                      *)
ToldOnce == TypeOK /\ ControllerToldOnce /\ PeerToldOnce

(* A pending request is given up only when its own connection is closed,   *)
(* when it was answered, when a new connection takes its place, or when    *)
(* the device stops listening: never because an older connection, already  *)
(* answered or replaced, is closed late.                                   *)
PendingKept ==
    [][\A k \in Slots :
        listen.conn = k /\ listen'.conn # k =>
            \/ "server" \notin tcp'[k].ends /\ tcp[k].closedBy # {}
            \/ tcp'[k].answer # {}
            \/ \E j \in Slots : tcp'[j].opened /\ ~tcp[j].opened
            \/ ~listen'.on]_vars

(* The greatest version that controller c and the device support.          *)
Greatest(c, v) ==
    /\ v \in Versions[c].min..Versions[c].max
    /\ v \in DevVersions.min..DevVersions.max
    /\ \A w \in (v + 1)..Versions[c].max : w > DevVersions.max

(* A controller becomes connected only if the device's application was     *)
(* told so of the peer of this very connection, and both use the greatest  *)
(* version they support, although the controller's own check of it can     *)
(* never fail.                                                             *)
ConnectedTogether ==
    [][\A c \in Ctrls :
        ctrl[c].state # "CONNECTED" /\ ctrl'[c].state = "CONNECTED" =>
            \E k \in Slots :
                /\ k = ctrl[c].conn
                /\ Contains(peer[k].log, "connected")
                /\ ctrl'[c].v = peer[k].v
                /\ Greatest(c, ctrl'[c].v)]_vars

(* The device has read the request of controller c and ignored it, for it  *)
(* came in pieces or supports no version the device does.                  *)
Ignored(c) ==
    \E k \in Slots : k = ctrl[c].conn
        /\ tcp[k].opened /\ ~tcp[k].request /\ peer[k].state = "PENDING"

(* What delays an answer: a connection that breaks or gives way to another *)
(* one, a request that cannot be sent, an answer in pieces, a device that  *)
(* stops listening.                                                        *)
Disturbed ==
    \/ StopListen
    \/ \E k \in Slots :
         \/ Break(k) \/ ClientRaw(k, FALSE) \/ ClientConnected(k, FALSE)
         \/ ServerConnected(k) /\ listen.conn # Nobody

(* Once nothing disturbs the connections any more, whatever broke before,  *)
(* every attempt to connect is over or succeeds, except that of a request  *)
(* the device ignored: its controller waits for ever, it has no timeout.   *)
AnsweredWhenCalm ==
    <>[][~Disturbed]_vars =>
        \A c \in Ctrls : []<>(ctrl[c].state \in {"NONE", "CONNECTED"} \/ Ignored(c))
=============================================================================
