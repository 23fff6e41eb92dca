------------------------------ MODULE Discovery ------------------------------
(***************************************************************************)
(* How a controller finds devices, in three ways.                          *)
(*                                                                         *)
(*   mux:    the publisher of the device (libarsdk/src/mux/                *)
(*           arsdk_publisher_mux.c) tells arsdk_discovery_mux.c when it    *)
(*           starts and stops, and when it is asked;                       *)
(*   net:    arsdk_discovery_net.c connects to the publisher of one device *)
(*           (arsdk_publisher_net.c), which sends what it is at once;      *)
(*   avahi:  arsdk_discovery_avahi.c browses services, and resolves each   *)
(*           one that appears.                                             *)
(***************************************************************************)
EXTENDS Controller

CONSTANTS Scenarios,    \* the sets of discoveries used together, with app if devices are connected
          MaxQueue,     \* bound on the messages of a channel
          MaxTurns,     \* bound on what each publisher does
          MaxApp        \* bound on the listed devices that the application uses

ASSUME BoundsAssumption == {MaxQueue, MaxTurns, MaxApp} \subseteq Nat
ASSUME DiscsAssumption == Discs = {"mux", "net", "avahi"}

Nobody == [name |-> "", id |-> ""]

VARIABLES used,     \* the discoveries in use, and app
          mux,      \* the discovery channel and the publisher of the device
          net,      \* the TCP connection and the publisher of the device
          avahi,    \* the services, and what the browser and resolvers tell
          turns     \* how often each publisher started, or the connection broke

vars == <<ctrlVars, used, mux, net, avahi, turns>>

\* open says that the device's side of the channel is; conn is where the
\* connection of the net discovery is, dead if the device has gone without
\* closing it; known is what the discovery remembers.
Init ==
    /\ CtrlInit
    /\ used \in Scenarios
    /\ mux = [open |-> TRUE, pub |-> Nobody, toCtl |-> << >>, toDev |-> << >>]
    /\ net = [pub |-> Nobody, conn |-> "off", data |-> Nobody, known |-> Nobody]
    /\ avahi = [serv |-> {}, browsing |-> FALSE, events |-> << >>, resolving |-> {}]
    /\ turns = [k \in Discs |-> 0]

TypeOK ==
    /\ CtrlTypeOK
    /\ used \in Scenarios
    /\ mux.pub \in Devs \cup {Nobody}
    /\ Len(mux.toCtl) <= MaxQueue + 1 /\ Len(mux.toDev) <= MaxQueue
    /\ net.conn \in {"off", "trying", "up", "dead", "closed"}
    /\ {net.pub, net.data, net.known} \subseteq Devs \cup {Nobody}
    /\ avahi.serv \subseteq Devs /\ avahi.resolving \subseteq Devs
    /\ turns \in [Discs -> 0..MaxTurns]

-----------------------------------------------------------------------------
\* Multiplexer, device's side.  A channel that was reset is not opened again:
\* nothing goes through until the publisher is created anew.
ToCtl(q, m) == IF mux.open /\ disc["mux"].alive THEN Append(q, m) ELSE q

PubMuxStart(dev) ==
    /\ mux.pub = Nobody /\ turns["mux"] < MaxTurns /\ Len(mux.toCtl) < MaxQueue
    /\ mux' = [mux EXCEPT !.pub = dev, !.toCtl = ToCtl(@, <<"ADDED", dev>>)]
    /\ turns' = [turns EXCEPT !["mux"] = @ + 1]
    /\ UNCHANGED <<ctrlVars, used, net, avahi>>

PubMuxStop ==
    /\ mux.pub # Nobody /\ Len(mux.toCtl) < MaxQueue
    /\ mux' = [mux EXCEPT !.pub = Nobody, !.toCtl = ToCtl(@, <<"REMOVED", mux.pub>>)]
    /\ UNCHANGED <<ctrlVars, used, net, avahi, turns>>

\* arsdk_publisher_mux_destroy, then arsdk_publisher_mux_new.
PubMuxNew ==
    /\ ~mux.open
    /\ mux' = [mux EXCEPT !.open = TRUE, !.pub = Nobody]
    /\ UNCHANGED <<ctrlVars, used, net, avahi, turns>>

\* Mutant: who is asked does not answer.
RxDiscoverMute == mux' = [mux EXCEPT !.toDev = Tail(@)]

\* publisher_mux_rx_discover: it answers if it is running.
RxDiscover ==
    mux' = [mux EXCEPT !.toDev = Tail(@),
                       !.toCtl = IF mux.pub = Nobody THEN @ ELSE ToCtl(@, <<"ADDED", mux.pub>>)]

PubMuxReceive ==
    /\ mux.toDev # << >> /\ Len(mux.toCtl) <= MaxQueue
    /\ RxDiscover
    /\ UNCHANGED <<ctrlVars, used, net, avahi, turns>>

\* Controller's side.
MuxStart ==
    /\ disc["mux"].alive /\ ~disc["mux"].started /\ disc["mux"].run < MaxRuns
    /\ Len(mux.toDev) < MaxQueue
    /\ disc' = Started(disc, "mux")
    /\ mux' = [mux EXCEPT !.toDev = IF mux.open THEN Append(@, "DISCOVER") ELSE @]
    /\ UNCHANGED <<listed, told, used, net, avahi, turns>>

MuxStop ==
    /\ disc["mux"].alive /\ disc["mux"].started
    /\ disc' = Stopped(disc, "mux")
    /\ UNCHANGED <<listed, told, used, mux, net, avahi, turns>>

\* Mutant: the name is enough.
MuxRxName(m) == IF m[1] = "ADDED" THEN AddDevice("mux", m[2])
                ELSE RemoveDevice("mux", m[2].name, "")

\* discovery_mux_rx_device_added, discovery_mux_rx_device_removed.
MuxRx(m) == IF m[1] = "ADDED" THEN AddDevice("mux", m[2])
            ELSE RemoveDevice("mux", m[2].name, m[2].id)

\* The messages are received whether the discovery is started or not.
MuxReceive ==
    /\ disc["mux"].alive
    /\ mux.toCtl # << >>
    /\ MuxRx(Head(mux.toCtl))
    /\ mux' = [mux EXCEPT !.toCtl = Tail(@)]
    /\ UNCHANGED <<disc, used, net, avahi, turns>>

\* The channel is reset, and what it held is lost: the discovery is started
\* anew, even if it was not, and asks nothing.
MuxReset ==
    /\ disc["mux"].alive /\ disc["mux"].run < MaxRuns
    /\ disc' = Started(Stopped(disc, "mux"), "mux")
    /\ mux' = [mux EXCEPT !.open = FALSE, !.toCtl = << >>, !.toDev = << >>]
    /\ UNCHANGED <<listed, told, used, net, avahi, turns>>

MuxNew == /\ DiscNew("mux")
          /\ UNCHANGED <<used, mux, net, avahi, turns>>

MuxDestroy ==
    /\ DiscDestroy("mux")
    /\ mux' = [mux EXCEPT !.toCtl = << >>]
    /\ UNCHANGED <<used, net, avahi, turns>>

-----------------------------------------------------------------------------
\* Network, device's side: who connects is told what the device is.
PubNetStart(dev) ==
    /\ net.pub = Nobody /\ turns["net"] < MaxTurns
    /\ net' = [net EXCEPT !.pub = dev]
    /\ turns' = [turns EXCEPT !["net"] = @ + 1]
    /\ UNCHANGED <<ctrlVars, used, mux, avahi>>

PubNetStop ==
    /\ net.pub # Nobody
    /\ net' = [net EXCEPT !.pub = Nobody, !.conn = IF @ = "up" THEN "closed" ELSE @]
    /\ UNCHANGED <<ctrlVars, used, mux, avahi, turns>>

\* The device is switched off or out of reach: nothing is closed, and as the
\* discovery disabled the keepalive and sends nothing, it is not told.
PubNetVanish ==
    /\ net.pub # Nobody /\ net.conn = "up"
    /\ net' = [net EXCEPT !.pub = Nobody, !.conn = "dead"]
    /\ UNCHANGED <<ctrlVars, used, mux, avahi, turns>>

PubNetSend ==
    /\ net.conn = "trying" /\ net.pub # Nobody
    /\ net' = [net EXCEPT !.conn = "up", !.data = net.pub]
    /\ UNCHANGED <<ctrlVars, used, mux, avahi, turns>>

\* Controller's side.
NetStart ==
    /\ disc["net"].alive /\ ~disc["net"].started /\ disc["net"].run < MaxRuns
    /\ disc' = Started(disc, "net")
    /\ net' = [net EXCEPT !.conn = "trying"]
    /\ UNCHANGED <<listed, told, used, mux, avahi, turns>>

\* raw_cb: there is one device, what more comes is ignored.
NetReceive ==
    /\ net.data # Nobody
    /\ IF net.known # Nobody THEN UNCHANGED <<listed, told>>
       ELSE AddDevice("net", net.data)
    /\ net' = [net EXCEPT !.data = Nobody,
                          !.known = IF net.known = Nobody THEN net.data ELSE @]
    /\ UNCHANGED <<disc, used, mux, avahi, turns>>

\* Mutant: the device is forgotten, not removed.
ForgetOnly == UNCHANGED <<listed, told>>

\* event_cb: the device that is remembered goes with its connection.
Forget == IF net.known = Nobody THEN UNCHANGED <<listed, told>>
          ELSE RemoveDevice("net", net.known.name, net.known.id)

NetDisconnected ==
    /\ net.conn = "closed"
    /\ Forget
    /\ net' = [net EXCEPT !.conn = "trying", !.data = Nobody, !.known = Nobody]
    /\ UNCHANGED <<disc, used, mux, avahi, turns>>

\* The connection breaks.
NetBreaks ==
    /\ net.conn \in {"up", "dead"} /\ turns["net"] < MaxTurns
    /\ net' = [net EXCEPT !.conn = "closed"]
    /\ turns' = [turns EXCEPT !["net"] = @ + 1]
    /\ UNCHANGED <<ctrlVars, used, mux, avahi>>

\* Stopping the context closes the connection, which is told first.
NetStop ==
    /\ disc["net"].started
    /\ Forget
    /\ disc' = Stopped(disc, "net")
    /\ net' = [net EXCEPT !.conn = "off", !.data = Nobody, !.known = Nobody]
    /\ UNCHANGED <<used, mux, avahi, turns>>

NetNew == /\ DiscNew("net")
          /\ UNCHANGED <<used, mux, net, avahi, turns>>

NetDestroy == /\ ~disc["net"].started
              /\ DiscDestroy("net")
              /\ UNCHANGED <<used, mux, net, avahi, turns>>

-----------------------------------------------------------------------------
\* Avahi, external: services of different names appear and go.
Event(kind, dev) == IF avahi.browsing THEN Append(avahi.events, <<kind, dev>>)
                    ELSE avahi.events

ServiceUp(dev) ==
    /\ turns["avahi"] < MaxTurns /\ Len(avahi.events) < MaxQueue
    /\ \A d \in avahi.serv : d.name # dev.name
    /\ avahi' = [avahi EXCEPT !.serv = @ \cup {dev}, !.events = Event("NEW", dev)]
    /\ turns' = [turns EXCEPT !["avahi"] = @ + 1]
    /\ UNCHANGED <<ctrlVars, used, mux, net>>

ServiceDown(dev) ==
    /\ dev \in avahi.serv /\ Len(avahi.events) < MaxQueue
    /\ avahi' = [avahi EXCEPT !.serv = @ \ {dev}, !.events = Event("REMOVE", dev)]
    /\ UNCHANGED <<ctrlVars, used, mux, net, turns>>

\* avahi_browser_start: what is there is told first.
AvahiStart ==
    /\ disc["avahi"].alive /\ ~disc["avahi"].started /\ disc["avahi"].run < MaxRuns
    /\ disc' = Started(disc, "avahi")
    /\ avahi' = [avahi EXCEPT !.browsing = TRUE,
                              !.events = SetToSeq({<<"NEW", d>> : d \in avahi.serv})]
    /\ UNCHANGED <<listed, told, used, mux, net, turns>>

\* avahi_browser_stop: the resolvers are left.
AvahiStop ==
    /\ disc["avahi"].started
    /\ disc' = Stopped(disc, "avahi")
    /\ avahi' = [avahi EXCEPT !.browsing = FALSE, !.events = << >>]
    /\ UNCHANGED <<listed, told, used, mux, net, turns>>

\* avahi_service_browser_cb: a new one is resolved; one that goes is only
\* known by its name.
BrowserNew ==
    /\ avahi.events # << >> /\ Head(avahi.events)[1] = "NEW"
    /\ avahi' = [avahi EXCEPT !.events = Tail(@),
                              !.resolving = @ \cup {Head(avahi.events)[2]}]
    /\ UNCHANGED <<ctrlVars, used, mux, net, turns>>

BrowserRemove ==
    /\ avahi.events # << >> /\ Head(avahi.events)[1] = "REMOVE"
    /\ RemoveDevice("avahi", Head(avahi.events)[2].name, "")
    /\ avahi' = [avahi EXCEPT !.events = Tail(@)]
    /\ UNCHANGED <<disc, used, mux, net, turns>>

\* avahi_service_resolver_cb: found, even if it has gone since.
ResolverFound(dev) ==
    /\ dev \in avahi.resolving
    /\ AddDevice("avahi", dev)
    /\ avahi' = [avahi EXCEPT !.resolving = @ \ {dev}]
    /\ UNCHANGED <<disc, used, mux, net, turns>>

\* A resolver fails when its service has gone.
ResolverFailure(dev) ==
    /\ dev \in avahi.resolving /\ dev \notin avahi.serv
    /\ avahi' = [avahi EXCEPT !.resolving = @ \ {dev}]
    /\ UNCHANGED <<ctrlVars, used, mux, net, turns>>

AvahiNew == /\ DiscNew("avahi")
            /\ UNCHANGED <<used, mux, net, avahi, turns>>

\* The client goes, and its resolvers with it.
AvahiDestroy ==
    /\ ~disc["avahi"].started
    /\ DiscDestroy("avahi")
    /\ avahi' = [avahi EXCEPT !.resolving = {}]
    /\ UNCHANGED <<used, mux, net, turns>>

-----------------------------------------------------------------------------
MuxPublisher == (\E dev \in Devs : PubMuxStart(dev)) \/ PubMuxStop \/ PubMuxNew
MuxLoop == PubMuxReceive \/ MuxReceive
MuxNext == \/ MuxPublisher \/ MuxLoop
           \/ MuxStart \/ MuxStop \/ MuxReset \/ MuxNew \/ MuxDestroy

NetPublisher == (\E dev \in Devs : PubNetStart(dev)) \/ PubNetStop \/ PubNetVanish
NetLoop == PubNetSend \/ NetReceive \/ NetDisconnected
NetNext == \/ NetPublisher \/ NetLoop \/ NetBreaks
           \/ NetStart \/ NetStop \/ NetNew \/ NetDestroy

AvahiLoop == \/ BrowserNew \/ BrowserRemove
             \/ \E dev \in Devs : ResolverFound(dev) \/ ResolverFailure(dev)
AvahiNext == \/ AvahiLoop
             \/ \E dev \in Devs : ServiceUp(dev) \/ ServiceDown(dev)
             \/ AvahiStart \/ AvahiStop \/ AvahiNew \/ AvahiDestroy

Purge == \E k \in Discs : Timer(k)

\* The application and the backends, on a device.
DeviceNext ==
    \E i \in DOMAIN listed \cap 1..MaxApp :
      \/ DeviceConnect(i) \/ DeviceConnected(i) \/ DeviceEnded(i)
      \/ DeviceCreateCmdItf(i) \/ DeviceGetFtpItf(i)
      \/ DeviceGetItfOverFtp(i) \/ DeviceGetBlackboxItf(i)

Next ==
    \/ "mux" \in used /\ MuxNext
    \/ "net" \in used /\ NetNext
    \/ "avahi" \in used /\ AvahiNext
    \/ /\ Purge \/ ("app" \in used /\ DeviceNext) \/ \E k \in Discs : UnregisterBackend(k)
       /\ UNCHANGED <<used, mux, net, avahi, turns>>

\* The loop handles what it received, the timer fires, a connection that is
\* accepted is made, Avahi tells what it knows.
Fairness ==
    /\ WF_vars(MuxLoop) /\ WF_vars(NetLoop) /\ WF_vars(AvahiLoop)
    /\ WF_vars(Purge /\ UNCHANGED <<used, mux, net, avahi, turns>>)

Spec == Init /\ [][Next]_vars /\ Fairness
=============================================================================
