--------------------------- MODULE DiscoveryProps ---------------------------
(***************************************************************************)
(* What the list of devices promises to the application.                   *)
(***************************************************************************)
EXTENDS Discovery

\* Two devices that are not the same: by their ids, or if neither has one, by
\* their names.
Distinct(d, e) == d.id # e.id \/ (d.id = "" /\ d.name # e.name)

\* A discovery lists a device once, however often it is found, lost and found
\* again, and no two devices of the list share a handle.
ListedOnce ==
    \A i, j \in DOMAIN listed :
      i # j => /\ listed[i].h # listed[j].h
               /\ listed[i].by # "none" /\ listed[i].by = listed[j].by
                     => Distinct(listed[i].dev, listed[j].dev)

\* Once the timer of a run has fired, what earlier runs found and this one
\* did not is no longer listed.
PurgedAfterTimer ==
    \A i \in DOMAIN listed :
      LET k == listed[i].by
      IN  k # "none" /\ disc[k].started /\ ~disc[k].timer => listed[i].run = disc[k].run

\* The net discovery lists the device that it remembers, and no other one: it
\* can then remove it when the connection breaks.
NetListsKnown ==
    \A i \in DOMAIN listed : listed[i].by = "net" => listed[i].dev = net.known

\* The application that was told that a device connects, or is connected, is
\* told the end of that before the device goes.
EndToldBeforeGone == told \subseteq Taken

\* Nothing but the black box outlives a connection: an interface never works
\* on the transport of an earlier one, nor on an FTP interface that was freed.
NoItfWithoutConn ==
    \A i \in DOMAIN listed :
      /\ listed[i].itfs \ {"blackbox"} # {} => listed[i].conn = "connected"
      /\ "over" \in listed[i].itfs => "ftp" \in listed[i].itfs

\* Types hold, and: the list holds what the runs found, once
\* (arsdk_discovery_add_device, arsdk_discovery_timer_cb).
ListSound == TypeOK /\ ListedOnce /\ PurgedAfterTimer /\ NetListsKnown

\* A device that goes, or whose connection ends, leaves nothing of it
\* (arsdk_ctrl_destroy_device, cleanup_connection).
ConnEndsFirst == EndToldBeforeGone /\ NoItfWithoutConn

Lists(k, dev) == \E i \in DOMAIN listed : listed[i].by = k /\ listed[i].dev = dev

\* The network's discovery learns of a publisher only by its connection: one
\* that is gone without being closed says nothing more.
Heard == net.conn # "dead"

\* A device that publishes for good, on a channel that works, while the
\* discovery is started, is listed in the end.
ThereIsListed ==
    \A dev \in Devs :
      /\ <>[](mux.pub = dev /\ mux.open /\ disc["mux"].started) => <>[]Lists("mux", dev)
      /\ <>[](net.pub = dev /\ Heard /\ disc["net"].started) => <>[]Lists("net", dev)

\* A device that no longer publishes is not listed for ever by a discovery
\* that stays started, if its connection was closed.
GoneIsUnlisted ==
    \A dev \in Devs :
      /\ <>[](mux.pub # dev /\ disc["mux"].started) => <>[]~Lists("mux", dev)
      /\ <>[](net.pub # dev /\ Heard /\ disc["net"].started) => <>[]~Lists("net", dev)

\* In the end the list is what publishes (the multiplexer's discovery, and the
\* network's but for a device that vanished: it stays listed).
ListsWhatPublishes == ThereIsListed /\ GoneIsUnlisted
=============================================================================
